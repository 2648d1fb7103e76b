SPECIFICATION Spec
CONSTANTS
    Programs <- MCPrograms
    Config <- MCConfig
    Square <- MCSquare
    Ranked <- MCRanked
    Library <- MCLibrary
    Default <- MCDefault
    NoConfig = NoConfig
    Archs = {9, 10}
    Budgets = {0, 1}
    MaxCalls = 3
INVARIANTS
    ReplaysAreFresh
    WinnerRuns
    SinksFitKernel
    TermsAppliedOnce
