SPECIFICATION Spec
CONSTANTS
    Programs <- WidthPrograms
    Config <- MCConfig
    Square <- MCSquare
    Ranked <- MCRanked
    Library <- MCLibrary
    Default <- MCDefault
    NoConfig = NoConfig
    Archs = {9, 10}
    Budgets = {0}
    MaxCalls = 3
INVARIANT ReplaysKeepTheWidth
