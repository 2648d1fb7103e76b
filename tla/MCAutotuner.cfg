CONSTANTS
    p1 = p1
    p2 = p2
    k1 = k1
    k2 = k2
    a = a
    b = b
    f = f
    None = None
    Proc <- TwoProcs
    Key <- TwoKeys
    Contract <- OneContract
    Config <- TwoConfigs
    ContractOf <- SameContract
    Space <- Spaces
    Ranked <- Ranking
    Modes <- AllModes
    Workloads <- AllOperators
SYMMETRY Symmetry
SPECIFICATION Spec
INVARIANTS WinnersAgree RunningQuota PeerWinnerIsPickedUp NeverForeign NeverBlocks
