CONSTANTS
    p1 = p1
    p2 = p2
    k1 = k1
    k2 = k2
    Proc <- TwoProcs
    Key <- TwoKeys
    Cases <- AllCases
    Slots = 1
SPECIFICATION FairSpec
INVARIANTS CountsAreMineOrLate SuccessMeansSound
PROPERTIES EveryPrewarmEnds
CHECK_DEADLOCK FALSE
