CONSTANTS
    p1 = p1
    p2 = p2
    p3 = p3
    Caller <- MCCaller
    Absent = Absent
    Corrupt = Corrupt
    NoOne = NoOne
    FlakyLoad = FALSE
SPECIFICATION MCLoneSpec
INVARIANTS LoadsFindTheirFile OneAuthor CompilesAreBanked
PROPERTIES StoreSpec MCReturns
