SPECIFICATION Spec
CONSTANTS
    Proc = {p1, p2}
    Block = {b1, b2, b3}
    Data = {d1, d2}
    Torn = Torn
    None = None
    MAXOPBLOCKS = 2
    LOGSIZE = 4
    NLOG = 4
SYMMETRY Symmetry
INVARIANTS
    SleepersHaveReason
    CommitAlone
    LogHasRoom
PROPERTIES
    StoreSpec
