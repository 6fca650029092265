SPECIFICATION FairHSpec
CONSTANTS
    CPU = {c1, c2}
    Nobody = Nobody
    NPROC = 2
    MAXGROUPS = 2
    MAXGROUPSHARE = 3
    Callers = {1}
    MaxCalls = 2
INVARIANTS
    OneBuilder
    PickInBounds
    AlternatingTurns
    ScheduleFits
PROPERTIES
    EachEntryGivenOnce
    AllocSpec
    NoStarvation
