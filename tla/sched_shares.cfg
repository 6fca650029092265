SPECIFICATION Spec
CONSTANTS
    CPU = {c1, c2}
    Nobody = Nobody
    NPROC = 2
    MAXGROUPS = 2
    MAXGROUPSHARE = 5
    Callers = {1, 2}
    MaxCalls = 2
INVARIANT
    SharesFit
