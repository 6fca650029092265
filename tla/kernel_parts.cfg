CONSTANTS
    Nil = Nil
    NPROC = 3
    MaxPid = 4
    MaxKilled = 1
    Sleeper = {p1, p2, p3}
    PipeUser = {q1, q2}
    PIPESIZE = 2
    UINT = 4
    Size = 3
    MaxBytes = 4
    MaxRef = 2
    DiskUser = {d1, d2, d3}
    NUM = 8
    IDX = 16
SPECIFICATION Spec
CHECK_DEADLOCK FALSE
INVARIANTS CowCounted CowPagesKept ProcTable PipeSound NoSleeperMissed DiskSound InodesSound InodesStored
