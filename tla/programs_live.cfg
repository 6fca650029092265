CONSTANTS
    MAX_THREAD = 5
    NUM_MUTEX = 2
    Mutex = {"m1"}
    MtxBuffMaxs = {2, 3, 4, 5, 6}
    SemBuffMaxs = {1, 2, 3, 4, 5, 6}
SPECIFICATION LiveSpec
CHECK_DEADLOCK FALSE
INVARIANTS OneHolder BufferBounds
PROPERTIES NearsTurn ThreadsGoOn EveryoneGetsIn QueuedIsWritten
