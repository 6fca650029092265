CONSTANTS
    NULL = NULL
    Readers = {r1, r2}
    Writers = {w1, w2}
    philNum = 4
    MaxUnits = 2
    QUEUESIZE = 3
    MaxRead = 3
SPECIFICATION Spec
CHECK_DEADLOCK FALSE
INVARIANTS MemoryPartitioned MemWaitersCounted RwMonitorSound ReadersOrWriter OneHoldsMutex ChatSound
PROPERTIES ListNodes ListsImplementSpec
