\* FileReader with no futures queue: a read still runs its task.
CONSTANTS
    r1 = r1
    r2 = r2
    Readers <- MCReaders
    Kinds <- MCKinds
    FuturesQueue = FALSE
    MaxReads = 3
SPECIFICATION Spec
INVARIANTS SpawnFailsWithoutQueue
CHECK_DEADLOCK FALSE
