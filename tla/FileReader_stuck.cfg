\* FileReader: a reader whose read finished still refuses a new one.
CONSTANTS
    r1 = r1
    r2 = r2
    Readers <- MCReaders
    Kinds <- MCKinds
    FuturesQueue = TRUE
    MaxReads = 3
SPECIFICATION Spec
INVARIANTS ReaderLeavesLoading
CHECK_DEADLOCK FALSE
