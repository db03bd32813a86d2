\* One scan, to its end.  One scan ends, so the system may really stop.
CONSTANTS
    t1 = t1
    t2 = t2
    Threads <- MCThreads
    MaxPartitions = 3
    Chunks <- MCChunks
    NoReader = NoReader
    NoIndex = NoIndex
SPECIFICATION FairSpec
CHECK_DEADLOCK FALSE
INVARIANTS
    Inv
    PlaceNeverDown
    EveryChunkOnce
    OrderKept
    RowIdsTile
PROPERTIES
    ScanEnds
