\* Two executions of one prepared write; after them the system may really stop.
CONSTANTS
    r1 = r1
    r2 = r2
    r3 = r3
    k1 = k1
    k2 = k2
    Gone = Gone
    Keys <- MCKeys
    Rows <- MCRows
    MaxRuns = 2
    MaxChanges = 2
SPECIFICATION FairSpec
CHECK_DEADLOCK FALSE
INVARIANTS
    AskedOnce
    SeamIsBack
    AlarmMeansAmbiguous
    AmbiguityRefused
PROPERTIES
    WriteEnds
