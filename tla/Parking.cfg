CONSTANTS
    s1 = s1
    s2 = s2
    f1 = f1
    p1 = p1
    p2 = p2
    Sources <- MCSources
    Finalizers <- MCFinalizers
    Parkings <- MCParkings
    Promising <- MCPromising
    NoTask = NoTask
    NoParking = NoParking
SPECIFICATION FairSpec
INVARIANTS
    NoStrayCallback
    NoLostWake
    CancelReaches
    Inv
PROPERTIES
    CancelResumes
    ImplementsWaking
