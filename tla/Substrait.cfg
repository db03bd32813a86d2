CONSTANTS
    s1 = s1
    Sources <- MCSources
    Group <- MCGroup
    Refused <- MCRefused
    Stored <- MCStored
    SingleJoinsRaise = FALSE
    Target = Target
    Null = Null
    Raised = Raised
    Shapes <- MCShapes
    FragmentOf <- MCFragmentOf
    Planned <- MCPlanned
    Gathered <- MCGathered
SPECIFICATION Spec
CHECK_DEADLOCK FALSE
INVARIANTS
    AnswersAsAsked
    AcceptedIsDecoded
