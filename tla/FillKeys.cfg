CONSTANTS
    a1 = a1
    a2 = a2
    b = b
    Sources <- MCSources
    Group <- MCGroup
    Refused <- MCRefused
    Stored <- MCStored
    ViewOf <- MCViewOf
    SingleJoinsRaise = FALSE
    Target = Target
    Null = Null
    Raised = Raised
    KeyOf <- MCKeyOf
    KeyUnique = {"ta"}
    Shapes <- MCKeyShapes
    PlanOf <- MCPlanOf
SPECIFICATION Spec
CHECK_DEADLOCK FALSE
INVARIANTS
    WritesAsMeant
