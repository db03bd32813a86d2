\* One scan from binding to execution.  It is read once, so the system may
\* really stop.
CONSTANTS
    Width = 3
    Key <- MCKey
    MaxSlots = 3
    Unread = Unread
    Computed = Computed
    NULL = NULL
SPECIFICATION Spec
CHECK_DEADLOCK FALSE
INVARIANTS
    TypeOK
    FoldedSlotsAsMeant
    OnlyReadColumnsShipped
PROPERTIES
    FrozenAsBound
