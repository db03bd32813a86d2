\* Any scan, also one that nothing is folded into, against what a comment says
\* column ids are.  A scan is read once, so the system may really stop.
CONSTANTS
    Width = 3
    Key <- MCKey
    MaxSlots = 3
    Unread = Unread
    Computed = Computed
    NULL = NULL
SPECIFICATION Spec
CHECK_DEADLOCK FALSE
INVARIANTS
    ColumnIdsMapSlots
