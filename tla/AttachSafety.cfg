SPECIFICATION MCSpec
CONSTANTS
    c1 = c1
    c2 = c2
    None = None
    Clients <- MCClients
    Entries <- MCEntries
    Schemas = {a}
    o1 = o1
    Owners = {o1, o2}
    MaxChanges = 2
    MaxHeld = 1
SYMMETRY MCSymmetry
INVARIANTS FreshLookups OthersIsolated SeesOwnDdl PointersStayGood
