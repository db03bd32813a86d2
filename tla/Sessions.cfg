SPECIFICATION Spec
CONSTANTS
    c1 = c1
    c2 = c2
    t1 = t1
    t2 = t2
    x1 = x1
    x2 = x2
    s1 = s1
    s2 = s2
    None = None
    Clients <- MCClients
    Threads <- MCThreads
    Transactions <- MCTransactions
    Sessions <- MCSessions
SYMMETRY MCSymmetry
INVARIANTS OwnSession NoSessionLost SettlesItsOwn
PROPERTY ImplementsTransactions
