SPECIFICATION FairLogSpec
CONSTANTS
    c1 = c1
    c2 = c2
    None = None
    Clients <- MCClients
    Entries <- MCEntries
    Schemas = {a}
    o1 = o1
    Owners = {o1}
    MaxChanges = 1
    MaxHeld = 1
PROPERTIES CallsReturn ImplementsCatalog
