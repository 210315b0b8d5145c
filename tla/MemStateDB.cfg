CONSTANTS
    x = x
    y = y
    s = s
    c = c
    None = None
    Addrs <- MCAddrs
    Slots <- MCSlots
    Codes <- MCCodes
    Tasks <- MCTasks
    Stores <- MCStores
    Modulus = 8
    MaxOps = 5
SPECIFICATION Spec
CHECK_DEADLOCK FALSE
INVARIANTS
    TypeOK
    ChangesAreExact
PROPERTIES
    RevertRestoresView
    ReadsAreTransparent
    TransferConserves
