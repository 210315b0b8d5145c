CONSTANTS
    x = x
    y = y
    s = s
    c = c
    None = None
    Addrs <- MCAddrs
    Slots <- MCSlots
    Codes <- MCCodes
    Tasks <- MCTasks
    Stores <- MCStores
    Modulus = 8
    MaxOps = 1
SPECIFICATION Spec
CHECK_DEADLOCK FALSE
INVARIANT CodeFallsBack
