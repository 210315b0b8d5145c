CONSTANTS
    x = x
    y = y
    s = s
    c = c
    None = None
    Addrs <- MCAddrs
    Slots <- MCSlots
    Codes <- MCCodes
    Tasks <- MCTasks
    Stores <- MCMovingStores
    Modulus = 8
    MaxOps = 4
SPECIFICATION MovingSpec
CHECK_DEADLOCK FALSE
PROPERTY OriginalsNeverModified
