CONSTANTS
    w0 = w0
    w1 = w1
    b0 = b0
    b1 = b1
    NoBatch = NoBatch
    Workers <- MCWorkers
    Batches <- MCBatches
    Size = 1
    CounterMax = 2
    RestartAfter = {"success", "failure"}
    MaxBoots = 2
SPECIFICATION FairSpec
CHECK_DEADLOCK FALSE
INVARIANTS
    TypeOK
    AtMostOnce
    CountIsExact
PROPERTIES
    DeliversOnce
    Reconnects
    ShutsDown
