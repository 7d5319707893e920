SPECIFICATION PoolFairSpec
CONSTANTS
    w1 = w1
    w2 = w2
    w3 = w3
    w4 = w4
    Workers = {w1, w2, w3}
    Resident = 1
    QWeight = 2
    MaxMsgs = 2
    None = None
INVARIANTS CountersSane ClosedMeansNoWorker
PROPERTIES CloseReturns QueueDrains PoolFollowsTarget
CHECK_DEADLOCK FALSE
