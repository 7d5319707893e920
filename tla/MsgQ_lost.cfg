SPECIFICATION FairSpec
CONSTANTS
    h1 = h1
    h2 = h2
    n1 = n1
    n2 = n2
    l1 = l1
    l2 = l2
    r1 = r1
    r2 = r2
    w1 = w1
    w2 = w2
    None = None
    Msgs = {h1}
    Receivers = {r1}
    Workers = {w1, w2}
    InitialWorkers = {w1}
    PriorityOf <- MCPriorityOf
    QSize = 2
    QWeight = 2
PROPERTY EveryMessageHandled
CHECK_DEADLOCK FALSE
