SPECIFICATION FairSpec
CONSTANTS
    k1 = k1
    k2 = k2
    s1 = s1
    s2 = s2
    s3 = s3
    w1 = w1
    NoMsg = NoMsg
    ConnOf <- MCConnOf
    KindsOf <- MCKindsOf
    SendsOf <- MCSendsOf
    Conns = {k1}
    Streams = {s1, s2}
    Workers = {w1}
    QSize = 1
    MaxSends = 2
    Timeouts = {s2}
    HandlerTimeouts = {s1}
INVARIANTS InOrder OwnReply
PROPERTIES SentIsDispatched CallsReturn Disconnects
CHECK_DEADLOCK FALSE
