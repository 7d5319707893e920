SPECIFICATION FairSpec
CONSTANTS
    a = a
    b = b
    q1 = q1
    q2 = q2
    q3 = q3
    q4 = q4
    q5 = q5
    q6 = q6
    q7 = q7
    q8 = q8
    q9 = q9
    q10 = q10
    q11 = q11
    q12 = q12
    q13 = q13
    None = None
    Streams = {a, b}
    Reqs = {q1, q2, q3, q4, q5, q6, q7, q8, q9, q10, q11, q12, q13}
    StreamOf <- MCStreamOf
    Scripts <- MCScripts
    KindOf <- MCKindOf
    OneWay = {q2, q3, q5, q6, q11}
    NetCap = 1
    ClientQ = 1
    ServerQ = 1
    RecvTimeouts = TRUE
INVARIANTS RepliesIntact SendRecvGetsItsReply
PROPERTY CallsReturn
CHECK_DEADLOCK FALSE
