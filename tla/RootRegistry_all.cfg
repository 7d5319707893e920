SPECIFICATION FairSpec
CONSTANTS
    k1 = k1
    k2 = k2
    a1 = a1
    a2 = a2
    a3 = a3
    b1 = b1
    None = None
    Keys = {k1}
    Addrs = {a1, a2, a3}
    KeyOf <- MCKeyOf
    Proxied = {a2}
    MaxCrashes = 2
INVARIANTS LiveKept
PROPERTY DeadForgotten
CHECK_DEADLOCK FALSE
