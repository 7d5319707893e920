SPECIFICATION Spec
CONSTANTS
    s1 = s1
    s2 = s2
    d1 = d1
    all = all
    None = None
    Senders = {s1, s2}
    MaxTracingSessions = 3
    Counts = {0, 1, 4}
    Readers = {d1, all}
    Wanted <- MCWanted
    Cap = 2
    BufferSize = 1
    Bounds <- MCBounds
INVARIANTS DeliveredInOrder SeqNumBounded IndexesAgree ReturnedOnce
PROPERTY TokensUnique
CHECK_DEADLOCK FALSE
