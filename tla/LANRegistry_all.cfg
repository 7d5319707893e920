SPECIFICATION LANFairSpec
CONSTANTS
    n1 = n1
    n2 = n2
    s1 = s1
    s2 = s2
    Nil = Nil
    Nodes = {n1, n2}
    Names = {s1}
    Publishers = {n1}
    Queriers = {n2}
    Patterns <- MCPatterns
    BroadcastFails = TRUE
    PromptNet = TRUE
    MaxLost = 2
    MaxStops = 2
INVARIANTS LocalKept
PROPERTIES QueriesAnswered Discoverable Forgotten
CHECK_DEADLOCK FALSE
