SPECIFICATION FairSpec
CONSTANTS
    c1 = c1
    c2 = c2
    Clients = {c1}
    MaxSessions = 2
INVARIANTS ListedWhileServed
PROPERTY SessionReleased
CHECK_DEADLOCK FALSE
