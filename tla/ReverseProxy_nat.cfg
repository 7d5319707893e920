SPECIFICATION FairSpec
CONSTANTS
    c1 = c1
    c2 = c2
    Clients = {c1}
    MaxSessions = 1
PROPERTY ClientsJoined
CHECK_DEADLOCK FALSE
