SPECIFICATION FairSpec
CONSTANTS
    proc = proc
    dir = dir
    own = own
    lan = lan
    wan = wan
    other = other
    Tier <- MCTier
    Name <- MCName
    Provider <- MCProvider
    Self <- MCSelf
    Options <- MCOptions
    Instances = {proc, dir, own, lan, wan, other}
    Proxied = {other}
    Vanishing = {proc, dir, lan}
    Slow = {lan}
    Letters = {"a", "b"}
    MaxPattern = 5
    MaxStr = 5
INVARIANTS ConnectsAsAsked NearestFirst OncePerService AtMostExpected
PROPERTIES Found Ends
CHECK_DEADLOCK FALSE
