SPECIFICATION FairSpec
CONSTANTS
    c1 = c1
    c2 = c2
    c3 = c3
    h1 = h1
    h2 = h2
    Builtins <- MCBuiltins
    Published <- MCPublished
    LateParts <- MCLateParts
    Kind <- MCKind
    Callers = {c1, c2, c3}
    Handlers = {h1}
    MayFail = TRUE
INVARIANTS CloseWaitMeansClosed
PROPERTY CloseTakesEffect
CHECK_DEADLOCK FALSE
