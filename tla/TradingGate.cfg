SPECIFICATION FairSpec
CONSTANTS
    c1 = c1
    c2 = c2
    h1 = h1
    Calls = {c1, c2}
    Halts = {h1}
    Bodies <- MCBodies
    OpenCap = 1
    DailyCap = 3
    SymbolCap = 2
    LeverageCap = 2
    MaxRowChanges = 1
INVARIANT OpenOrdersCapped
INVARIANT NotionalCapped
INVARIANT ClosesNotDoubled
INVARIANT HaltStopsPrepares
PROPERTY CallsEnd
CHECK_DEADLOCK FALSE
