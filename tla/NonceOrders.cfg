SPECIFICATION NonceSpec
CONSTANTS
    NewRequests = {n1, n2, n3}
    CancelRequests = {c1}
    MaxClock = 3
INVARIANT OrderNoncesDistinct
PROPERTY OrderNoncesIncrease
