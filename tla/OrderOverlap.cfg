SPECIFICATION Spec
CONSTANTS
    Orders = {o1}
    Requests = {r1, r2}
    Size = 2
    MaxOpen = 4
    MaxNonce = 2
    MaxCrashes = 1
SYMMETRY RequestSymmetry
INVARIANT AtMostOneExecution
INVARIANT FilledNeverAheadOfVenue
INVARIANT FillsFoldedOnce
INVARIANT CopiesAgree
PROPERTY FilledMonotone
CHECK_DEADLOCK FALSE
