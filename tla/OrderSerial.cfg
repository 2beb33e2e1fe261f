SPECIFICATION Spec
CONSTANTS
    Orders = {o1, o2}
    Requests = {r1}
    Size = 2
    MaxOpen = 1
    MaxNonce = 3
    MaxCrashes = 0
SYMMETRY OrderSymmetry
INVARIANT CancelSignatureFitsPayload
PROPERTY FollowsStatusMachine
CHECK_DEADLOCK FALSE
