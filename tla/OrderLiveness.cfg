SPECIFICATION FairSpec
CONSTANTS
    Orders = {o1}
    Requests = {r1}
    Size = 2
    MaxOpen = 3
    MaxNonce = 2
    MaxCrashes = 1
PROPERTY RequestsEnd
PROPERTY OverdueLeavesFlight
PROPERTY FillsEventuallyRecorded
CHECK_DEADLOCK FALSE
