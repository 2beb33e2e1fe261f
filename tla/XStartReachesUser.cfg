SPECIFICATION Spec
CONSTANTS
    Signals = {s1}
    Channels = {u1}
    Groups = {g1}
    BasicChats = {b1}
    SuperChat = c1
    MaxAttempts = 1
    MaxMatched = 1
    MaxCrashes = 0
PROPERTY StartReachesUser
CHECK_DEADLOCK FALSE
