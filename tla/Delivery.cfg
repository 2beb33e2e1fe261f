SPECIFICATION FairSpec
CONSTANTS
    Signals = {s1}
    Channels = {u1}
    Groups = {g1, g2}
    BasicChats = {b1}
    SuperChat = c1
    MaxAttempts = 2
    MaxMatched = 2
    MaxCrashes = 1
INVARIANT DeliveredWasSent
PROPERTY DuplicatesExcused
PROPERTY DeliveredIsFinal
PROPERTY PendingSettles
CHECK_DEADLOCK FALSE
