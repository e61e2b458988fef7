SPECIFICATION Spec
CONSTANTS
    c1 = c1
    u1 = u1
    Channels = {c1}
    Users = {u1}
    NoChannel = NoChannel
    Kinds = {"messages"}
    w1 = w1
    w2 = w2
    Writers = {w1, w2}
    NoDoc = NoDoc
    NoIntent = NoIntent
    Incoming <- MCIncoming
    Attempts = 3
    MaxCalls = 4
    MaxTroubles = 0
CHECK_DEADLOCK FALSE
INVARIANTS
    OffIsOff
