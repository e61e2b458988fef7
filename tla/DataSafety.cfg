\* Two writers with four calls; two watchers; two jobs; two runners; two joins;
\* two messages; a summary with its handlers and sweeps; a command.
SPECIFICATION SafetySpec
CONSTANTS
    c1 = c1
    u1 = u1
    Channels = {c1}
    Users = {u1}
    NoChannel = NoChannel
    Kinds = {"messages"}
    w1 = w1
    w2 = w2
    Writers = {w1, w2}
    NoDoc = NoDoc
    NoIntent = NoIntent
    Incoming <- MCIncoming
    Attempts = 3
    MaxCalls = 4
    MaxTroubles = 1
    Watchers = {x, y}
    Targets = {z}
    MaxCrashes = 1
    Jobs = {w1, w2}
    Voice = {common}
    Others = {other}
    Last = 3
    Unique = 2
    Lease = 1
    Codes = {a, b}
    Vanity = b
    MaxJoins = 2
    MaxEvents = 1
    Msgs = {x, y}
    Blank = Blank
    Images = {common}
    Capacity = 1
    MaxEdits = 2
    Destinations = {a, b}
    MaxDeliver = 2
    SendTries = 2
    MaxSettings = 3
    Interactions = {x}
    MaxFaults = 2
CHECK_DEADLOCK FALSE
SYMMETRY Symmetry
INVARIANTS
    ConflictsAreEarned
    ToldWereTrusted
    AppliedIsCurrent
    RollbackIsBlocked
    CreditedOnce
    DeletedStaysDeleted
    OnePoster
    AnsweredIsAudited
PROPERTIES
    ImplementsAtomicSettings
