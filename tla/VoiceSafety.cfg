\* Two users and two channels for the tracker and for the evidence of presence.
SPECIFICATION SafetySpec
CONSTANTS
    u1 = u1
    u2 = u2
    c1 = c1
    c2 = c2
    Users = {u1, u2}
    Channels = {c1, c2}
    Nowhere = Nowhere
    Nobody = Nobody
    MaxMoves = 2
    MaxTroubles = 2
    Due = 1
    MaxClock = 1
    MaxTransitions = 2
    MaxDrops = 1
    MaxFailures = 1
SYMMETRY Interchangeable
INVARIANTS
    TruthfulWhenQuiet
    YesIsReal
    AtRestTruthful
