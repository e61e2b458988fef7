\* Three calls of two requests, two gateways, one crash or failed call.
SPECIFICATION Spec
CONSTANTS
    g1 = g1
    g2 = g2
    c1 = c1
    c2 = c2
    c3 = c3
    set = set
    cancel = cancel
    Gateways = {g1, g2}
    Calls = {c1, c2, c3}
    Requests = {set, cancel}
    ReqOf <- MCReqOf
    ActOf <- MCActOf
    Nothing = Nothing
    MaxCas = 2
    MaxRecent = 2
    MaxPending = 2
    MaxFences = 2
    MaxTroubles = 1
CHECK_DEADLOCK FALSE
SYMMETRY Interchangeable
INVARIANTS
    TypeOK
    OnePatchPerTimer
    FinalIsTruthful
    AppliedOnce
    NothingUnaudited
PROPERTIES
    PatchOnlyWhileClaimed
    ImplementsAtMostOnce
