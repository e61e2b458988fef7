\* The parts of the gateway under the fairness of their loops.
SPECIFICATION ProgressSpec
CONSTANTS
    g1 = g1
    g2 = g2
    t1 = t1
    t2 = t2
    Gateways = {g1, g2}
    Tasks = {t1}
    Nobody = Nobody
    None = None
    TTL = 2
    MaxLag = 1
    MaxFences = 3
    MaxFaults = 2
CHECK_DEADLOCK FALSE
INVARIANTS
    OneStaleActPerTask
PROPERTIES
    HolderAlone
    AbsentAreClosed
    BotReturns
    StallIsReported
