SPECIFICATION Spec
CONSTANTS
    Runners = {r1, r2}
    Last = 3
    Unique = 2
    None = None
    Lease = 1
    MaxTroubles = 2
INVARIANTS
    OneRunnerApplies
CHECK_DEADLOCK FALSE
