\* Everything recorded is completed in the end.
SPECIFICATION FairSpec
CONSTANTS
    w1 = w1  w2 = w2
    N = 2
    Workers = {w1, w2}
    GateScans = 2
    MaxDeliver = 1
    MaxPubFaults = 0
    MaxFailures = 0
    MaxCrashes = 0
    MaxSlow = 1
PROPERTIES
    Drains
