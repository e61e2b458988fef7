\* The sweep meets a row between record and the publisher setting its seq.
SPECIFICATION Spec
CONSTANTS
    w1 = w1  w2 = w2
    N = 2
    Workers = {w1, w2}
    GateScans = 2
    MaxDeliver = 1
    MaxPubFaults = 0
    MaxFailures = 0
    MaxCrashes = 0
    MaxSlow = 0
SYMMETRY MCSymmetry
INVARIANTS
    ClaimedInOrder
