\* Two workers and a publisher that may be cut short: order and watermark.
SPECIFICATION Spec
CONSTANTS
    w1 = w1  w2 = w2
    N = 2
    Workers = {w1, w2}
    GateScans = 2
    MaxDeliver = 1
    MaxPubFaults = 1
    MaxFailures = 1
    MaxCrashes = 1
    MaxSlow = 0
SYMMETRY MCSymmetry
INVARIANTS
    TypeOK
    OrderedWhenRegular
    WatermarkSound
    SeqFollowsJournal
PROPERTIES
    SeqSetOnce
