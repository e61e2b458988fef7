\* Two calls race for a journalled event, an orphan and a poison message.
SPECIFICATION Spec
CONSTANTS
    e1 = e1  e2 = e2  o1 = o1  p1 = p1  c1 = c1  c2 = c2
    NoEvent = NoEvent
    Journalled = {e1}
    Orphans = {o1}
    Poison = {p1}
    Calls = {c1, c2}
    MaxDeliver = 2
    MaxCrashes = 1
    MaxSlow = 1
    MaxBlocks = 1
SYMMETRY MCSymmetry
INVARIANTS
    TypeOK
    OneAttemptPerLiveLease
    CompletedByItsHolder
    QuarantinedOnlyWhenSpent
PROPERTIES
    TerminalForever
    ImplementsAtLeastOnce
