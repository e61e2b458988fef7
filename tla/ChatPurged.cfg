SPECIFICATION Spec
CONSTANTS
    Msgs = {m1, m2}
    Texts = {t1, t2}
    Images = {i1}
    Blank = Blank
    None = None
    Capacity = 1
    MaxEdits = 2
    MaxTroubles = 1
SYMMETRY Symmetry
CHECK_DEADLOCK FALSE
INVARIANTS
    PurgedIsBuried
