--------------------------- MODULE MCEventInbox ---------------------------
(* Instance of EventInbox for TLC. *)
EXTENDS EventInbox, TLC

CONSTANTS e1, e2, o1, p1, c1, c2

MCSymmetry == Permutations({c1, c2})
=============================================================================
