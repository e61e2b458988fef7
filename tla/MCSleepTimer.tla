---------------------------- MODULE MCSleepTimer ----------------------------
(* Instance of SleepTimer for TLC: a request to set the timer, a second     *)
(* delivery of it, and a request to cancel it. *)
EXTENDS SleepTimer, TLC

CONSTANTS g1, g2, c1, c2, c3, set, cancel

MCReqOf == [c \in Calls |-> IF c = c3 THEN cancel ELSE set]
MCActOf == [c \in Calls |-> IF c = c3 THEN "cancel" ELSE "set"]
Interchangeable == Permutations({g1, g2}) \cup Permutations({c1, c2})
=============================================================================
