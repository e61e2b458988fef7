--------------------------- MODULE MCEventSweep ---------------------------
(* Instance of EventSweep for TLC. *)
EXTENDS EventSweep

(* The width of the gap window covers late inserts and pauses. *)
ASSUME GapCovers == MaxPause + MaxLate < Gap \/ MaxPause >= MaxTime
=============================================================================
