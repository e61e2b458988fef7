--------------------------- MODULE MCWriterLease ---------------------------
(* Instance of WriterLease for TLC. *)
EXTENDS WriterLease, TLC

CONSTANTS g1, g2, t1, t2

Interchangeable == Permutations({g1, g2}) \cup Permutations({t1, t2})
=============================================================================
