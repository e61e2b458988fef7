------------------------- MODULE MCOrderedDelivery -------------------------
(* Instance of OrderedDelivery for TLC. *)
EXTENDS OrderedDelivery, TLC

CONSTANTS w1, w2

MCSymmetry == Permutations(Workers)
=============================================================================
