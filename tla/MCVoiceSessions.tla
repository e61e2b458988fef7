-------------------------- MODULE MCVoiceSessions --------------------------
(* Instance of VoiceSessions for TLC. *)
EXTENDS VoiceSessions, TLC

CONSTANTS u1, u2, c1, c2

Interchangeable == Permutations(Users) \cup Permutations(Channels)
=============================================================================
