-------------------------- MODULE MCGuildSettings --------------------------
EXTENDS GuildSettings, TLC

CONSTANTS c1, u1, w1, w2
Symmetry == Permutations(Writers)

(* Commands, the site and the gateway *)
MCIncoming == {
    [op |-> "connect", channel |-> c1], [op |-> "mode", mode |-> "off"],
    [op |-> "site", channel |-> NoChannel, mode |-> "minimal", users |-> {}], [op |-> "connected"]}
=============================================================================
