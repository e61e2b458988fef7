--------------------------- MODULE MCVoiceSafety -----------------------------
(* The two services that watch who is in voice: the session tracker and the *)
(* gateway's evidence of presence.  A behaviour is about one of them, the   *)
(* other stays in its first state.                                          *)
EXTENDS MCVoiceSessions

CONSTANTS
    Due,             \* the deadline the executor asks about
    MaxClock,        \* bound: ticks
    MaxTransitions, MaxDrops, MaxFailures  \* bounds: moves, lost connections, failed writes

ASSUME DeadlineAssumption == Due \in Nat

VARIABLES
    part,  \* which of the systems this behaviour is about
    prsClock, prsTruth, prsCache, prsConn, prsMissed, prsSpawned, prsQueue,
    prsDirty, prsGen, prsReady, prsStates, prsStored, prsVerdict, prsMoves,
    prsDrops, prsTroubles

Presence == INSTANCE VoicePresence WITH
    Users <- Users, Channels <- Channels, None <- Nowhere, Due <- Due,
    MaxClock <- MaxClock, MaxMoves <- MaxTransitions, MaxDrops <- MaxDrops, MaxTroubles <- MaxFailures,
    clock <- prsClock, truth <- prsTruth, cache <- prsCache, conn <- prsConn,
    missed <- prsMissed, spawned <- prsSpawned, queue <- prsQueue,
    dirty <- prsDirty, gen <- prsGen, ready <- prsReady, states <- prsStates,
    stored <- prsStored, verdict <- prsVerdict, moves <- prsMoves,
    drops <- prsDrops, troubles <- prsTroubles

prsVars == <<prsClock, prsTruth, prsCache, prsConn, prsMissed, prsSpawned,
    prsQueue, prsDirty, prsGen, prsReady, prsStates, prsStored, prsVerdict,
    prsMoves, prsDrops, prsTroubles>>
SafetyVars == <<part, vars, prsVars>>

SafetyInit ==
    /\ part \in {"sessions", "presence"}
    /\ Init /\ Presence!Init
    /\ part # "presence" => prsTruth = [u \in Users |-> [ch |-> Nowhere, since |-> 0]]

(* The part this behaviour is about takes the steps. *)
SafetyNext ==
    /\ UNCHANGED part
    /\ IF part = "sessions" THEN Next ELSE UNCHANGED vars
    /\ IF part = "presence" THEN Presence!Next \/ UNCHANGED prsVars ELSE UNCHANGED prsVars

SafetySpec == SafetyInit /\ [][SafetyNext]_SafetyVars

(* What is believed and stored of presence is well formed.                  *)
PresenceTypeOK == Presence!TypeOK

(* A proof of presence that says yes was right when its task looked         *)
(* (voice_presence.py).                                                     *)
YesIsReal == Presence!YesIsReal

(* With every callback through, what is believed of a user in voice is so   *)
(* (voice_presence.py).                                                     *)
AtRestTruthful == Presence!AtRestTruthful
=============================================================================
