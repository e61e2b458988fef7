---------------------------- MODULE GuildSettings ----------------------------
(* Repository.mutate_guild_settings: every writer of guild_settings (slash  *)
(* commands, the site's control plane, the gateway) reads the document,     *)
(* applies its intent to what it has read and replaces the whole document   *)
(* if its revision is still the one that was read; otherwise it starts      *)
(* over, three times at most.                                               *)
EXTENDS SettingsIntents, Naturals

CONSTANTS
    Writers,
    NoDoc,
    NoIntent,
    Incoming,    \* the intents that arrive
    Attempts,    \* mutate_guild_settings(attempts = 3)
    MaxCalls,    \* bound: calls of mutate_guild_settings
    MaxTroubles  \* bound: writes that raise

ASSUME SettingsAssumption ==
    /\ Attempts \in Nat \ {0}
    /\ Incoming \subseteq Intents
    /\ NoDoc \notin [rev : Nat, value : Values]

VARIABLES
    doc,       \* the document: [rev, value], or NoDoc
    intent,
    pc,        \* of a call; the last ones are what it returns or raises
    copy,      \* the GuildSettings object a call is about to write
    left,      \* attempts a call has left
    wins,      \* history: writes that went through
    since,     \* history: wins when a call began
    lastMode,  \* history: the mode asked for by the last write that set it
    begun, troubles

vars == <<doc, intent, pc, copy, left, wins, since, lastMode, begun, troubles>>

Ended == {"applied", "skipped", "conflict", "failed"}
Docs == [rev : Nat, value : Values]
Value == IF doc = NoDoc THEN Fresh ELSE doc.value
Revision == IF doc = NoDoc THEN 0 ELSE doc.rev

(* The document is missing, or was written before revisions were, or since. *)
Init ==
    /\ doc \in {NoDoc, [rev |-> 0, value |-> Fresh], [rev |-> 1, value |-> Fresh]}
    /\ intent = [w \in Writers |-> NoIntent]
    /\ pc = [w \in Writers |-> "idle"]
    /\ copy = [w \in Writers |-> [rev |-> 0, value |-> Fresh]]
    /\ left = [w \in Writers |-> 0]
    /\ wins = 0 /\ since = [w \in Writers |-> 0]
    /\ lastMode = "full" /\ begun = 0 /\ troubles = 0

InitialAttempts == Attempts

Call(w, i) ==
    /\ pc[w] = "idle" /\ begun < MaxCalls
    /\ begun' = begun + 1
    /\ intent' = [intent EXCEPT ![w] = i]
    /\ pc' = [pc EXCEPT ![w] = "reading"]
    /\ left' = [left EXCEPT ![w] = InitialAttempts]
    /\ since' = [since EXCEPT ![w] = wins]
    /\ UNCHANGED <<doc, copy, wins, lastMode, troubles>>

(* get_guild_settings, then the intent on the object it returned *)
Read(w) ==
    /\ pc[w] = "reading"
    /\ IF Skips(intent[w], Loaded(Value))
       THEN pc' = [pc EXCEPT ![w] = "skipped"] /\ UNCHANGED copy
       ELSE /\ pc' = [pc EXCEPT ![w] = "writing"]
            /\ copy' = [copy EXCEPT ![w] = [rev |-> Revision, value |-> Applied(intent[w], Loaded(Value))]]
    /\ UNCHANGED <<doc, intent, left, wins, since, lastMode, begun, troubles>>

(* Slip: the update is not conditional on the revision. *)
MatchesAny(w) == doc # NoDoc \/ copy[w].rev = 0

(* _cas_write_guild_settings: revision 0 also inserts the document, or takes *)
(* one that has none; a document it does not match is a duplicate key.      *)
Matches(w) == copy[w].rev = Revision

Again(w) == pc' = [pc EXCEPT ![w] = "reading"] /\ UNCHANGED copy

Stored(w) ==
    /\ doc' = [rev |-> Revision + 1, value |-> copy[w].value]
    /\ wins' = wins + 1
    /\ lastMode' = IF "mode" \in DOMAIN intent[w] THEN intent[w].mode ELSE lastMode

(* Slip: the last attempt is given up before it is made. *)
GivesUpEarly(w) == left[w] <= 2

GivesUp(w) == left[w] = 1

Write(w) ==
    /\ pc[w] = "writing" /\ Matches(w)
    /\ Stored(w)
    /\ pc' = [pc EXCEPT ![w] = "applied"]
    /\ UNCHANGED <<intent, copy, left, since, begun, troubles>>

Conflict(w) ==
    /\ pc[w] = "writing" /\ ~Matches(w)
    /\ IF GivesUp(w) THEN pc' = [pc EXCEPT ![w] = "conflict"] /\ UNCHANGED copy ELSE Again(w)
    /\ left' = [left EXCEPT ![w] = @ - 1]
    /\ UNCHANGED <<doc, intent, wins, since, lastMode, begun, troubles>>

(* The driver raises, whether or not the server has written. *)
Fail(w) ==
    /\ pc[w] = "writing" /\ troubles < MaxTroubles
    /\ troubles' = troubles + 1
    /\ \/ Matches(w) /\ Stored(w)
       \/ UNCHANGED <<doc, wins, lastMode>>
    /\ pc' = [pc EXCEPT ![w] = "failed"]
    /\ UNCHANGED <<intent, copy, left, since, begun>>

Return(w) ==
    /\ pc[w] \in Ended
    /\ pc' = [pc EXCEPT ![w] = "idle"]
    /\ intent' = [intent EXCEPT ![w] = NoIntent]
    /\ UNCHANGED <<doc, copy, left, wins, since, lastMode, begun, troubles>>

Next == \E w \in Writers :
    \/ \E i \in Incoming : Call(w, i)
    \/ Read(w) \/ Write(w) \/ Conflict(w) \/ Fail(w) \/ Return(w)

Spec == Init /\ [][Next]_vars

-----------------------------------------------------------------------------
TypeOK ==
    /\ doc \in Docs \cup {NoDoc}
    /\ intent \in [Writers -> Intents \cup {NoIntent}]
    /\ pc \in [Writers -> Ended \cup {"idle", "reading", "writing"}]
    /\ \A w \in Writers : pc[w] # "idle" => intent[w] \in Intents
    /\ copy \in [Writers -> Docs]
    /\ left \in [Writers -> 0 .. Attempts]
    /\ wins \in Nat /\ since \in [Writers -> Nat]

(* An object whose revision is still the stored one is the intent applied   *)
(* to what is stored: nothing another writer has done is taken back.        *)
CopiesAreCurrent ==
    \A w \in Writers :
        pc[w] = "writing" =>
            /\ copy[w].rev <= Revision
            /\ copy[w].rev = Revision => copy[w].value = Applied(intent[w], Loaded(Value))

(* SettingsConflict is raised only after as many writes of others have gone *)
(* through during the call as it had attempts. *)
ConflictsAreEarned ==
    \A w \in Writers : pc[w] = "conflict" => wins >= since[w] + Attempts

Outcome == [w \in Writers |-> IF pc[w] \in {"reading", "writing"} THEN "pending" ELSE pc[w]]

(* The whole-document writes of commands, site and gateway are atomic       *)
(* updates of what each wanted to change. *)
Atomic == INSTANCE AtomicSettings WITH value <- Value, outcome <- Outcome
ImplementsAtomicSettings == Atomic!Spec

(* "/settings activity mode:off" (COMMANDS.md:30): once it is written, and  *)
(* no other mode since, no event is enabled for whoever loads the settings. *)
OffIsOff == lastMode = "off" => Loaded(Value).events = "off"
=============================================================================
