--------------------------- MODULE AtomicSettings ---------------------------
(* What mutate_guild_settings promises its callers: an intent is applied    *)
(* once, to the settings as they are at that moment, or not at all; and the *)
(* caller is told which, unless the database failed.                        *)
EXTENDS SettingsIntents

CONSTANTS Writers, NoIntent

VARIABLES value, intent, outcome

vars == <<value, intent, outcome>>

Init ==
    /\ value \in Values
    /\ intent = [w \in Writers |-> NoIntent]
    /\ outcome = [w \in Writers |-> "idle"]

Call(w) ==
    /\ outcome[w] = "idle"
    /\ outcome' = [outcome EXCEPT ![w] = "pending"]
    /\ \E i \in Intents : intent' = [intent EXCEPT ![w] = i]
    /\ UNCHANGED value

Ends(w, how) ==
    /\ outcome[w] = "pending"
    /\ outcome' = [outcome EXCEPT ![w] = how]
    /\ UNCHANGED intent

Apply(w) == value' = Applied(intent[w], Loaded(value))

Succeed(w) == Ends(w, "applied") /\ Apply(w)
Skip(w) == Ends(w, "skipped") /\ Skips(intent[w], Loaded(value)) /\ UNCHANGED value
Refuse(w) == Ends(w, "conflict") /\ UNCHANGED value
Break(w) == Ends(w, "failed") /\ (Apply(w) \/ UNCHANGED value)

Return(w) ==
    /\ outcome[w] \notin {"idle", "pending"}
    /\ outcome' = [outcome EXCEPT ![w] = "idle"]
    /\ intent' = [intent EXCEPT ![w] = NoIntent]
    /\ UNCHANGED value

Next == \E w \in Writers :
    \/ Call(w) \/ Succeed(w) \/ Skip(w) \/ Refuse(w) \/ Break(w) \/ Return(w)

Spec == Init /\ [][Next]_vars
=============================================================================
