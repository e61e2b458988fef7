---------------------------- MODULE AtLeastOnce ----------------------------
(* What the inbox of one consumer promises for an event, with no leases,    *)
(* tokens or calls in it: an event is tried, its effect may be applied any  *)
(* number of times, it is acknowledged only after the effect was applied,   *)
(* and it is given up only when its tries are used up (or when it is not a  *)
(* journalled event at all).  docs/adr/0002-mongo-outbox-inbox.md, sections *)
(* 2, 3 and "Граница гарантий", says this in prose.                         *)
EXTENDS Naturals

CONSTANTS
    Events,     \* everything that can get an inbox row
    Journalled, \* the events that have a row in event_log
    Budget      \* tries before an event may be given up (max_deliver)

VARIABLES
    status,  \* "open", "done" or "dead"
    tries,   \* claims granted
    applied  \* the events whose handler returned normally at least once

vars == <<status, tries, applied>>

Init ==
    /\ status = [e \in Events |-> "open"]
    /\ tries = [e \in Events |-> 0]
    /\ applied = {}

Try(e) ==
    /\ status[e] = "open"
    /\ tries' = [tries EXCEPT ![e] = @ + 1]
    /\ UNCHANGED <<status, applied>>

(* A try that lost its lease may still apply the effect after the event is  *)
(* settled: the handlers have to be idempotent.                             *)
Apply(e) ==
    /\ tries[e] > 0
    /\ applied' = applied \cup {e}
    /\ UNCHANGED <<status, tries>>

Acknowledge(e) ==
    /\ status[e] = "open"
    /\ e \in applied
    /\ status' = [status EXCEPT ![e] = "done"]
    /\ UNCHANGED <<tries, applied>>

GiveUp(e) ==
    /\ status[e] = "open"
    /\ e \in Journalled => tries[e] >= Budget
    /\ status' = [status EXCEPT ![e] = "dead"]
    /\ UNCHANGED <<tries, applied>>

Next == \E e \in Events : Try(e) \/ Apply(e) \/ Acknowledge(e) \/ GiveUp(e)

Spec == Init /\ [][Next]_vars
=============================================================================
