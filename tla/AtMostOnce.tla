----------------------------- MODULE AtMostOnce -----------------------------
(* What a one-shot timer promises: it is armed once, may be called off or   *)
(* replaced while nobody has taken it, is taken at most once, and its deed  *)
(* is done at most once and only by the one that took it.  Once it is       *)
(* closed, a deed that was under way may still land, once.                  *)
CONSTANT Timers

VARIABLES phase, deeds

Init ==
    /\ phase = [t \in Timers |-> "new"]
    /\ deeds = [t \in Timers |-> 0]

Arm(t) ==
    /\ phase[t] = "new"
    /\ \E replaced \in SUBSET {r \in Timers : phase[r] = "armed"} :
           phase' = [r \in Timers |-> IF r = t THEN "armed"
                                      ELSE IF r \in replaced THEN "off" ELSE phase[r]]
    /\ UNCHANGED deeds

CallOff(t) ==
    /\ phase[t] = "armed"
    /\ phase' = [phase EXCEPT ![t] = "off"]
    /\ UNCHANGED deeds

Take(t) ==
    /\ phase[t] = "armed"
    /\ phase' = [phase EXCEPT ![t] = "taken"]
    /\ UNCHANGED deeds

Do(t) ==
    /\ phase[t] \in {"taken", "closed"}
    /\ deeds[t] = 0
    /\ deeds' = [deeds EXCEPT ![t] = 1]
    /\ UNCHANGED phase

Close(t) ==
    /\ phase[t] = "taken"
    /\ phase' = [phase EXCEPT ![t] = "closed"]
    /\ UNCHANGED deeds

Next == \E t \in Timers : Arm(t) \/ CallOff(t) \/ Take(t) \/ Do(t) \/ Close(t)

Spec == Init /\ [][Next]_<<phase, deeds>>
=============================================================================
