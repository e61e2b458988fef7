---------------------------- MODULE ServiceHealth ----------------------------
(* One service: its Supervisor with the supervised loops, the Heartbeat     *)
(* that stores their snapshot, and the healthcheck that reads it.  Times    *)
(* are ages that stop at Old; a loop that is due runs before time goes on,  *)
(* as an event loop does that nothing blocks.                               *)
EXTENDS Naturals, FiniteSets

CONSTANTS
    Loops,       \* the loops of the contract besides the heartbeat
    Critical,    \* those of them that are critical
    None,
    MaxAge,      \* DEFAULT_MAX_AGE_SECONDS
    Progress,    \* max_progress_age_seconds of every critical loop
    Grace,       \* startup_grace_seconds
    Interval,    \* time between two iterations of a loop
    BackoffCap,  \* DEFAULT_BACKOFF_CAP_SECONDS
    HealthyRun,  \* DEFAULT_HEALTHY_RUN_SECONDS
    Old,         \* bound: an age that is past every limit
    MaxTroubles  \* bound: changes of what works

VARIABLES
    mode,     \* what an iteration of a loop comes to
    nats,     \* NATS is connected
    mongo,    \* Mongo answers
    up,
    started,  \* PROCESS_STARTED_AT, as an age
    loop,     \* the supervised loops
    handle,   \* their TaskHandles
    doc,      \* bot_runtime_heartbeats
    troubles

vars == <<mode, nats, mongo, up, started, loop, handle, doc, troubles>>

Beat == "heartbeat"
Supervised == Loops \cup {Beat}
Required == Critical \cup {Beat}
Modes == {"works", "fails", "raises", "hangs"}
Ages == 0 .. Old
Older(age) == IF age = None THEN None ELSE IF age < Old THEN age + 1 ELSE Old
Least(a, b) == IF a < b THEN a ELSE b

Unspawned == [pc |-> "unspawned", left |-> 0, life |-> 0, attempt |-> 0]
Fresh == [running |-> FALSE, failures |-> 0, tick |-> None]
Unhealthy == 3

Init ==
    /\ mode = [l \in Loops |-> "works"] /\ nats = TRUE /\ mongo = TRUE
    /\ up = FALSE /\ started = 0
    /\ loop = [l \in Supervised |-> Unspawned]
    /\ handle = [l \in Supervised |-> Fresh]
    /\ doc = None
    /\ troubles = 0

-----------------------------------------------------------------------------
(* What may change around the service, and its container. *)
Trouble ==
    /\ troubles < MaxTroubles /\ troubles' = troubles + 1
    /\ \/ \E l \in Loops, how \in Modes : mode[l] # how /\ mode' = [mode EXCEPT ![l] = how] /\ UNCHANGED <<nats, mongo>>
       \/ nats' = ~nats /\ UNCHANGED <<mode, mongo>>
       \/ mongo' = ~mongo /\ UNCHANGED <<mode, nats>>
    /\ UNCHANGED <<up, started, loop, handle, doc>>

(* A crash, a kill, or a signal that wait_for_shutdown hands on: the tasks  *)
(* are cancelled and the document stays as it was. *)
Stop ==
    /\ up /\ troubles < MaxTroubles /\ troubles' = troubles + 1
    /\ up' = FALSE
    /\ loop' = [l \in Supervised |-> Unspawned]
    /\ handle' = [l \in Supervised |-> Fresh]
    /\ UNCHANGED <<mode, nats, mongo, started, doc>>

(* The restart policy; the loops are spawned one after the other. *)
Start ==
    /\ ~up /\ up' = TRUE /\ started' = 0
    /\ UNCHANGED <<mode, nats, mongo, loop, handle, doc, troubles>>

Spawn(l) ==
    /\ up /\ loop[l].pc = "unspawned"
    /\ loop' = [loop EXCEPT ![l].pc = "run"]
    /\ handle' = [handle EXCEPT ![l].running = TRUE]
    /\ UNCHANGED <<mode, nats, mongo, up, started, doc, troubles>>

-----------------------------------------------------------------------------
(* Supervisor *)

(* beat and fail. *)
Beaten(h) == [h EXCEPT !.failures = 0, !.tick = 0]
Failed(h) == [h EXCEPT !.failures = Least(@ + 1, Unhealthy)]

(* _run_loop after an exception. *)
Fallen(h, life) ==
    [h EXCEPT !.running = FALSE,
              !.failures = IF life >= HealthyRun THEN 1 ELSE Least(@ + 1, Unhealthy)]

(* backoff_seconds: it doubles up to the cap, with a jitter. *)
Backoff(attempt) == LET base == Least(BackoffCap, 2 ^ (attempt - 1)) IN (base + 1) \div 2 .. base

Sleeps(l, time) == loop' = [loop EXCEPT ![l].pc = "sleep", ![l].left = time]

(* One iteration of a loop that is not the heartbeat. *)
Iterate(l) ==
    /\ loop[l].pc = "run"
    /\ \/ /\ mode[l] = "works" /\ Sleeps(l, Interval)
          /\ handle' = [handle EXCEPT ![l] = Beaten(@)]
       \/ /\ mode[l] = "fails" /\ Sleeps(l, Interval)
          /\ handle' = [handle EXCEPT ![l] = Failed(@)]
       \/ /\ mode[l] = "hangs" /\ loop' = [loop EXCEPT ![l].pc = "hung"]
          /\ UNCHANGED handle
       \/ /\ mode[l] = "raises"
          /\ handle' = [handle EXCEPT ![l] = Fallen(@, loop[l].life)]
          /\ LET attempt == Least(loop[l].attempt + 1, BackoffCap)
             IN  \E delay \in Backoff(attempt) :
                    loop' = [loop EXCEPT ![l] = [pc |-> "fallen", left |-> delay, life |-> 0, attempt |-> attempt]]
    /\ UNCHANGED <<mode, nats, mongo, up, started, doc, troubles>>

(* The sleep between iterations, or the backoff, is over. *)
Wake(l) ==
    /\ loop[l].pc \in {"sleep", "fallen"} /\ loop[l].left = 0
    /\ loop' = [loop EXCEPT ![l].pc = "run"]
    /\ handle' = [handle EXCEPT ![l].running = TRUE]
    /\ UNCHANGED <<mode, nats, mongo, up, started, doc, troubles>>

(* Heartbeat.run: the snapshot is taken before the write succeeds or fails, *)
(* so it does not yet have the heartbeat's own tick. *)
WriteHeartbeat ==
    /\ loop[Beat].pc = "run" /\ Sleeps(Beat, 1)
    /\ \/ /\ mongo
          /\ doc' = [age |-> 0, started |-> started, nats |-> nats,
                     loops |-> [l \in {k \in Supervised : loop[k].pc # "unspawned"} |-> handle[l]]]
          /\ handle' = [handle EXCEPT ![Beat] = Beaten(@)]
       \/ /\ ~mongo
          /\ handle' = [handle EXCEPT ![Beat] = Failed(@)]
          /\ UNCHANGED doc
    /\ UNCHANGED <<mode, nats, mongo, up, started, troubles>>

-----------------------------------------------------------------------------
Due ==
    \/ ~up
    \/ \E l \in Supervised : \/ loop[l].pc \in {"unspawned", "run"}
                             \/ loop[l].pc \in {"sleep", "fallen"} /\ loop[l].left = 0

Pass ==
    /\ ~Due
    /\ started' = Older(started)
    /\ loop' = [l \in Supervised |->
                  [loop[l] EXCEPT !.left = IF loop[l].pc = "hung" THEN @ ELSE @ - 1,
                                  !.life = IF @ < HealthyRun /\ loop[l].pc # "fallen" THEN @ + 1 ELSE @]]
    /\ handle' = [l \in Supervised |-> [handle[l] EXCEPT !.tick = Older(@)]]
    /\ doc' = IF doc = None THEN None
              ELSE [doc EXCEPT !.age = Older(@), !.started = Older(@),
                               !.loops = [l \in DOMAIN @ |-> [@[l] EXCEPT !.tick = Older(@)]]]
    /\ UNCHANGED <<mode, nats, mongo, up, troubles>>

Next ==
    \/ Trouble \/ Stop \/ Start \/ Pass \/ WriteHeartbeat
    \/ \E l \in Loops : Iterate(l)
    \/ \E l \in Supervised : Spawn(l) \/ Wake(l)

Runs == WriteHeartbeat \/ \E l \in Loops : Iterate(l)
Goes == Start \/ Pass \/ Runs \/ \E l \in Supervised : Spawn(l) \/ Wake(l)

(* What does not hang goes on, and the container is restarted. *)
Spec == Init /\ [][Next]_vars /\ WF_vars(Goes)

-----------------------------------------------------------------------------
(* healthcheck.evaluate *)

(* Slip: running and without failures is enough. *)
RunningIsEnough(l, inGrace) ==
    l \in DOMAIN doc.loops /\ (l \in Required => doc.loops[l].running /\ doc.loops[l].failures = 0)

LoopOK(l, inGrace) ==
    /\ l \in DOMAIN doc.loops
    /\ l \in Required =>
        /\ doc.loops[l].running /\ doc.loops[l].failures = 0
        /\ inGrace \/ (doc.loops[l].tick # None /\ doc.loops[l].tick <= Progress)

DepsOK == doc.nats

Healthy ==
    /\ mongo /\ doc # None /\ doc.age <= MaxAge
    /\ \A l \in Supervised : LoopOK(l, doc.started <= Grace)
    /\ DepsOK

-----------------------------------------------------------------------------
(* Domains; and what runs is what the handle calls running. *)
TypeOK ==
    /\ \A l \in Supervised :
        /\ loop[l].pc \in {"unspawned", "run", "sleep", "fallen", "hung"}
        /\ loop[l].left \in 0 .. Least(Old, Interval + BackoffCap)
        /\ handle[l].running = (loop[l].pc \in {"run", "sleep", "hung"})
        /\ handle[l].failures \in 0 .. Unhealthy /\ handle[l].tick \in Ages \cup {None}
    /\ doc = None \/ (doc.age \in Ages /\ doc.started \in Ages /\ DOMAIN doc.loops \subseteq Supervised)

AllWork ==
    /\ nats /\ mongo
    /\ \A l \in Critical : mode[l] = "works" /\ loop[l].pc # "hung"

(* A service whose critical loops work, after whatever they went through,   *)
(* becomes healthy and stays so: the intervals, the backoff and the limits  *)
(* of the contract fit together. *)
WorkingBecomesHealthy == <>[]AllWork => <>[]Healthy

(* A critical loop that makes no more progress, be it that it hangs, fails  *)
(* or raises each time, is reported for good, and so is a lost dependency:  *)
(* neither a live process nor restarts of the loop hide it. *)
StallIsReported ==
    \/ []<>(nats /\ mongo /\ \A l \in Critical : handle[l].tick = 0)
    \/ <>[]~Healthy

=============================================================================
