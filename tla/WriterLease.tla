---------------------------- MODULE WriterLease ----------------------------
(* The gateway's single-writer lease (voice_tracker/supervise.py, main of   *)
(* services/gateway.py, DurablePublisher): one Mongo document, gateway      *)
(* processes that claim, renew and release it, and their publishing tasks,  *)
(* each of which checks the lease in one database call and acts in the next.*)
(* Time is relative: left is how long the lease still runs, a lag how long  *)
(* ago a pending call read the clock.  A claim's random owner is as unique  *)
(* as its fence, and stands for it here.                                    *)
EXTENDS Integers

CONSTANTS
    Gateways,  \* container instances, each runs one process at a time
    Tasks,     \* concurrent publishing tasks of a process
    Nobody,    \* no instance: the document does not exist yet
    TTL,       \* max_age_seconds
    MaxLag,    \* longest time from reading the clock to the database's answer
    MaxFences, \* bound: granted claims
    MaxFaults  \* bound: crashes, failed renewals, stops and lapses

ASSUME LeaseConstants ==
    /\ Nobody \notin Gateways
    /\ TTL \in Nat \ {0} /\ MaxLag \in Nat
    /\ MaxFences \in Nat /\ MaxFaults \in Nat

VARIABLES
    lease,  \* the document: fence (0: none yet), instance, stopped
    left,   \* time until expiresAt, not counted below -MaxLag
    mine,   \* fence in the lease object of each process, 0 when it has none
    guard,  \* what the process's lease thread does
    lag,    \* age of the guard's pending call
    task,   \* what each publishing task does
    tlag,   \* age of the task's pending call
    stale,  \* acts of the task since the process was superseded
    faults

vars == <<lease, left, mine, guard, lag, task, tlag, stale, faults>>

Init ==
    /\ lease = [fence |-> 0, instance |-> Nobody, stopped |-> TRUE]
    /\ left = -MaxLag
    /\ mine = [g \in Gateways |-> 0]
    /\ guard = [g \in Gateways |-> "down"]
    /\ lag = [g \in Gateways |-> 0]
    /\ task = [g \in Gateways |-> [t \in Tasks |-> "idle"]]
    /\ tlag = [g \in Gateways |-> [t \in Tasks |-> 0]]
    /\ stale = [g \in Gateways |-> [t \in Tasks |-> 0]]
    /\ faults = 0

(* A slip: the filter without the fence. *)
OwnedUnfenced(g) == mine[g] # 0 /\ ~lease.stopped

(* _owned_filter *)
Owned(g) == mine[g] # 0 /\ lease.fence = mine[g] /\ ~lease.stopped

(* expiresAt against a clock read d ago. *)
Unexpired(d) == left + d > 0

Superseded(g) == mine[g] # 0 /\ lease.fence # mine[g]

Fault == faults < MaxFaults /\ faults' = faults + 1

-----------------------------------------------------------------------------
(* claim_single_writer: the process is started and reads the clock. *)
Start(g) ==
    /\ guard[g] = "down"
    /\ guard' = [guard EXCEPT ![g] = "claiming"]
    /\ lag' = [lag EXCEPT ![g] = 0]
    /\ UNCHANGED <<lease, left, mine, task, tlag, stale, faults>>

(* No document yet, or a stopped or expired one. *)
MayClaim(g) == lease.fence = 0 \/ lease.stopped \/ ~Unexpired(lag[g])

(* The new expiresAt counts from the clock as it was read. *)
Extended(g) == TTL - lag[g]

Claim(g) ==
    /\ guard[g] = "claiming" /\ MayClaim(g)
    /\ lease.fence < MaxFences
    /\ lease' = [fence |-> lease.fence + 1, instance |-> g, stopped |-> FALSE]
    /\ left' = Extended(g)
    /\ mine' = [mine EXCEPT ![g] = lease.fence + 1]
    /\ guard' = [guard EXCEPT ![g] = "up"]
    /\ UNCHANGED <<lag, task, tlag, stale, faults>>

(* Held by another process: SystemExit; the container is started again. *)
Refused(g) ==
    /\ guard[g] = "claiming" /\ ~MayClaim(g)
    /\ guard' = [guard EXCEPT ![g] = "down"]
    /\ UNCHANGED <<lease, left, mine, lag, task, tlag, stale, faults>>

-----------------------------------------------------------------------------
(* renew_writer_lease and connect_with_lease_guard *)

BeginRenew(g) ==
    /\ guard[g] = "up"
    /\ guard' = [guard EXCEPT ![g] = "renewing"]
    /\ lag' = [lag EXCEPT ![g] = 0]
    /\ UNCHANGED <<lease, left, mine, task, tlag, stale, faults>>

Renew(g) ==
    /\ guard[g] = "renewing" /\ Owned(g) /\ Unexpired(lag[g])
    /\ left' = Extended(g)
    /\ guard' = [guard EXCEPT ![g] = "up"]
    /\ UNCHANGED <<lease, mine, lag, task, tlag, stale, faults>>

(* SingleWriterLeaseLost ends the renewal task, which closes the client. *)
RenewLost(g) ==
    /\ guard[g] = "renewing" /\ ~(Owned(g) /\ Unexpired(lag[g]))
    /\ guard' = [guard EXCEPT ![g] = "stopping"]
    /\ UNCHANGED <<lease, left, mine, lag, task, tlag, stale, faults>>

(* A database error in a renewal, or SIGTERM. *)
Stop(g) ==
    /\ guard[g] \in {"up", "renewing"}
    /\ Fault
    /\ guard' = [guard EXCEPT ![g] = "stopping"]
    /\ UNCHANGED <<lease, left, mine, lag, task, tlag, stale>>

(* release_single_writer, at the end of the drain. *)
Release(g) ==
    /\ guard[g] = "stopping"
    /\ lease' = IF Owned(g) THEN [lease EXCEPT !.stopped = TRUE] ELSE lease
    /\ left' = IF Owned(g) THEN 0 ELSE left
    /\ guard' = [guard EXCEPT ![g] = "released"]
    /\ UNCHANGED <<mine, lag, task, tlag, stale, faults>>

Forget(g) ==
    /\ guard' = [guard EXCEPT ![g] = "down"]
    /\ mine' = [mine EXCEPT ![g] = 0]
    /\ task' = [task EXCEPT ![g] = [t \in Tasks |-> "idle"]]
    /\ stale' = [stale EXCEPT ![g] = [t \in Tasks |-> 0]]

Exit(g) ==
    /\ guard[g] = "released"
    /\ Forget(g)
    /\ UNCHANGED <<lease, left, lag, tlag, faults>>

Crash(g) ==
    /\ guard[g] # "down"
    /\ Fault
    /\ Forget(g)
    /\ UNCHANGED <<lease, left, lag, tlag>>

-----------------------------------------------------------------------------
(* ensure_current, and what the caller does until its next check: a record, *)
(* a sequence number, a publish, a PATCH.                                   *)

BeginCheck(g, t) ==
    /\ guard[g] \in {"up", "renewing", "stopping"}
    /\ task[g][t] = "idle"
    /\ task' = [task EXCEPT ![g][t] = "checking"]
    /\ tlag' = [tlag EXCEPT ![g][t] = 0]
    /\ UNCHANGED <<lease, left, mine, guard, lag, stale, faults>>

EndCheck(g, t) ==
    /\ task[g][t] = "checking"
    /\ task' = [task EXCEPT ![g][t] =
                  IF Owned(g) /\ Unexpired(tlag[g][t]) THEN "cleared" ELSE "idle"]
    /\ UNCHANGED <<lease, left, mine, guard, lag, tlag, stale, faults>>

(* A thread of the pool finishes its call even after the task's end. *)
Act(g, t) ==
    /\ task[g][t] = "cleared"
    /\ task' = [task EXCEPT ![g][t] = "idle"]
    /\ stale' = IF Superseded(g) THEN [stale EXCEPT ![g][t] = @ + 1] ELSE stale
    /\ UNCHANGED <<lease, left, mine, guard, lag, tlag, faults>>

-----------------------------------------------------------------------------
(* Pending calls are answered within MaxLag.  The lease of a running        *)
(* process lapses only through a fault: its renewals are three times as     *)
(* frequent as need be.                                                     *)
Pending(g) == guard[g] \in {"claiming", "renewing"}

Tick ==
    /\ \A g \in Gateways :
         /\ Pending(g) => lag[g] < MaxLag
         /\ \A t \in Tasks : task[g][t] = "checking" => tlag[g][t] < MaxLag
    /\ IF left = 1 /\ \E g \in Gateways : Owned(g) /\ guard[g] \in {"up", "renewing"}
       THEN Fault
       ELSE UNCHANGED faults
    /\ left' = IF left > -MaxLag THEN left - 1 ELSE left
    /\ lag' = [g \in Gateways |-> IF Pending(g) THEN lag[g] + 1 ELSE 0]
    /\ tlag' = [g \in Gateways |-> [t \in Tasks |->
                  IF task[g][t] = "checking" THEN tlag[g][t] + 1 ELSE 0]]
    /\ UNCHANGED <<lease, mine, guard, task, stale>>

Guard(g) ==
    \/ Start(g) \/ Claim(g) \/ Refused(g) \/ BeginRenew(g) \/ Renew(g)
    \/ RenewLost(g) \/ Release(g) \/ Exit(g)

Next ==
    \/ Tick
    \/ \E g \in Gateways :
         \/ Guard(g) \/ Stop(g) \/ Crash(g)
         \/ \E t \in Tasks : BeginCheck(g, t) \/ EndCheck(g, t) \/ Act(g, t)

Spec == Init /\ [][Next]_vars

(* Containers are restarted, calls are answered, time goes on. *)
FairSpec ==
    /\ Spec /\ WF_vars(Tick)
    /\ \A g \in Gateways : WF_vars(Guard(g))
    /\ \A g \in Gateways, t \in Tasks : WF_vars(EndCheck(g, t))

-----------------------------------------------------------------------------
(* Properties *)

(* The document, the processes and their pending calls are well formed. *)
TypeOK ==
    /\ lease \in [fence : 0 .. MaxFences, instance : Gateways \cup {Nobody},
                  stopped : BOOLEAN]
    /\ left \in -MaxLag .. TTL
    /\ mine \in [Gateways -> 0 .. MaxFences]
    /\ guard \in [Gateways -> {"down", "claiming", "up", "renewing", "stopping",
                               "released"}]
    /\ lag \in [Gateways -> 0 .. MaxLag]
    /\ task \in [Gateways -> [Tasks -> {"idle", "checking", "cleared"}]]
    /\ tlag \in [Gateways -> [Tasks -> 0 .. MaxLag]]
    /\ stale \in [Gateways -> [Tasks -> Nat]]
    /\ faults \in 0 .. MaxFaults

(* A process that lost its lease to a successor gets at most one more act   *)
(* out of each task: the check before the next one stops it, whatever the   *)
(* clocks did.                                                              *)
OneStaleActPerTask ==
    \A g \in Gateways, t \in Tasks : stale[g][t] <= 1

(* A running lease is claimed by no process, and the process that extends or *)
(* stops it is the one that holds it: neither a late renewal nor the release *)
(* of a superseded process touches its successor's, alive or not; and while  *)
(* the holder does nothing, nobody takes or extends its lease.               *)
HolderAlone ==
    [][left > 0 /\ ~lease.stopped =>
         \A g \in Gateways :
           /\ ~Claim(g)
           /\ Renew(g) \/ (Release(g) /\ lease' # lease) => mine[g] = lease.fence
           /\ mine[g] = lease.fence /\ guard'[g] = guard[g] =>
                lease' = lease /\ left' <= left]_vars

(* However the processes crash, stop or stall, some gateway holds an        *)
(* unexpired lease again and again, once the faults are over for good.      *)
ServedAgain == []<>(\E g \in Gateways : Owned(g) /\ Unexpired(0))
=============================================================================
