------------------------- MODULE WriterLeaseProofs -------------------------
(* Proofs about WriterLease, for any gateways, tasks, periods and bounds.   *)
EXTENDS WriterLease, TLAPS

(* Fences in hand were granted, each to one process; before the first grant *)
(* the document is free.                                                    *)
FencesGranted ==
    /\ \A g \in Gateways : mine[g] <= lease.fence
    /\ \A g, h \in Gateways : mine[g] = mine[h] /\ mine[g] # 0 => g = h
    /\ lease.fence = 0 => lease.stopped

(* A process without a lease object has done nothing yet. *)
FreshProcess ==
    \A g \in Gateways : guard[g] \in {"down", "claiming"} =>
        /\ mine[g] = 0
        /\ \A t \in Tasks : task[g][t] = "idle" /\ stale[g][t] = 0

(* A task that has acted once as a superseded one is stopped by its check,  *)
(* for a superseded process never owns the lease again.                     *)
StaleIsOver ==
    \A g \in Gateways, t \in Tasks : stale[g][t] # 0 =>
        stale[g][t] = 1 /\ Superseded(g) /\ task[g][t] # "cleared"

LeaseInv == TypeOK /\ FencesGranted /\ FreshProcess /\ StaleIsOver

-----------------------------------------------------------------------------

(* The state stays well formed. *)
LEMMA LeaseTypes ==
    ASSUME TypeOK, [Next]_vars
    PROVE  TypeOK'
<1> USE LeaseConstants DEF TypeOK
<1>1. CASE Tick
  BY <1>1 DEF Tick, Fault
<1>2. ASSUME NEW g \in Gateways, Start(g) PROVE TypeOK'
  BY <1>2 DEF Start
<1>3. ASSUME NEW g \in Gateways, Claim(g) PROVE TypeOK'
  BY <1>3 DEF Claim, Extended
<1>4. ASSUME NEW g \in Gateways, Refused(g) PROVE TypeOK'
  BY <1>4 DEF Refused
<1>5. ASSUME NEW g \in Gateways, BeginRenew(g) PROVE TypeOK'
  BY <1>5 DEF BeginRenew
<1>6. ASSUME NEW g \in Gateways, Renew(g) PROVE TypeOK'
  BY <1>6 DEF Renew, Extended
<1>7. ASSUME NEW g \in Gateways, RenewLost(g) PROVE TypeOK'
  BY <1>7 DEF RenewLost
<1>8. ASSUME NEW g \in Gateways, Stop(g) PROVE TypeOK'
  BY <1>8 DEF Stop, Fault
<1>9. ASSUME NEW g \in Gateways, Release(g) PROVE TypeOK'
  <2>1. lease' \in [fence : 0 .. MaxFences, instance : Gateways \cup {Nobody},
                    stopped : BOOLEAN]
    <3>1. lease' \in {lease, [lease EXCEPT !.stopped = TRUE]}
      BY <1>9 DEF Release
    <3> QED
      BY <3>1
  <2>2. left' \in -MaxLag .. TTL /\ 0 \in -MaxLag .. TTL
    BY <1>9 DEF Release
  <2>3. UNCHANGED <<mine, lag, task, tlag, stale, faults>>
        /\ guard' = [guard EXCEPT ![g] = "released"]
    BY <1>9 DEF Release
  <2> QED
    BY <2>1, <2>2, <2>3
<1>10. ASSUME NEW g \in Gateways, Exit(g) PROVE TypeOK'
  BY <1>10 DEF Exit, Forget
<1>11. ASSUME NEW g \in Gateways, Crash(g) PROVE TypeOK'
  BY <1>11 DEF Crash, Forget, Fault
<1>12. ASSUME NEW g \in Gateways, NEW t \in Tasks, BeginCheck(g, t) PROVE TypeOK'
  BY <1>12 DEF BeginCheck
<1>13. ASSUME NEW g \in Gateways, NEW t \in Tasks, EndCheck(g, t) PROVE TypeOK'
  BY <1>13 DEF EndCheck
<1>14. ASSUME NEW g \in Gateways, NEW t \in Tasks, Act(g, t) PROVE TypeOK'
  BY <1>14 DEF Act
<1>15. CASE UNCHANGED vars
  BY <1>15 DEF vars
<1> QED
  BY <1>1, <1>2, <1>3, <1>4, <1>5, <1>6, <1>7,
     <1>8, <1>9, <1>10, <1>11, <1>12, <1>13, <1>14, <1>15
     DEF Next, Guard

(* Fences only grow. *)
LEMMA FencesKept ==
    ASSUME FencesGranted, TypeOK, [Next]_vars
    PROVE  FencesGranted'
<1> USE LeaseConstants DEF FencesGranted, TypeOK
<1>1. CASE Tick
  BY <1>1 DEF Tick, Fault
<1>2. ASSUME NEW g \in Gateways, Start(g) PROVE FencesGranted'
  BY <1>2 DEF Start
<1>3. ASSUME NEW g \in Gateways, Claim(g) PROVE FencesGranted'
  BY <1>3 DEF Claim, Extended
<1>4. ASSUME NEW g \in Gateways, Refused(g) PROVE FencesGranted'
  BY <1>4 DEF Refused
<1>5. ASSUME NEW g \in Gateways, BeginRenew(g) PROVE FencesGranted'
  BY <1>5 DEF BeginRenew
<1>6. ASSUME NEW g \in Gateways, Renew(g) PROVE FencesGranted'
  BY <1>6 DEF Renew, Extended
<1>7. ASSUME NEW g \in Gateways, RenewLost(g) PROVE FencesGranted'
  BY <1>7 DEF RenewLost
<1>8. ASSUME NEW g \in Gateways, Stop(g) PROVE FencesGranted'
  BY <1>8 DEF Stop, Fault
<1>9. ASSUME NEW g \in Gateways, Release(g) PROVE FencesGranted'
  BY <1>9 DEF Release
<1>10. ASSUME NEW g \in Gateways, Exit(g) PROVE FencesGranted'
  BY <1>10 DEF Exit, Forget
<1>11. ASSUME NEW g \in Gateways, Crash(g) PROVE FencesGranted'
  BY <1>11 DEF Crash, Forget, Fault
<1>12. ASSUME NEW g \in Gateways, NEW t \in Tasks, BeginCheck(g, t) PROVE FencesGranted'
  BY <1>12 DEF BeginCheck
<1>13. ASSUME NEW g \in Gateways, NEW t \in Tasks, EndCheck(g, t) PROVE FencesGranted'
  BY <1>13 DEF EndCheck
<1>14. ASSUME NEW g \in Gateways, NEW t \in Tasks, Act(g, t) PROVE FencesGranted'
  BY <1>14 DEF Act
<1>15. CASE UNCHANGED vars
  BY <1>15 DEF vars
<1> QED
  BY <1>1, <1>2, <1>3, <1>4, <1>5, <1>6, <1>7,
     <1>8, <1>9, <1>10, <1>11, <1>12, <1>13, <1>14, <1>15
     DEF Next, Guard

(* A new process starts from nothing. *)
LEMMA FreshKept ==
    ASSUME FreshProcess, TypeOK, [Next]_vars
    PROVE  FreshProcess'
<1> USE LeaseConstants DEF FreshProcess, TypeOK
<1>1. CASE Tick
  BY <1>1 DEF Tick, Fault
<1>2. ASSUME NEW g \in Gateways, Start(g) PROVE FreshProcess'
  BY <1>2 DEF Start
<1>3. ASSUME NEW g \in Gateways, Claim(g) PROVE FreshProcess'
  BY <1>3 DEF Claim, Extended
<1>4. ASSUME NEW g \in Gateways, Refused(g) PROVE FreshProcess'
  BY <1>4 DEF Refused
<1>5. ASSUME NEW g \in Gateways, BeginRenew(g) PROVE FreshProcess'
  BY <1>5 DEF BeginRenew
<1>6. ASSUME NEW g \in Gateways, Renew(g) PROVE FreshProcess'
  BY <1>6 DEF Renew, Extended
<1>7. ASSUME NEW g \in Gateways, RenewLost(g) PROVE FreshProcess'
  BY <1>7 DEF RenewLost
<1>8. ASSUME NEW g \in Gateways, Stop(g) PROVE FreshProcess'
  BY <1>8 DEF Stop, Fault
<1>9. ASSUME NEW g \in Gateways, Release(g) PROVE FreshProcess'
  BY <1>9 DEF Release
<1>10. ASSUME NEW g \in Gateways, Exit(g) PROVE FreshProcess'
  BY <1>10 DEF Exit, Forget
<1>11. ASSUME NEW g \in Gateways, Crash(g) PROVE FreshProcess'
  BY <1>11 DEF Crash, Forget, Fault
<1>12. ASSUME NEW g \in Gateways, NEW t \in Tasks, BeginCheck(g, t) PROVE FreshProcess'
  BY <1>12 DEF BeginCheck
<1>13. ASSUME NEW g \in Gateways, NEW t \in Tasks, EndCheck(g, t) PROVE FreshProcess'
  BY <1>13 DEF EndCheck
<1>14. ASSUME NEW g \in Gateways, NEW t \in Tasks, Act(g, t) PROVE FreshProcess'
  BY <1>14 DEF Act
<1>15. CASE UNCHANGED vars
  BY <1>15 DEF vars
<1> QED
  BY <1>1, <1>2, <1>3, <1>4, <1>5, <1>6, <1>7,
     <1>8, <1>9, <1>10, <1>11, <1>12, <1>13, <1>14, <1>15
     DEF Next, Guard

(* A stale task is not cleared again. *)
LEMMA StaleKept ==
    ASSUME StaleIsOver, TypeOK, FencesGranted, FreshProcess, [Next]_vars
    PROVE  StaleIsOver'
<1> USE LeaseConstants DEF StaleIsOver, FencesGranted, FreshProcess, TypeOK, Superseded, Owned
<1>1. CASE Tick
  BY <1>1 DEF Tick, Fault
<1>2. ASSUME NEW g \in Gateways, Start(g) PROVE StaleIsOver'
  BY <1>2 DEF Start
<1>3. ASSUME NEW g \in Gateways, Claim(g) PROVE StaleIsOver'
  BY <1>3 DEF Claim, Extended
<1>4. ASSUME NEW g \in Gateways, Refused(g) PROVE StaleIsOver'
  BY <1>4 DEF Refused
<1>5. ASSUME NEW g \in Gateways, BeginRenew(g) PROVE StaleIsOver'
  BY <1>5 DEF BeginRenew
<1>6. ASSUME NEW g \in Gateways, Renew(g) PROVE StaleIsOver'
  BY <1>6 DEF Renew, Extended
<1>7. ASSUME NEW g \in Gateways, RenewLost(g) PROVE StaleIsOver'
  BY <1>7 DEF RenewLost
<1>8. ASSUME NEW g \in Gateways, Stop(g) PROVE StaleIsOver'
  BY <1>8 DEF Stop, Fault
<1>9. ASSUME NEW g \in Gateways, Release(g) PROVE StaleIsOver'
  BY <1>9 DEF Release
<1>10. ASSUME NEW g \in Gateways, Exit(g) PROVE StaleIsOver'
  BY <1>10 DEF Exit, Forget
<1>11. ASSUME NEW g \in Gateways, Crash(g) PROVE StaleIsOver'
  BY <1>11 DEF Crash, Forget, Fault
<1>12. ASSUME NEW g \in Gateways, NEW t \in Tasks, BeginCheck(g, t) PROVE StaleIsOver'
  BY <1>12 DEF BeginCheck
<1>13. ASSUME NEW g \in Gateways, NEW t \in Tasks, EndCheck(g, t) PROVE StaleIsOver'
  BY <1>13 DEF EndCheck
<1>14. ASSUME NEW g \in Gateways, NEW t \in Tasks, Act(g, t) PROVE StaleIsOver'
  BY <1>14 DEF Act
<1>15. CASE UNCHANGED vars
  BY <1>15 DEF vars
<1> QED
  BY <1>1, <1>2, <1>3, <1>4, <1>5, <1>6, <1>7,
     <1>8, <1>9, <1>10, <1>11, <1>12, <1>13, <1>14, <1>15
     DEF Next, Guard

(* What HolderAlone says of a step. *)
HolderMove ==
    left > 0 /\ ~lease.stopped =>
       \A g \in Gateways :
         /\ ~Claim(g)
         /\ Renew(g) \/ (Release(g) /\ lease' # lease) => mine[g] = lease.fence
         /\ mine[g] = lease.fence /\ guard'[g] = guard[g] => lease' = lease /\ left' <= left

(* A claim waits for a lease to end. *)
LEMMA NoneClaims ==
    ASSUME TypeOK, FencesGranted, NEW g \in Gateways, Claim(g)
    PROVE  left <= 0 \/ lease.stopped
BY LeaseConstants DEF Claim, MayClaim, Unexpired, TypeOK, FencesGranted

(* Renewals and releases of others are filtered, for no two processes have  *)
(* one fence; the other steps write nothing. *)
LEMMA HoldersKeep ==
    ASSUME TypeOK, FencesGranted, [Next]_vars, left > 0, ~lease.stopped,
           NEW g \in Gateways, mine[g] = lease.fence, guard'[g] = guard[g]
    PROVE  lease' = lease /\ left' <= left
<1> USE LeaseConstants DEF TypeOK
<1>1. CASE Tick
  BY <1>1 DEF Tick
<1>2. ASSUME NEW h \in Gateways, Renew(h) \/ Release(h) PROVE lease' = lease /\ left' <= left
  <2>1. CASE h = g
    BY <1>2, <2>1 DEF Renew, Release
  <2>2. CASE h # g
    <3>1. lease.fence # 0 /\ mine[h] # mine[g]
      BY <2>2 DEF FencesGranted
    <3>2. ~Owned(h)
      BY <3>1 DEF Owned
    <3> QED
      BY <1>2, <3>2 DEF Renew, Release
  <2> QED
    BY <2>1, <2>2
<1>3. ASSUME NEW h \in Gateways, Claim(h) PROVE lease' = lease /\ left' <= left
  BY <1>3, NoneClaims
<1>4. ASSUME NEW h \in Gateways,
             \/ Start(h) \/ Refused(h) \/ BeginRenew(h) \/ RenewLost(h) \/ Exit(h) \/ Stop(h) \/ Crash(h)
             \/ \E t \in Tasks : BeginCheck(h, t) \/ EndCheck(h, t) \/ Act(h, t)
      PROVE  UNCHANGED <<lease, left>>
  BY <1>4 DEF Start, Refused, BeginRenew, RenewLost, Exit, Stop, Crash, BeginCheck, EndCheck, Act
<1>5. CASE UNCHANGED vars
  BY <1>5 DEF vars
<1> QED
  BY <1>1, <1>2, <1>3, <1>4, <1>5 DEF Next, Guard

(* A renewal is granted to the holder only, and so is a release that shows. *)
LEMMA HolderMoves ==
    ASSUME TypeOK, FencesGranted, [Next]_vars
    PROVE  HolderMove
<1>1. ASSUME NEW g \in Gateways, Renew(g) \/ (Release(g) /\ lease' # lease)
      PROVE  mine[g] = lease.fence
  BY <1>1 DEF Renew, Release, Owned
<1> QED
  BY <1>1, NoneClaims, HoldersKeep DEF HolderMove, TypeOK

LEMMA LeaseInit == Init => LeaseInv
BY LeaseConstants
   DEF Init, LeaseInv, TypeOK, FencesGranted, FreshProcess, StaleIsOver

LEMMA LeaseStep == LeaseInv /\ [Next]_vars => LeaseInv'
BY LeaseTypes, FencesKept, FreshKept, StaleKept DEF LeaseInv

(* The invariant holds throughout. *)
LEMMA LeaseInvariant == Spec => []LeaseInv
BY LeaseInit, LeaseStep, PTL DEF Spec

(* Type correctness. *)
THEOREM LeaseTypeCorrect == Spec => []TypeOK
<1>1. LeaseInv => TypeOK
  BY DEF LeaseInv
<1> QED
  BY <1>1, LeaseInvariant, PTL

(* Fencing: a superseded gateway acts at most once more per task, for any   *)
(* number of gateways and whatever the delays.                              *)
THEOREM FencedAfterOneAct == Spec => []OneStaleActPerTask
<1>1. LeaseInv => OneStaleActPerTask
  BY DEF LeaseInv, StaleIsOver, OneStaleActPerTask
<1> QED
  BY <1>1, LeaseInvariant, PTL

(* No process claims a running lease, none but its holder renews or stops   *)
(* it, and no other step of any process takes it from its holder: for any   *)
(* number of gateways, whatever the delays and whoever was superseded       *)
(* (SingleWriterLease.renew and release, claim_single_writer).              *)
THEOREM RunningLeaseIsTheHolders == Spec => HolderAlone
<1>1. LeaseInv /\ [Next]_vars =>
        [left > 0 /\ ~lease.stopped =>
           \A g \in Gateways :
             /\ ~Claim(g)
             /\ Renew(g) \/ (Release(g) /\ lease' # lease) => mine[g] = lease.fence
             /\ mine[g] = lease.fence /\ guard'[g] = guard[g] => lease' = lease /\ left' <= left]_vars
  BY HolderMoves DEF LeaseInv, HolderMove
<1> QED
  BY <1>1, LeaseInvariant, PTL DEF Spec, HolderAlone
=============================================================================
