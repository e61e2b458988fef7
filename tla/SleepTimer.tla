---------------------------- MODULE SleepTimer ----------------------------
(* The sleep timer of one member: SleepTimerStore (one Mongo document), the *)
(* calls that set and cancel it, the executor loop of every gateway process *)
(* that may run, and the projector of its audit events.  Every database     *)
(* call is a step of its own.  The lease is its fence here: WriterLease     *)
(* shows what it grants, and a process may find itself superseded at any    *)
(* moment.  Documents of other members share nothing with this one.         *)
EXTENDS Naturals, FiniteSets

CONSTANTS
    Gateways,    \* container instances
    Calls,       \* calls of set and cancel, repeats of a request included
    Requests,    \* request ids
    ReqOf,       \* request id of each call
    ActOf,       \* "set" or "cancel" of each call
    Nothing,     \* no timer has been set yet
    MaxCas,      \* MAX_CAS_ATTEMPTS
    MaxRecent,   \* MAX_RECENT_REQUESTS
    MaxPending,  \* MAX_PENDING_AUDIT
    MaxFences,   \* bound: granted leases
    MaxTroubles  \* bound: crashes and failed calls

ASSUME SleepConstants ==
    /\ ReqOf \in [Calls -> Requests] /\ ActOf \in [Calls -> {"set", "cancel"}]
    /\ Nothing \notin Requests
    /\ MaxCas \in Nat \ {0} /\ MaxRecent \in Nat \ {0} /\ MaxPending \in Nat \ {0}
    /\ MaxFences \in Nat \ {0} /\ MaxTroubles \in Nat

VARIABLES
    doc,      \* the document of voice_sleep_timers (rev 0: none)
    ripe,     \* dueAt has passed
    audit,    \* ids in web_audit_logs
    call,     \* what each call does, its snapshot and attempts left
    gate,     \* what each executor loop does
    lease,    \* fence of the lease document
    phase,    \* history: fate of the timer each request set
    patched,  \* history: PATCH calls for the timer of each request
    landed,   \* history: timers whose PATCH Discord carried out
    changes,  \* history: changes each request made
    issued,   \* history: audit events ever written into the document
    stray,    \* history: the last claim was a superseded process's
    troubles

vars == <<doc, ripe, audit, call, gate, lease, phase, patched, landed, changes, issued, stray, troubles>>
history == <<phase, patched, landed, changes, issued, stray>>

Final == {"disconnected", "skipped", "failed", "unknown"}
Events == ({"request"} \X Requests) \cup ({"revision"} \X Nat)

NoTimer == [rev |-> 0, status |-> "none", timer |-> Nothing, fence |-> 0, seen |-> {}, pending |-> {}]

(* A loop that holds nothing in its hands. *)
Fresh(pc, fence) ==
    [pc |-> pc, fence |-> fence, snap |-> NoTimer, status |-> "unknown", events |-> {}]

Init ==
    /\ doc = NoTimer
    /\ ripe = FALSE
    /\ audit = {}
    /\ call = [c \in Calls |-> [pc |-> "reading", snap |-> NoTimer, left |-> MaxCas]]
    /\ gate = [g \in Gateways |-> Fresh("off", 0)]
    /\ lease = 0
    /\ phase = [r \in Requests |-> "new"]
    /\ patched = [r \in Requests |-> 0]
    /\ landed = {}
    /\ changes = [r \in Requests |-> 0]
    /\ issued = {} /\ stray = FALSE
    /\ troubles = 0

-----------------------------------------------------------------------------
(* _mutate: read the document and decide from it. *)
Entry(c) == [req |-> ReqOf[c], act |-> ActOf[c]]
Known(c, d) == \E e \in d.seen : e.req = ReqOf[c]

(* Slips: no refusal while executing; the history is not looked at. *)
VerdictNeverBusy(c, d) ==
    IF Entry(c) \in d.seen THEN "replayed" ELSE IF Known(c, d) THEN "rejected" ELSE "writing"
VerdictUnremembered(c, d) ==
    IF d.status = "executing" THEN "busy" ELSE "writing"

(* The checks of the loop, in the order of the code. *)
Verdict(c, d) ==
    IF Entry(c) \in d.seen THEN "replayed"
    ELSE IF Known(c, d) THEN "rejected"
    ELSE IF d.status = "executing" THEN "busy"
    ELSE IF Cardinality(d.seen) >= MaxRecent \/ Cardinality(d.pending) >= MaxPending THEN "full"
    ELSE "writing"

Read(c) ==
    /\ call[c].pc = "reading"
    /\ call' = [call EXCEPT ![c].pc = Verdict(c, doc),
                            ![c].snap = IF Verdict(c, doc) = "writing" THEN doc ELSE NoTimer]
    /\ UNCHANGED <<doc, ripe, audit, gate, lease, history, troubles>>

(* Slip: the status of the snapshot is not looked at. *)
MutatedSkipping(c, s) == [s EXCEPT !.rev = @ + 1, !.status = ActOf[c]]

(* The new document is built from the snapshot, its audit list included. *)
Mutated(c, s) ==
    [rev |-> s.rev + 1,
     status |-> IF ActOf[c] = "set" THEN "pending"
                ELSE IF s.status \in {"none", "pending"} THEN "cancelled" ELSE s.status,
     timer |-> IF ActOf[c] = "set" THEN ReqOf[c] ELSE s.timer,
     fence |-> IF ActOf[c] = "set" THEN 0 ELSE s.fence,
     seen |-> s.seen \cup {Entry(c)},
     pending |-> s.pending \cup {<<"request", ReqOf[c]>>}]

(* insert_one against the key, replace_one against revision and status. *)
UnchangedSince(s) == doc.rev = s.rev /\ doc.status = s.status

(* What becomes of the timer in the document and of the one that is set. *)
Fates(c, s) ==
    [r \in Requests |-> IF ActOf[c] = "set" /\ r = ReqOf[c] THEN "armed"
                        ELSE IF s.status = "pending" /\ r = s.timer THEN "off" ELSE phase[r]]

Write(c) ==
    LET s == call[c].snap IN
    /\ call[c].pc = "writing"
    /\ \/ /\ UnchangedSince(s)
          /\ doc' = Mutated(c, s)
          /\ ripe' = (ripe /\ ActOf[c] = "cancel")
          /\ call' = [call EXCEPT ![c].pc = "done", ![c].snap = NoTimer]
          /\ phase' = Fates(c, s)
          /\ changes' = [changes EXCEPT ![ReqOf[c]] = @ + 1]
          /\ issued' = issued \cup {<<"request", ReqOf[c]>>}
       \/ /\ ~UnchangedSince(s)
          /\ call' = [call EXCEPT ![c].pc = IF call[c].left = 1 THEN "conflict" ELSE "reading",
                                  ![c].snap = NoTimer, ![c].left = @ - 1]
          /\ UNCHANGED <<doc, ripe, phase, changes, issued>>
    /\ UNCHANGED <<audit, gate, lease, patched, landed, stray, troubles>>

(* The clock reaches dueAt. *)
FallDue ==
    /\ doc.status = "pending" /\ ~ripe
    /\ ripe' = TRUE
    /\ UNCHANGED <<doc, audit, call, gate, lease, history, troubles>>

-----------------------------------------------------------------------------
(* A gateway process: the lease is granted to it (claim_single_writer). *)
Start(g) ==
    /\ gate[g].pc = "off"
    /\ lease < MaxFences
    /\ lease' = lease + 1
    /\ gate' = [gate EXCEPT ![g] = Fresh("boot", lease + 1)]
    /\ UNCHANGED <<doc, ripe, audit, call, history, troubles>>

Current(g) == gate[g].fence = lease

(* ensure_current: on to the next step, or out of the loop, which restarts. *)
Checked(g, next) ==
    gate' = [gate EXCEPT ![g] = IF Current(g) THEN [@ EXCEPT !.pc = next]
                                ELSE Fresh("boot", @.fence)]

(* recover_stale: mark_stale_unknown lists the claims of earlier fences and *)
(* those of this process. *)
RecoverCheck(g) ==
    /\ gate[g].pc = "boot"
    /\ Checked(g, "recovering")
    /\ UNCHANGED <<doc, ripe, audit, call, lease, history, troubles>>

Orphaned(g) == doc.status = "executing" /\ doc.fence <= gate[g].fence

RecoverList(g) ==
    /\ gate[g].pc = "recovering"
    /\ gate' = [gate EXCEPT ![g] = IF Orphaned(g) THEN [@ EXCEPT !.pc = "marking", !.snap = doc]
                                ELSE Fresh("idle", @.fence)]
    /\ UNCHANGED <<doc, ripe, audit, call, lease, history, troubles>>

(* Slip: the successor takes the timer up again. *)
ClosedAsPending(s, status) ==
    [doc EXCEPT !.rev = s.rev + 1, !.status = IF status = "unknown" THEN "pending" ELSE status,
                !.pending = @ \cup {<<"revision", s.rev + 1>>}]

(* The update of finish and of mark_stale_unknown. *)
Closed(s, status) ==
    [doc EXCEPT !.rev = s.rev + 1, !.status = status,
                !.pending = @ \cup {<<"revision", s.rev + 1>>}]

(* The filter of both: this claim, untouched. *)
StillClaimed(s) == doc.status = "executing" /\ doc.rev = s.rev /\ doc.fence = s.fence

CloseAs(s, status) ==
    /\ doc' = Closed(s, status)
    /\ issued' = issued \cup {<<"revision", s.rev + 1>>}
    /\ phase' = [phase EXCEPT ![s.timer] = "closed"]

RecoverMark(g) ==
    /\ gate[g].pc = "marking"
    /\ \/ StillClaimed(gate[g].snap) /\ CloseAs(gate[g].snap, "unknown")
       \/ ~StillClaimed(gate[g].snap) /\ UNCHANGED <<doc, issued, phase>>
    /\ gate' = [gate EXCEPT ![g] = Fresh("idle", @.fence)]
    /\ UNCHANGED <<ripe, audit, call, lease, patched, landed, changes, stray, troubles>>

(* run_once: the lease is checked, then a due timer claimed. *)
ClaimCheck(g) ==
    /\ gate[g].pc = "idle"
    /\ doc.status = "pending" /\ ripe
    /\ Checked(g, "claiming")
    /\ UNCHANGED <<doc, ripe, audit, call, lease, history, troubles>>

Claimable(g) == doc.status = "pending" /\ ripe

Claim(g) ==
    /\ gate[g].pc = "claiming"
    /\ \/ /\ Claimable(g)
          /\ doc' = [doc EXCEPT !.rev = @ + 1, !.status = "executing", !.fence = gate[g].fence]
          /\ gate' = [gate EXCEPT ![g].pc = "deciding", ![g].snap = doc']
          /\ phase' = [phase EXCEPT ![doc.timer] = "taken"]
          /\ stray' = ~Current(g)
       \/ /\ ~Claimable(g)
          /\ gate' = [gate EXCEPT ![g] = Fresh("idle", @.fence)]
          /\ UNCHANGED <<doc, phase, stray>>
    /\ UNCHANGED <<ripe, audit, call, lease, patched, landed, changes, issued, troubles>>

(* _decide_and_act up to the last lease check: a verdict without a PATCH    *)
(* (not in voice, no proof of presence, no permission, an exception), or on *)
(* to the PATCH. *)
DecideAgainst(g) ==
    /\ gate[g].pc = "deciding"
    /\ \E status \in Final \ {"disconnected"} :
           gate' = [gate EXCEPT ![g].pc = "decided", ![g].status = status]
    /\ UNCHANGED <<doc, ripe, audit, call, lease, history, troubles>>

DecideFor(g) ==
    /\ gate[g].pc = "deciding"
    /\ Checked(g, "cleared")
    /\ UNCHANGED <<doc, ripe, audit, call, lease, history, troubles>>

(* Slip: an answer that says nothing certain is taken as a failure. *)
ReadingCertain(applied, answered) == IF answered THEN (IF applied THEN "disconnected" ELSE "failed") ELSE "failed"

(* _disconnect_once: 2xx; 4xx, which Discord refused; 5xx and exceptions,   *)
(* which it may have carried out. *)
Reading(applied, answered) ==
    IF ~answered THEN "unknown" ELSE IF applied THEN "disconnected" ELSE "failed"

Patch(g) ==
    LET t == gate[g].snap.timer IN
    /\ gate[g].pc = "cleared"
    /\ \E applied, answered \in BOOLEAN :
           /\ gate' = [gate EXCEPT ![g].pc = "decided", ![g].status = Reading(applied, answered)]
           /\ landed' = IF applied THEN landed \cup {t} ELSE landed
    /\ patched' = [patched EXCEPT ![t] = @ + 1]
    /\ UNCHANGED <<doc, ripe, audit, call, lease, phase, changes, issued, stray, troubles>>

FinishCheck(g) ==
    /\ gate[g].pc = "decided"
    /\ Checked(g, "finishing")
    /\ UNCHANGED <<doc, ripe, audit, call, lease, history, troubles>>

(* finish; a refused update ends the loop with an exception. *)
Finish(g) ==
    /\ gate[g].pc = "finishing"
    /\ \/ /\ StillClaimed(gate[g].snap)
          /\ CloseAs(gate[g].snap, gate[g].status)
          /\ gate' = [gate EXCEPT ![g] = Fresh("idle", @.fence)]
       \/ /\ ~StillClaimed(gate[g].snap)
          /\ gate' = [gate EXCEPT ![g] = Fresh("boot", @.fence)]
          /\ UNCHANGED <<doc, issued, phase>>
    /\ UNCHANGED <<ripe, audit, call, lease, patched, landed, changes, stray, troubles>>

-----------------------------------------------------------------------------
(* project_pending, in the same loop and without a look at the lease. *)
ProjectRead(g) ==
    /\ gate[g].pc = "idle"
    /\ doc.pending # {}
    /\ gate' = [gate EXCEPT ![g].pc = "projecting", ![g].events = doc.pending]
    /\ UNCHANGED <<doc, ripe, audit, call, lease, history, troubles>>

ProjectInsert(g) ==
    /\ gate[g].pc = "projecting"
    /\ \E e \in gate[g].events :
           /\ audit' = audit \cup {e}
           /\ gate' = [gate EXCEPT ![g].pc = "pulling", ![g].events = @ \ {e},
                                   ![g].snap = [NoTimer EXCEPT !.pending = {e}]]
    /\ UNCHANGED <<doc, ripe, call, lease, history, troubles>>

(* Slip: the whole list is emptied. *)
PulledAll(g) == {}

(* $pull of the event that was projected. *)
Pulled(g) == doc.pending \ gate[g].snap.pending

Pull(g) ==
    /\ gate[g].pc = "pulling"
    /\ doc' = [doc EXCEPT !.pending = Pulled(g)]
    /\ gate' = [gate EXCEPT ![g] = IF @.events = {} THEN Fresh("idle", @.fence)
                                ELSE [@ EXCEPT !.pc = "projecting", !.snap = NoTimer]]
    /\ UNCHANGED <<ripe, audit, call, lease, history, troubles>>

-----------------------------------------------------------------------------
(* A database call raises, before or after the server carried it out: the   *)
(* loop ends and sweep_sleep_timers is started again.  While it decides and *)
(* while it calls Discord the executor catches what is raised.              *)
Fails(g) ==
    /\ gate[g].pc \notin {"off", "boot", "cleared"}
    /\ troubles < MaxTroubles
    /\ troubles' = troubles + 1
    /\ gate' = [gate EXCEPT ![g] = Fresh("boot", @.fence)]
    /\ UNCHANGED <<doc, ripe, audit, call, lease, history>>

(* The process is killed.  The last one the bound allows lives on. *)
Crash(g) ==
    /\ gate[g].pc # "off"
    /\ lease < MaxFences
    /\ troubles < MaxTroubles
    /\ troubles' = troubles + 1
    /\ gate' = [gate EXCEPT ![g] = Fresh("off", 0)]
    /\ UNCHANGED <<doc, ripe, audit, call, lease, history>>

(* What the loop of a gateway does next, but for the choice of a tick *)
Continue(g) ==
    \/ RecoverCheck(g) \/ RecoverList(g) \/ RecoverMark(g)
    \/ Claim(g) \/ DecideAgainst(g) \/ DecideFor(g) \/ Patch(g)
    \/ FinishCheck(g) \/ Finish(g)
    \/ ProjectInsert(g) \/ Pull(g)

Next ==
    \/ \E c \in Calls : Read(c) \/ Write(c)
    \/ FallDue
    \/ \E g \in Gateways :
          \/ Start(g) \/ ClaimCheck(g) \/ ProjectRead(g) \/ Continue(g)
          \/ Fails(g) \/ Crash(g)

Spec == Init /\ [][Next]_vars

(* The clock runs; a process with the lease runs its loop, whose ticks are  *)
(* never all projections or all claims; a gateway is started when none that *)
(* holds the lease is left. *)
Served == \E g \in Gateways : gate[g].pc # "off" /\ Current(g)

Fairness ==
    /\ WF_vars(FallDue)
    /\ \A g \in Gateways :
          /\ WF_vars(~Served /\ Start(g)) /\ WF_vars(Continue(g))
          /\ WF_vars(ClaimCheck(g)) /\ WF_vars(ProjectRead(g))

FairSpec == Spec /\ Fairness

-----------------------------------------------------------------------------
TypeOK ==
    /\ doc \in [rev : Nat, status : Final \cup {"none", "pending", "executing", "cancelled"},
                timer : Requests \cup {Nothing}, fence : Nat,
                seen : SUBSET [req : Requests, act : {"set", "cancel"}], pending : SUBSET Events]
    /\ ripe \in BOOLEAN /\ audit \subseteq Events /\ lease \in Nat /\ troubles \in Nat
    /\ \A c \in Calls : call[c].left \in 0 .. MaxCas
    /\ \A g \in Gateways : gate[g].fence \in 0 .. lease /\ gate[g].status \in Final
    /\ landed \subseteq Requests

(* No timer is PATCHed twice, whatever crashes, restarts and successors it  *)
(* meets (sleep_executor.py: one-shot, no automatic retry). *)
OnePatchPerTimer == \A r \in Requests : patched[r] <= 1

(* A PATCH goes out only while the document shows the sender's own claim,   *)
(* unless the sender was superseded after its last look at the lease: no    *)
(* set, cancel or recovery gets between claim and PATCH. *)
PatchOnlyWhileClaimed ==
    [][\A g \in Gateways : gate[g].pc = "cleared" /\ gate'[g].pc = "decided" =>
           (doc = gate[g].snap \/ ~Current(g)
            \/ doc = [gate[g].snap EXCEPT !.pending = doc.pending])]_vars

(* What the document says of the voice disconnect is so: disconnected means *)
(* that it happened, skipped and failed that it did not. *)
FinalIsTruthful ==
    /\ doc.status = "disconnected" => doc.timer \in landed
    /\ doc.status \in {"skipped", "failed"} => doc.timer \notin landed

(* However often and however concurrently a request is repeated, it changes *)
(* the timer once at most (recentRequests in the same document). *)
AppliedOnce == \A r \in Requests : changes[r] <= 1

(* Every change and every final state has its audit event in the document   *)
(* or in the log, although the list is rewritten from snapshots by set and  *)
(* cancel and emptied by projectors that look at no revision. *)
NothingUnaudited == issued \subseteq doc.pending \cup audit

(* The timers of the requests keep the promise of a one-shot timer. *)
OneShot == INSTANCE AtMostOnce WITH Timers <- Requests,
    phase <- phase, deeds <- [r \in Requests |-> IF r \in landed THEN 1 ELSE 0]
ImplementsAtMostOnce == OneShot!Spec

(* The claim of a process that holds the lease is closed, by it or by the   *)
(* loop that follows it (sleep_executor.py: a successor records the         *)
(* uncertain call as unknown).  A superseded process may still claim after  *)
(* its successor has recovered; that claim nobody closes before the next    *)
(* start. *)
HoldersClaimEnds == []<>(doc.status # "executing" \/ stray)

(* Every audit event leaves the document for the log. *)
AuditDrains == <>[](doc.pending = {})
=============================================================================
