-------------------------- MODULE OrderedDelivery --------------------------
(* The order gate of voice.events inside one scope (guild, user): the       *)
(* publisher's DurablePublisher._publish_ordered and the consumer's         *)
(* _gate_scan_sync, _gate_cleared and deliver of voice_tracker/eventlog.py. *)
(* Event n is the n-th of its scope: the publisher records it after event   *)
(* n - 1, and orderAt and _id sort the same way.  A worker is a wire        *)
(* callback or a sweep tick; its stack holds the frames of the recursive    *)
(* calls of deliver, top first.  claim is one step here: EventInbox takes   *)
(* it apart.                                                                *)
EXTENDS Naturals, Sequences, FiniteSets

CONSTANTS
    N,            \* events of the scope
    Workers,      \* concurrent callers of deliver
    GateScans,    \* GATE_SCANS
    MaxDeliver,   \* max_deliver
    MaxPubFaults, \* bound: publications cut short by a crash or an error
    MaxFailures,  \* bound: handler calls that raise
    MaxCrashes,   \* bound: workers lost with their stack
    MaxSlow       \* bound: leases that run out under a running handler

ASSUME Sizes ==
    /\ N \in Nat \ {0} /\ GateScans \in Nat \ {0} /\ MaxDeliver \in Nat \ {0}
    /\ MaxPubFaults \in Nat /\ MaxFailures \in Nat
    /\ MaxCrashes \in Nat /\ MaxSlow \in Nat

Events == 1 .. N

NoSeq == 0

VARIABLES
    pub,      \* the publisher: its event, its step, the seq it drew
    recorded, \* events with a row in event_log: 1 .. recorded
    seq,      \* event_log.seq of each event, NoSeq when unset
    counter,  \* event_seq of the scope
    inbox,    \* event_inbox: state, attempts, whether the lease is live
    lastSeq,  \* event_scope_progress of the consumer, 0 when there is no row
    stack,    \* frames of each worker
    unsequenced, \* history: events whose publisher stopped before setting seq
    outraced, \* history: events whose gate lost the race for their seq
    faults    \* how much of each bound is used

vars == <<pub, recorded, seq, counter, inbox, lastSeq, stack,
          unsequenced, outraced, faults>>

journal == <<pub, recorded, seq, counter, unsequenced>>

NoRow == [state |-> "absent", attempts |-> 0, live |-> FALSE]

Init ==
    /\ pub = [pc |-> "idle", seq |-> NoSeq]
    /\ recorded = 0
    /\ seq = [e \in Events |-> NoSeq]
    /\ counter = 0
    /\ inbox = [e \in Events |-> NoRow]
    /\ lastSeq = 0
    /\ stack = [w \in Workers |-> <<>>]
    /\ unsequenced = {} /\ outraced = {}
    /\ faults = [pub |-> 0, handler |-> 0, crash |-> 0, slow |-> 0]

Spend(kind, bound) ==
    /\ faults[kind] < bound
    /\ faults' = [faults EXCEPT ![kind] = @ + 1]

-----------------------------------------------------------------------------
(* Publisher, one event at a time under the lock of the scope *)

(* record: the row is in the journal, without a seq. *)
Record ==
    /\ pub.pc = "idle" /\ recorded < N
    /\ recorded' = recorded + 1
    /\ pub' = [pub EXCEPT !.pc = "bump"]
    /\ UNCHANGED <<seq, counter, inbox, lastSeq, stack,
                   unsequenced, outraced, faults>>

(* find_one of the row, then _bump_seq_sync when it has no seq yet. *)
PublisherBump ==
    /\ pub.pc = "bump"
    /\ IF seq[recorded] = NoSeq
       THEN /\ counter' = counter + 1
            /\ pub' = [pc |-> "assign", seq |-> counter + 1]
       ELSE /\ pub' = [pc |-> "idle", seq |-> NoSeq]
            /\ UNCHANGED counter
    /\ UNCHANGED <<recorded, seq, inbox, lastSeq, stack,
                   unsequenced, outraced, faults>>

PublisherAssignUnfiltered ==
    /\ pub.pc = "assign"
    /\ seq' = [seq EXCEPT ![recorded] = pub.seq]
    /\ pub' = [pc |-> "idle", seq |-> NoSeq]
    /\ UNCHANGED <<recorded, counter, inbox, lastSeq, stack,
                   unsequenced, outraced, faults>>

(* update_one with the filter seq = None. *)
PublisherAssign ==
    /\ pub.pc = "assign"
    /\ seq' = IF seq[recorded] = NoSeq THEN [seq EXCEPT ![recorded] = pub.seq] ELSE seq
    /\ pub' = [pc |-> "idle", seq |-> NoSeq]
    /\ UNCHANGED <<recorded, counter, inbox, lastSeq, stack,
                   unsequenced, outraced, faults>>

(* A crash, a lost writer lease or a database error leaves the row as it is *)
(* and frees the lock.                                                      *)
PublisherStops ==
    /\ pub.pc # "idle"
    /\ Spend("pub", MaxPubFaults)
    /\ pub' = [pc |-> "idle", seq |-> NoSeq]
    /\ unsequenced' = IF seq[recorded] = NoSeq THEN unsequenced \cup {recorded}
                                               ELSE unsequenced
    /\ UNCHANGED <<recorded, seq, counter, inbox, lastSeq, stack, outraced>>

-----------------------------------------------------------------------------
(* Frames of deliver *)

NewFrame(e) ==
    [event |-> e, pc |-> "row", seq |-> NoSeq, todo |-> {}, scans |-> GateScans,
     final |-> FALSE, blocked |-> FALSE, progress |-> FALSE, attempt |-> 0]

Running(w) == stack[w] # <<>>
Top(w) == Head(stack[w])
At(w, pc) == Running(w) /\ Top(w).pc = pc

Become(w, frame) == stack' = [stack EXCEPT ![w] = <<frame>> \o Tail(@)]
Goto(w, pc) == Become(w, [Top(w) EXCEPT !.pc = pc])

(* deliver raises: the whole recursion and its caller end. *)
Raise(w) == stack' = [stack EXCEPT ![w] = <<>>]

(* deliver returns; the gate of the caller counts it as progress or not. *)
Return(w, outcome) ==
    LET rest == Tail(stack[w])
        moved == outcome \in {"completed", "fence_lost", "skipped"}
    IN stack' = [stack EXCEPT ![w] =
         IF rest = <<>> THEN <<>>
         ELSE <<[Head(rest) EXCEPT !.progress = @ \/ moved]>> \o Tail(rest)]

(* _advance_progress_sync: the upsert whose filter misses an existing row   *)
(* runs into the unique _id.                                                *)
AdvanceMatches(s) == lastSeq < s

DeliverUnrecorded(w, e) ==
    /\ ~Running(w)
    /\ stack' = [stack EXCEPT ![w] = <<NewFrame(e)>>]
    /\ UNCHANGED <<journal, inbox, lastSeq, outraced, faults>>

(* A wire message or the sweep brings an event of the journal. *)
Deliver(w, e) ==
    /\ ~Running(w)
    /\ e <= recorded
    /\ stack' = [stack EXCEPT ![w] = <<NewFrame(e)>>]
    /\ UNCHANGED <<journal, inbox, lastSeq, outraced, faults>>

-----------------------------------------------------------------------------
(* _gate_scan_sync *)

Expired(e) == inbox[e].state = "processing" /\ ~inbox[e].live

(* Slip: a quarantined predecessor taken for a settled one. *)
SeenQuarantineAsDone(e) ==
    [event |-> e, seq |-> seq[e],
     state |-> CASE inbox[e].state \in {"completed", "quarantined"} -> "completed"
                 [] Expired(e) -> "expired"
                 [] inbox[e].state = "processing" -> "held"
                 [] OTHER -> "open"]

(* What a scan keeps of a predecessor: its seq and how its row looks now. *)
Seen(e) ==
    [event |-> e, seq |-> seq[e],
     state |-> CASE inbox[e].state = "completed" -> "completed"
                 [] Expired(e) -> "expired"
                 [] inbox[e].state \in {"processing", "quarantined"} -> "held"
                 [] OTHER -> "open"]

(* The scan found predecessors, or none: the gate is clear.  An active or   *)
(* quarantined one only sets "blocked", which is read after the last one.   *)
Found(w, preds) ==
    Become(w, IF preds = {} THEN [Top(w) EXCEPT !.pc = "claim"]
              ELSE IF Top(w).final THEN [Top(w) EXCEPT !.pc = "defer"]
              ELSE [Top(w) EXCEPT !.pc = "loop", !.progress = FALSE,
                                  !.todo = {p \in preds : p.state # "held"},
                                  !.blocked = \E p \in preds : p.state = "held"])

(* The rows without seq that sort before event e and are not completed. *)
LexicalPredecessors(e) ==
    {p \in 1 .. (e - 1) : seq[p] = NoSeq /\ inbox[p].state # "completed"}

ScanRow(w) ==
    LET e == Top(w).event
        before == {Seen(p) : p \in LexicalPredecessors(e)}
    IN
    /\ At(w, "row")
    /\ IF seq[e] # NoSeq THEN Goto(w, "preds")
       ELSE IF before # {} THEN Found(w, before)
       ELSE Goto(w, "bump")
    /\ UNCHANGED <<journal, inbox, lastSeq, outraced, faults>>

ScanBump(w) ==
    /\ At(w, "bump")
    /\ counter' = counter + 1
    /\ Become(w, [Top(w) EXCEPT !.pc = "assign", !.seq = counter + 1])
    /\ UNCHANGED <<pub, recorded, seq, inbox, lastSeq,
                   unsequenced, outraced, faults>>

ScanAssignUnfiltered(w) ==
    /\ At(w, "assign")
    /\ seq' = [seq EXCEPT ![Top(w).event] = Top(w).seq]
    /\ Become(w, [Top(w) EXCEPT !.pc = "preds", !.seq = NoSeq])
    /\ UNCHANGED <<pub, recorded, counter, inbox, lastSeq, outraced,
                   unsequenced, faults>>

(* find_one_and_update with the filter seq = None.  Losing it to the        *)
(* publisher returns {"gate": "none"}: no predecessor is looked at.         *)
ScanAssign(w) ==
    LET e == Top(w).event IN
    /\ At(w, "assign")
    /\ IF seq[e] = NoSeq
       THEN /\ seq' = [seq EXCEPT ![e] = Top(w).seq]
            /\ Become(w, [Top(w) EXCEPT !.pc = "preds", !.seq = NoSeq])
            /\ UNCHANGED outraced
       ELSE /\ Become(w, [Top(w) EXCEPT !.pc = "claim", !.seq = NoSeq])
            /\ outraced' = outraced \cup {e}
            /\ UNCHANGED seq
    /\ UNCHANGED <<pub, recorded, counter, inbox, lastSeq, unsequenced, faults>>

(* The rows between the watermark and the own seq, completed ones included. *)
ScanPredecessors(w) ==
    LET e == Top(w).event
        between == {p \in Events : lastSeq < seq[p] /\ seq[p] < seq[e]}
    IN
    /\ At(w, "preds")
    /\ Found(w, {Seen(p) : p \in between})
    /\ UNCHANGED <<journal, inbox, lastSeq, outraced, faults>>

-----------------------------------------------------------------------------
(* _gate_cleared: one predecessor after the other *)

Rank(p) == IF p.seq # NoSeq THEN p.seq ELSE p.event

FirstOf(todo) == CHOOSE p \in todo : \A q \in todo : Rank(p) <= Rank(q)

(* A completed predecessor moves the watermark. *)
PassCompleted(w) ==
    LET p == FirstOf(Top(w).todo) IN
    /\ At(w, "loop") /\ Top(w).todo # {}
    /\ p.state = "completed"
    /\ IF AdvanceMatches(p.seq)
       THEN /\ lastSeq' = p.seq
            /\ Become(w, [Top(w) EXCEPT !.todo = @ \ {p}, !.progress = TRUE])
       ELSE Raise(w) /\ UNCHANGED lastSeq
    /\ UNCHANGED <<journal, inbox, outraced, faults>>

(* Any other predecessor is delivered first. *)
DeliverPredecessor(w) ==
    LET p == FirstOf(Top(w).todo)
        caller == [Top(w) EXCEPT !.todo = @ \ {p},
                                 !.progress = @ \/ p.state = "expired"]
    IN
    /\ At(w, "loop") /\ Top(w).todo # {}
    /\ p.state \in {"open", "expired"}
    /\ stack' = [stack EXCEPT ![w] = <<NewFrame(p.event), caller>> \o Tail(@)]
    /\ UNCHANGED <<journal, inbox, lastSeq, outraced, faults>>

(* The list is done: give up, rescan once after a block, or scan again. *)
EndOfScan(w) ==
    LET f == Top(w) IN
    /\ At(w, "loop") /\ f.todo = {}
    /\ Become(w,
         IF ~f.progress \/ (~f.blocked /\ f.scans = 1) THEN [f EXCEPT !.pc = "defer"]
         ELSE IF f.blocked THEN [f EXCEPT !.pc = "row", !.final = TRUE]
         ELSE [f EXCEPT !.pc = "row", !.scans = @ - 1])
    /\ UNCHANGED <<journal, inbox, lastSeq, outraced, faults>>

-----------------------------------------------------------------------------
(* The rest of deliver *)

(* _mark_deferred_sync, with the same upsert as the watermark. *)
Defer(w) ==
    LET e == Top(w).event IN
    /\ At(w, "defer")
    /\ IF inbox[e].state \in {"absent", "received", "deferred"}
       THEN inbox' = [inbox EXCEPT ![e].state = "deferred"] /\ Return(w, "deferred")
       ELSE Raise(w) /\ UNCHANGED inbox
    /\ UNCHANGED <<journal, lastSeq, outraced, faults>>

(* A slip: the filter of the claim forgets the deferred rows. *)
ClaimAnew(w) ==
    LET e == Top(w).event IN
    /\ At(w, "claim")
    /\ IF inbox[e].state \in {"absent", "received"} \/ Expired(e)
       THEN /\ inbox' = [inbox EXCEPT ![e] =
                 [state |-> "processing", attempts |-> @.attempts + 1, live |-> TRUE]]
            /\ Become(w, [Top(w) EXCEPT !.pc = "handler",
                                        !.attempt = inbox[e].attempts + 1])
       ELSE Return(w, "skipped") /\ UNCHANGED inbox
    /\ UNCHANGED <<journal, lastSeq, outraced, faults>>

(* The fenced claim, see EventInbox. *)
Claim(w) ==
    LET e == Top(w).event IN
    /\ At(w, "claim")
    /\ IF inbox[e].state \in {"absent", "received", "deferred"} \/ Expired(e)
       THEN /\ inbox' = [inbox EXCEPT ![e] =
                 [state |-> "processing", attempts |-> @.attempts + 1, live |-> TRUE]]
            /\ Become(w, [Top(w) EXCEPT !.pc = "handler",
                                        !.attempt = inbox[e].attempts + 1])
       ELSE Return(w, "skipped") /\ UNCHANGED inbox
    /\ UNCHANGED <<journal, lastSeq, outraced, faults>>

HoldsLease(w) ==
    LET row == inbox[Top(w).event] IN
    row.state = "processing" /\ row.attempts = Top(w).attempt

(* The handler returns and complete follows. *)
Complete(w) ==
    LET e == Top(w).event IN
    /\ At(w, "handler")
    /\ IF HoldsLease(w)
       THEN /\ inbox' = [inbox EXCEPT ![e].state = "completed", ![e].live = FALSE]
            /\ Goto(w, "advance")
       ELSE Return(w, "fence_lost") /\ UNCHANGED inbox
    /\ UNCHANGED <<journal, lastSeq, outraced, faults>>

(* The handler raises and fail_attempt follows; its result is the state. *)
FailAttempt(w) ==
    LET f == Top(w)
        state == IF f.attempt >= MaxDeliver THEN "quarantined" ELSE "received"
    IN
    /\ At(w, "handler")
    /\ Spend("handler", MaxFailures)
    /\ inbox' = IF HoldsLease(w)
                THEN [inbox EXCEPT ![f.event].state = state, ![f.event].live = FALSE]
                ELSE inbox
    /\ Return(w, state)
    /\ UNCHANGED <<journal, lastSeq, outraced>>

(* After complete the watermark follows to the own seq. *)
Advance(w) ==
    LET s == seq[Top(w).event] IN
    /\ At(w, "advance")
    /\ IF s # NoSeq /\ AdvanceMatches(s) THEN lastSeq' = s ELSE UNCHANGED lastSeq
    /\ IF s # NoSeq /\ ~AdvanceMatches(s) THEN Raise(w) ELSE Return(w, "completed")
    /\ UNCHANGED <<journal, inbox, outraced, faults>>

-----------------------------------------------------------------------------
(* Environment *)

LoseWorker(w) ==
    /\ Running(w)
    /\ Spend("crash", MaxCrashes)
    /\ Raise(w)
    /\ UNCHANGED <<journal, inbox, lastSeq, outraced>>

Holder(e) ==
    \E w \in Workers : At(w, "handler") /\ Top(w).event = e /\ HoldsLease(w)

(* 120 s pass: the holder is gone, or it is slow. *)
LeaseExpires(e) ==
    /\ inbox[e].state = "processing" /\ inbox[e].live
    /\ inbox' = [inbox EXCEPT ![e].live = FALSE]
    /\ IF Holder(e) THEN Spend("slow", MaxSlow) ELSE UNCHANGED faults
    /\ UNCHANGED <<journal, lastSeq, stack, outraced>>

Publish == Record \/ PublisherBump \/ PublisherAssign

GateStep(w) ==
    \/ ScanRow(w) \/ ScanBump(w) \/ ScanAssign(w) \/ ScanPredecessors(w)
    \/ PassCompleted(w) \/ DeliverPredecessor(w) \/ EndOfScan(w)

DeliverStep(w) ==
    Defer(w) \/ Claim(w) \/ Complete(w) \/ FailAttempt(w) \/ Advance(w)

Next ==
    \/ Publish \/ PublisherStops
    \/ \E w \in Workers :
         \/ GateStep(w) \/ DeliverStep(w) \/ LoseWorker(w)
         \/ \E e \in Events : Deliver(w, e)
    \/ \E e \in Events : LeaseExpires(e)

Spec == Init /\ [][Next]_vars

(* The publisher and the workers go on, leases run out, and the sweep comes *)
(* back to every event.                                                     *)
Fairness ==
    /\ WF_vars(Publish)
    /\ \A w \in Workers : WF_vars(GateStep(w) \/ DeliverStep(w))
    /\ \A e \in Events :
         /\ WF_vars(LeaseExpires(e) /\ ~Holder(e))
         /\ SF_vars(e <= recorded /\ \E w \in Workers : Deliver(w, e))

FairSpec == Spec /\ Fairness

-----------------------------------------------------------------------------
(* Properties *)

States == {"absent", "received", "deferred", "processing",
           "completed", "quarantined"}

FramePCs == {"row", "bump", "assign", "preds", "loop", "defer",
             "claim", "handler", "advance"}

(* The state is well formed. *)
TypeOK ==
    /\ pub.pc \in {"idle", "bump", "assign"} /\ pub.seq \in Nat
    /\ recorded \in 0 .. N
    /\ seq \in [Events -> Nat]
    /\ counter \in Nat /\ lastSeq \in Nat
    /\ inbox \in [Events -> [state : States, attempts : Nat, live : BOOLEAN]]
    /\ \A w \in Workers :
         \A i \in DOMAIN stack[w] :
           /\ stack[w][i].event \in 1 .. recorded
           /\ stack[w][i].pc \in FramePCs
           /\ \A p \in stack[w][i].todo : p.event \in Events
    /\ unsequenced \subseteq Events /\ outraced \subseteq Events

(* Nothing is claimed before all earlier events of the scope are completed. *)
ClaimedInOrder ==
    \A m, n \in Events :
        m < n /\ inbox[n].attempts > 0 => inbox[m].state = "completed"

(* The publisher set the seq of every event it left and no gate was lost to *)
(* it: the case ADR-0002 4a describes.                                      *)
Regular == unsequenced = {} /\ outraced = {}

(* The gate keeps the order of the scope over wire, sweep, takeovers and    *)
(* quarantine, as long as the seqs were set undisturbed.                    *)
OrderedWhenRegular == Regular => ClaimedInOrder

(* The watermark passes completed events only, so no scan that starts above *)
(* it can miss an unfinished predecessor.                                   *)
WatermarkSound ==
    Regular => \A e \in Events :
        seq[e] # NoSeq /\ seq[e] <= lastSeq => inbox[e].state = "completed"

(* Two writers draw seqs from one counter and race to set them: an event    *)
(* keeps the first one it gets.                                             *)
SeqSetOnce == [][\A e \in Events : seq[e] # NoSeq => seq'[e] = seq[e]]_vars

(* ADR-0002, 4a: seq order is the order of insertion into the journal, as   *)
(* long as the publisher is not cut short, whoever wins the races.          *)
SeqFollowsJournal ==
    unsequenced = {} =>
        \A m, n \in Events :
            m < n /\ seq[n] # NoSeq => seq[m] # NoSeq /\ seq[m] < seq[n]

(* Without a quarantine every recorded event is completed in the end: no    *)
(* circle of calls that defer to one another, no event lost behind the      *)
(* watermark, whatever the races did to the seqs.                           *)
Drains == \A e \in Events : []<>(inbox[e].state = "completed")
=============================================================================
