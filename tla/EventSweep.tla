---------------------------- MODULE EventSweep ----------------------------
(* sweep_pending of voice_tracker/eventlog.py: the retry, forward and gap   *)
(* passes of one consumer over the journal, its cursor, rows that reach the *)
(* journal later than their createdAt says, and ticks that are cut short.   *)
(* deliver is one step with its possible results (EventInbox and            *)
(* OrderedDelivery model it).  Event ids are numbers: _id order.            *)
EXTENDS Naturals, FiniteSets

CONSTANTS
    N,           \* events
    Stuck,       \* events behind a quarantined predecessor: deferred for good
    Limit,       \* limit: deliveries of a pass
    ScanLimit,   \* scan_limit: rows of a page or window
    Gap,         \* gap_seconds
    MaxLate,     \* longest time from createdAt to the insert
    MaxPause,    \* longest time from one completed gap pass to the next
    MaxTime,     \* bound: the clock
    MaxFailures, \* bound: deliveries that end in received
    MaxAborts    \* bound: ticks cut short by a crash or an exception

Events == 1 .. N

ASSUME SweepConstants ==
    /\ N \in Nat /\ Stuck \subseteq Events
    /\ Limit \in Nat \ {0} /\ ScanLimit \in Nat \ {0}
    /\ Gap \in Nat /\ MaxLate \in Nat /\ MaxPause \in Nat
    /\ MaxTime \in Nat /\ MaxFailures \in Nat /\ MaxAborts \in Nat

VARIABLES
    now,     \* the clock, from 1
    created, \* createdAt of the events whose record() has read the clock, or 0
    journal, \* events with a row in event_log
    inbox,   \* "absent", "open" (received, deferred) or "settled"
    rank,    \* order in which the inbox rows were created
    cursor,  \* event_sweep_state: createdAt and _id, NoCursor when there is none
    tick,    \* the running tick
    covered, \* when the last completed gap pass read its window
    failures, aborts

vars == <<now, created, journal, inbox, rank, cursor, tick, covered,
          failures, aborts>>

NoCursor == [at |-> 0, id |-> 0]

IdleTick == [pc |-> "idle", todo |-> {}, page |-> {}, settled |-> {}, last |-> 0,
             budget |-> 0, delivered |-> 0, read |-> 0]

Init ==
    /\ now = 1
    /\ created = [e \in Events |-> 0]
    /\ journal = {}
    /\ inbox = [e \in Events |-> "absent"]
    /\ rank = [e \in Events |-> 0]
    /\ cursor = NoCursor
    /\ tick = IdleTick
    /\ covered = 1
    /\ failures = 0 /\ aborts = 0

-----------------------------------------------------------------------------
(* Publishers and the clock *)

(* record reads the clock first and inserts afterwards. *)
ReadClock(e) ==
    /\ created[e] = 0
    /\ created' = [created EXCEPT ![e] = now]
    /\ UNCHANGED <<now, journal, inbox, rank, cursor, tick, covered,
                   failures, aborts>>

Insert(e) ==
    /\ created[e] # 0 /\ e \notin journal
    /\ journal' = journal \cup {e}
    /\ UNCHANGED <<now, created, inbox, rank, cursor, tick, covered,
                   failures, aborts>>

(* No insert is later than MaxLate, no pause longer than MaxPause. *)
TimePasses ==
    /\ now < MaxTime
    /\ \A e \in Events : created[e] # 0 /\ e \notin journal => now - created[e] < MaxLate
    /\ now - covered < MaxPause
    /\ now' = now + 1
    /\ UNCHANGED <<created, journal, inbox, rank, cursor, tick, covered,
                   failures, aborts>>

-----------------------------------------------------------------------------
(* deliver *)

(* The row of event e after a delivery with the given result; a new row is  *)
(* the youngest of the inbox.                                               *)
Results(e) == IF inbox[e] = "settled" THEN {"settled"}
              ELSE IF e \in Stuck THEN {"open"}
              ELSE {"settled", "open"}

Deliver(e, result) ==
    /\ result \in Results(e)
    /\ inbox' = [inbox EXCEPT ![e] = result]
    /\ rank' = IF inbox[e] = "absent"
               THEN [rank EXCEPT ![e] =
                       1 + Cardinality({d \in Events : inbox[d] # "absent"})]
               ELSE rank
    /\ IF result = "open" /\ e \notin Stuck
       THEN failures < MaxFailures /\ failures' = failures + 1
       ELSE UNCHANGED failures

(* Results other than "skipped" and "deferred" count as delivered. *)
Counts(e) == IF inbox[e] = "settled" \/ e \in Stuck THEN 0 ELSE 1

(* A message on the wire, in any order and any number of times. *)
WireDelivers(e) ==
    /\ e \in journal /\ inbox[e] # "settled"
    /\ \E result \in {"settled", "open"} : Deliver(e, result)
    /\ UNCHANGED <<now, created, journal, cursor, tick, covered, aborts>>

-----------------------------------------------------------------------------
(* Orders and pages *)

Before(d, e) == created[d] < created[e] \/ (created[d] = created[e] /\ d < e)

PastCursor(e) ==
    created[e] > cursor.at \/ (created[e] = cursor.at /\ e > cursor.id)

(* The n rows of S that sort first by (createdAt, _id). *)
FirstRows(S, n) == {e \in S : Cardinality({d \in S : Before(d, e)}) < n}

(* The n rows of S whose inbox row is oldest. *)
Oldest(S, n) == {e \in S : Cardinality({d \in S : rank[d] < rank[e]}) < n}

IsNext(e) == e \in tick.todo /\ \A d \in tick.todo \ {e} : Before(e, d)

-----------------------------------------------------------------------------
(* The tick *)

(* Retry pass: the oldest unfinished inbox rows. *)
StartTick ==
    /\ tick.pc = "idle"
    /\ tick' = [IdleTick EXCEPT
         !.pc = "retry",
         !.todo = Oldest({e \in Events : inbox[e] = "open"}, Limit)]
    /\ UNCHANGED <<now, created, journal, inbox, rank, cursor, covered,
                   failures, aborts>>

Retry(e) ==
    /\ tick.pc = "retry" /\ e \in tick.todo
    /\ \A d \in tick.todo : rank[e] <= rank[d]
    /\ \E result \in {"settled", "open"} : Deliver(e, result)
    /\ tick' = [tick EXCEPT !.todo = @ \ {e}, !.delivered = @ + Counts(e)]
    /\ UNCHANGED <<now, created, journal, cursor, covered, aborts>>

(* Forward pass: a page of rows past the cursor, and which of them have a   *)
(* settled inbox row at that time.                                          *)
FetchPage ==
    LET page == FirstRows({e \in journal : PastCursor(e)}, ScanLimit) IN
    /\ tick.pc = "retry" /\ tick.todo = {}
    /\ tick' = [tick EXCEPT !.pc = "forward", !.todo = page, !.page = page,
                            !.settled = {e \in page : inbox[e] = "settled"},
                            !.budget = Limit]
    /\ UNCHANGED <<now, created, journal, inbox, rank, cursor, covered,
                   failures, aborts>>

(* Those are passed over, any other row costs budget. *)
Forward(e) ==
    /\ tick.pc = "forward" /\ IsNext(e)
    /\ IF e \in tick.settled
       THEN /\ tick' = [tick EXCEPT !.todo = @ \ {e}, !.last = e]
            /\ UNCHANGED <<inbox, rank, failures>>
       ELSE /\ tick.budget > 0
            /\ \E result \in {"settled", "open"} : Deliver(e, result)
            /\ tick' = [tick EXCEPT !.todo = @ \ {e}, !.last = e,
                                    !.budget = @ - 1, !.delivered = @ + Counts(e)]
    /\ UNCHANGED <<now, created, journal, cursor, covered, aborts>>

(* The page is done or the budget is spent: the cursor moves to the last    *)
(* row dealt with, never back (_save_position).                             *)
SavePosition ==
    /\ tick.pc = "forward"
    /\ \/ tick.todo = {}
       \/ tick.budget = 0 /\ \E e \in tick.todo : IsNext(e) /\ e \notin tick.settled
    /\ cursor' = IF tick.last # 0 /\ PastCursor(tick.last)
                 THEN [at |-> created[tick.last], id |-> tick.last]
                 ELSE cursor
    /\ tick' = [tick EXCEPT !.pc = "gap", !.todo = {}]
    /\ UNCHANGED <<now, created, journal, inbox, rank, covered, failures, aborts>>

InWindowBelow(e) == created[e] + Gap > cursor.at /\ created[e] < cursor.at

(* Gap pass: rows without an inbox row in the window below the new cursor.  *)
InWindow(e) == created[e] + Gap > cursor.at /\ created[e] <= cursor.at

ReadWindow ==
    LET window == FirstRows({e \in journal : InWindow(e)}, ScanLimit) IN
    /\ tick.pc = "gap"
    /\ tick' = [tick EXCEPT !.pc = "window", !.read = now,
         !.todo = IF cursor = NoCursor THEN {}
                  ELSE {e \in window \ tick.page : inbox[e] = "absent"}]
    /\ UNCHANGED <<now, created, journal, inbox, rank, cursor, covered,
                   failures, aborts>>

FillGap(e) ==
    /\ tick.pc = "window" /\ IsNext(e)
    /\ tick.delivered < Limit
    /\ \E result \in {"settled", "open"} : Deliver(e, result)
    /\ tick' = [tick EXCEPT !.todo = @ \ {e}, !.delivered = @ + Counts(e)]
    /\ UNCHANGED <<now, created, journal, cursor, covered, aborts>>

EndTick ==
    /\ tick.pc = "window"
    /\ tick.todo = {} \/ tick.delivered >= Limit
    /\ tick' = IdleTick
    /\ covered' = IF tick.todo = {} THEN tick.read ELSE covered
    /\ UNCHANGED <<now, created, journal, inbox, rank, cursor, failures, aborts>>

(* A crash, a database error or the duplicate key of an upsert. *)
AbortTick ==
    /\ tick.pc # "idle"
    /\ aborts < MaxAborts
    /\ aborts' = aborts + 1
    /\ tick' = IdleTick
    /\ UNCHANGED <<now, created, journal, inbox, rank, cursor, covered, failures>>

Sweep ==
    \/ StartTick \/ FetchPage \/ SavePosition \/ ReadWindow \/ EndTick
    \/ \E e \in Events : Retry(e) \/ Forward(e) \/ FillGap(e)

Next ==
    \/ Sweep \/ AbortTick \/ TimePasses
    \/ \E e \in Events : ReadClock(e) \/ Insert(e) \/ WireDelivers(e)

Spec == Init /\ [][Next]_vars

(* Only the sweep loop is owed progress: the wire may lose every message. *)
FairSpec == Spec /\ WF_vars(Sweep)

-----------------------------------------------------------------------------
(* Properties *)

Ticks == [pc : {"idle", "retry", "forward", "gap", "window"},
          todo : SUBSET Events, page : SUBSET Events, settled : SUBSET Events,
          last : 0 .. N, budget : 0 .. Limit, delivered : Nat, read : Nat]

(* The clock, the journal, the cursor and the tick are well formed. *)
TypeOK ==
    /\ now \in Nat /\ covered \in Nat /\ covered <= now
    /\ created \in [Events -> Nat]
    /\ \A e \in Events : created[e] <= now
    /\ journal \subseteq {e \in Events : created[e] # 0}
    /\ inbox \in [Events -> {"absent", "open", "settled"}]
    /\ rank \in [Events -> 0 .. N]
    /\ cursor \in [at : Nat, id : 0 .. N] /\ cursor.at <= now
    /\ tick \in Ticks
    /\ tick.page \subseteq journal /\ tick.read <= now
    /\ failures \in 0 .. MaxFailures /\ aborts \in 0 .. MaxAborts

(* A row that no pass will look at again: it is behind the cursor and below *)
(* the window, and has no inbox row.                                        *)
Forgotten(e) ==
    /\ e \in journal /\ inbox[e] = "absent"
    /\ ~PastCursor(e) /\ ~InWindow(e)
    /\ e \notin tick.todo

(* Late inserts, aborted ticks, equal createdAt and cursor moves between    *)
(* the reads of a tick never put a journal row out of the sweep's sight.    *)
NothingForgotten == \A e \in Events : ~Forgotten(e)

(* Every journalled event gets an inbox row, by the sweep alone. *)
EveryRowReached ==
    \A e \in Events : []<>(e \in journal => inbox[e] # "absent")

(* Every event that is not stuck is settled although others stay deferred:  *)
(* a quarantined predecessor stops its own scope, not the bus.              *)
OthersSettle ==
    \A e \in Events \ Stuck : []<>(e \in journal => inbox[e] = "settled")
=============================================================================
