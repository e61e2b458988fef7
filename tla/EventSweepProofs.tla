------------------------- MODULE EventSweepProofs -------------------------
(* Proofs about EventSweep, for any number of events: when the gap window   *)
(* is wider than the longest late insert plus the longest pause between gap *)
(* passes, no journal row gets out of the sweep's sight.                    *)
EXTENDS EventSweep, FiniteSetTheorems, TLAPS

(* A set of events that misses one of them has fewer than N. *)
LEMMA FewerThanN ==
    ASSUME NEW S \in SUBSET Events, NEW e \in Events, e \notin S
    PROVE  Cardinality(S) \in Nat /\ Cardinality(S) < N
<1>1. IsFiniteSet(Events) /\ Cardinality(Events) = N
  BY SweepConstants, FS_Interval DEF Events
<1>2. IsFiniteSet(S) /\ Cardinality(S) <= Cardinality(Events) /\ Cardinality(S) # Cardinality(Events)
  BY <1>1, FS_Subset
<1> QED
  BY <1>1, <1>2, FS_CardinalityType, SweepConstants

(* A scan limit of N rows cuts nothing off. *)
LEMMA AllRowsFirst ==
    ASSUME NEW S \in SUBSET Events, N <= ScanLimit, created \in [Events -> Nat]
    PROVE  FirstRows(S, ScanLimit) = S
<1> SUFFICES ASSUME NEW e \in S PROVE Cardinality({d \in S : Before(d, e)}) < ScanLimit
  BY DEF FirstRows
<1>1. e \in Events /\ e \in Nat /\ created[e] \in Nat
  BY SweepConstants DEF Events
<1>2. ~Before(e, e)
  BY <1>1 DEF Before
<1>3. {d \in S : Before(d, e)} \in SUBSET Events /\ e \notin {d \in S : Before(d, e)}
  BY <1>2
<1> QED
  BY <1>1, <1>3, FewerThanN, SweepConstants

(* The number of inbox rows, when event e has none. *)
LEMMA RankOfNewRow ==
    ASSUME NEW e \in Events, inbox[e] = "absent"
    PROVE  1 + Cardinality({d \in Events : inbox[d] # "absent"}) \in 0 .. N
<1>1. {d \in Events : inbox[d] # "absent"} \in SUBSET Events
      /\ e \notin {d \in Events : inbox[d] # "absent"}
  OBVIOUS
<1> QED
  BY <1>1, FewerThanN, SweepConstants

-----------------------------------------------------------------------------
(* The inductive invariant *)

Absent(e) == e \in journal /\ inbox[e] = "absent"

(* The row came in after time t. *)
Late(e, t) == created[e] + MaxLate >= t

(* Time bounds on publishers and sweep, as TimePasses keeps them. *)
Punctual ==
    /\ now - covered <= MaxPause
    /\ \A e \in Events : created[e] # 0 /\ e \notin journal => Late(e, now)

(* A row without inbox row behind the cursor came in after the last gap     *)
(* pass read its window.                                                    *)
BehindCursorIsLate ==
    \A e \in Events : Absent(e) /\ ~PastCursor(e) => Late(e, covered)

(* While the forward pass works, its page holds what is past the cursor but *)
(* came in later, and the rows still to do sort after the last one done.    *)
PageInOrder ==
    /\ tick.pc = "retry" => tick.last = 0
    /\ tick.pc = "forward" =>
         /\ tick.todo \subseteq tick.page
         /\ \A e \in tick.settled : inbox[e] = "settled"
         /\ \A e \in tick.page : PastCursor(e) /\ (e \in tick.todo \/ inbox[e] # "absent")
         /\ \A e \in Events : Absent(e) /\ PastCursor(e) => e \in tick.todo \/ Late(e, covered)
         /\ tick.last # 0 =>
              tick.last \in tick.page /\ \A e \in tick.todo : Before(tick.last, e)

(* Afterwards the rows of the page that were not dealt with are past the    *)
(* new cursor, so leaving them out of the window loses nothing.             *)
PageLeftPastCursor ==
    tick.pc \in {"gap", "window"} =>
        \A e \in tick.page : inbox[e] # "absent" \/ PastCursor(e)

(* What is behind the cursor and not in the window came in after the read.  *)
WindowComplete ==
    tick.pc = "window" =>
        /\ covered <= tick.read /\ tick.read <= now
        /\ \A e \in Events :
             Absent(e) /\ ~PastCursor(e) => e \in tick.todo \/ Late(e, tick.read)

SweepInv ==
    /\ TypeOK
    /\ Punctual
    /\ BehindCursorIsLate
    /\ PageInOrder
    /\ PageLeftPastCursor
    /\ WindowComplete

-----------------------------------------------------------------------------

(* The state stays well formed. *)
LEMMA SweepTypes ==
    ASSUME TypeOK, WindowComplete, [Next]_vars
    PROVE  TypeOK'
<1> USE SweepConstants
<1> USE DEF Events, TypeOK, WindowComplete
<1>1. ASSUME NEW e \in Events, ReadClock(e) PROVE TypeOK'
  <2>1. created' \in [Events -> Nat] /\ \A d \in Events : created'[d] <= now
    BY <1>1 DEF ReadClock
  <2>2. journal \subseteq {d \in Events : created'[d] # 0}
    BY <1>1 DEF ReadClock
  <2> QED
    BY <1>1, <2>1, <2>2 DEF ReadClock
<1>2. ASSUME NEW e \in Events, Insert(e) PROVE TypeOK'
  BY <1>2 DEF Insert
<1>3. CASE TimePasses
  <2>1. now' \in Nat /\ \A n \in Nat : n <= now => n <= now'
    BY <1>3 DEF TimePasses
  <2>2. tick.read \in Nat
    BY DEF Ticks
  <2> QED
    BY <1>3, <2>1, <2>2 DEF TimePasses
<1>4. ASSUME NEW e \in Events, WireDelivers(e) PROVE TypeOK'
  <2>1. inbox' \in [Events -> {"absent", "open", "settled"}]
    BY <1>4 DEF WireDelivers, Deliver, Results
  <2>2. rank' \in [Events -> 0 .. N]
    BY <1>4, RankOfNewRow DEF WireDelivers, Deliver, Results
  <2>3. failures' \in 0 .. MaxFailures
    BY SMTT(30), <1>4 DEF WireDelivers, Deliver, Results
  <2>4. tick.delivered + Counts(e) \in Nat
    BY DEF Counts, Ticks
  <2>5. tick.todo \ {e} \in SUBSET Events
    BY DEF Ticks
  <2>6. tick' \in Ticks
    BY <1>4, <2>4, <2>5 DEF WireDelivers, Ticks
  <2>7. tick'.page = tick.page /\ tick'.read = tick.read
    BY <1>4 DEF WireDelivers, Ticks
  <2> QED
    BY <1>4, <2>1, <2>2, <2>3, <2>6, <2>7 DEF WireDelivers
<1>5. CASE StartTick
  <2>1. IdleTick \in Ticks
    BY DEF IdleTick, Ticks
  <2>2. tick'.todo \in SUBSET Events /\ tick' = [IdleTick EXCEPT !.pc = "retry", !.todo = tick'.todo]
    BY <1>5 DEF StartTick, IdleTick, Oldest
  <2>3. tick' \in Ticks /\ tick'.page = {} /\ tick'.read = 0
    BY <2>1, <2>2 DEF IdleTick, Ticks
  <2>4. UNCHANGED <<now, created, journal, inbox, rank, cursor, covered, failures, aborts>>
    BY <1>5 DEF StartTick
  <2> QED
    BY SMTT(30), <2>3, <2>4
<1>6. ASSUME NEW e \in Events, Retry(e) PROVE TypeOK'
  <2>1. inbox' \in [Events -> {"absent", "open", "settled"}]
    BY <1>6 DEF Retry, Deliver, Results
  <2>2. rank' \in [Events -> 0 .. N]
    BY <1>6, RankOfNewRow DEF Retry, Deliver, Results
  <2>3. failures' \in 0 .. MaxFailures
    BY SMTT(30), <1>6 DEF Retry, Deliver, Results
  <2>4. tick.delivered + Counts(e) \in Nat
    BY DEF Counts, Ticks
  <2>5. tick.todo \ {e} \in SUBSET Events
    BY DEF Ticks
  <2>6. tick' \in Ticks
    BY <1>6, <2>4, <2>5 DEF Retry, Ticks
  <2>7. tick'.page = tick.page /\ tick'.read = tick.read
    BY <1>6 DEF Retry, Ticks
  <2> QED
    BY <1>6, <2>1, <2>2, <2>3, <2>6, <2>7 DEF Retry
<1>7. CASE FetchPage
  <2>1. PICK page \in SUBSET journal : tick' =
           [tick EXCEPT !.pc = "forward", !.todo = page, !.page = page,
                           !.settled = {e \in page : inbox[e] = "settled"}, !.budget = Limit]
    BY <1>7 DEF FetchPage, FirstRows
  <2>2. page \in SUBSET Events /\ Limit \in 0 .. Limit
    <3>1. page \subseteq journal /\ journal \subseteq Events
      BY <2>1
    <3>2. Limit \in Nat
      BY SweepConstants
    <3> HIDE SweepConstants
    <3> HIDE DEF Events, TypeOK, WindowComplete
    <3> QED
      BY <3>1, <3>2
  <2>3. tick' \in Ticks
    BY <2>1, <2>2 DEF Ticks
  <2>4. tick'.page = page /\ tick'.read = tick.read
    BY <2>1 DEF Ticks
  <2> QED
    BY <1>7, <2>1, <2>3, <2>4 DEF FetchPage
<1>8. ASSUME NEW e \in Events, Forward(e) PROVE TypeOK'
  <2>1. inbox' \in [Events -> {"absent", "open", "settled"}]
    BY <1>8 DEF Forward, Deliver, Results, IsNext
  <2>2. rank' \in [Events -> 0 .. N]
    BY <1>8, RankOfNewRow DEF Forward, Deliver, Results, IsNext
  <2>3. failures' \in 0 .. MaxFailures
    BY SMTT(30), <1>8 DEF Forward, Deliver, Results, IsNext
  <2>4. tick.delivered + Counts(e) \in Nat /\ tick.budget \in 0 .. Limit
    BY DEF Counts, Ticks
  <2>5. tick.todo \ {e} \in SUBSET Events /\ e \in 0 .. N
    BY DEF Ticks
  <2>6. \E b \in 0 .. Limit, d \in Nat :
          tick' = [tick EXCEPT !.todo = @ \ {e}, !.last = e, !.budget = b, !.delivered = d]
    <3>1. CASE e \in tick.settled
      <4>1. tick' = [tick EXCEPT !.todo = @ \ {e}, !.last = e, !.budget = tick.budget,
                                 !.delivered = tick.delivered]
        BY <1>8, <3>1 DEF Forward, Ticks
      <4>2. tick.delivered \in Nat
        BY DEF Ticks
      <4> QED
        BY <2>4, <4>1, <4>2
    <3>2. CASE e \notin tick.settled
      <4>1. tick' = [tick EXCEPT !.todo = @ \ {e}, !.last = e, !.budget = @ - 1,
                                 !.delivered = @ + Counts(e)]
        BY <1>8, <3>2 DEF Forward
      <4>2. tick.budget > 0
        BY <1>8, <3>2 DEF Forward
      <4>3. tick.budget - 1 \in 0 .. Limit
        BY SMTT(30), <2>4, <4>2
      <4> QED
        BY <2>4, <4>1, <4>3
    <3> QED
      BY <3>1, <3>2
  <2>7. PICK b \in 0 .. Limit, d \in Nat :
          tick' = [tick EXCEPT !.todo = @ \ {e}, !.last = e, !.budget = b, !.delivered = d]
    BY <2>6
  <2>8. tick' \in Ticks
    <3> HIDE DEF Events, TypeOK
    <3>1. tick \in Ticks
      BY DEF TypeOK
    <3> QED
      BY <2>5, <2>7, <3>1 DEF Ticks
  <2>9. tick'.page = tick.page /\ tick'.read = tick.read
    BY <2>7 DEF Ticks
  <2> QED
    BY <1>8, <2>1, <2>2, <2>3, <2>8, <2>9 DEF Forward
<1>9. CASE SavePosition
  <2>1. tick' \in Ticks /\ tick'.page = tick.page /\ tick'.read = tick.read
    BY <1>9 DEF SavePosition, Ticks
  <2>2. tick.last \in 0 .. N
    BY DEF Ticks
  <2>3. cursor' \in [at : Nat, id : 0 .. N] /\ cursor'.at <= now
    BY SMTT(30), <1>9, <2>2 DEF SavePosition
  <2> QED
    BY <1>9, <2>1, <2>3 DEF SavePosition
<1>10. CASE ReadWindow
  <2>1. tick' \in Ticks
    BY <1>10 DEF ReadWindow, FirstRows, Ticks
  <2>2. tick'.page \subseteq journal /\ tick'.read <= now
    BY SMTT(30), <1>10 DEF ReadWindow, FirstRows, Ticks
  <2> QED
    BY <1>10, <2>1, <2>2 DEF ReadWindow
<1>11. ASSUME NEW e \in Events, FillGap(e) PROVE TypeOK'
  <2>1. inbox' \in [Events -> {"absent", "open", "settled"}]
    BY <1>11 DEF FillGap, Deliver, Results, IsNext
  <2>2. rank' \in [Events -> 0 .. N]
    BY <1>11, RankOfNewRow DEF FillGap, Deliver, Results, IsNext
  <2>3. failures' \in 0 .. MaxFailures
    BY SMTT(30), <1>11 DEF FillGap, Deliver, Results, IsNext
  <2>4. tick.delivered + Counts(e) \in Nat
    BY DEF Counts, Ticks
  <2>5. tick.todo \ {e} \in SUBSET Events
    BY DEF Ticks
  <2>6. tick' \in Ticks
    BY <1>11, <2>4, <2>5 DEF FillGap, Ticks
  <2>7. tick'.page = tick.page /\ tick'.read = tick.read
    BY <1>11 DEF FillGap, Ticks
  <2> QED
    BY <1>11, <2>1, <2>2, <2>3, <2>6, <2>7 DEF FillGap
<1>12. CASE EndTick
  <2>1. tick' \in Ticks /\ tick'.page = {} /\ tick'.read = 0
    BY <1>12 DEF EndTick, IdleTick, Ticks
  <2>2. covered' \in Nat /\ covered' <= now
    BY <1>12 DEF EndTick, Ticks
  <2> QED
    BY SMTT(30), <1>12, <2>1, <2>2 DEF EndTick
<1>13. CASE AbortTick
  <2>1. tick' \in Ticks
    BY <1>13 DEF AbortTick, IdleTick, Ticks
  <2>2. tick'.page \subseteq journal /\ tick'.read <= now
    BY <1>13 DEF AbortTick, IdleTick, Ticks
  <2> QED
    BY <1>13, <2>1, <2>2 DEF AbortTick
<1>14. CASE UNCHANGED vars
  BY <1>14 DEF vars
<1> QED
  BY <1>1, <1>2, <1>3, <1>4, <1>5, <1>6, <1>7, <1>8, <1>9, <1>10, <1>11, <1>12, <1>13, <1>14 DEF Next, Sweep

(* The clock waits for inserts and gap passes that are due. *)
LEMMA SweepPunctual ==
    ASSUME Punctual, TypeOK, WindowComplete, [Next]_vars
    PROVE  Punctual'
<1> USE SweepConstants
<1> USE DEF Events, TypeOK, Punctual, WindowComplete, Late
<1>1. ASSUME NEW e \in Events, ReadClock(e) PROVE Punctual'
  BY SMTT(30), <1>1 DEF ReadClock
<1>2. ASSUME NEW e \in Events, Insert(e) PROVE Punctual'
  BY <1>2 DEF Insert
<1>3. CASE TimePasses
  BY SMTT(30), <1>3 DEF TimePasses
<1>4. ASSUME NEW e \in Events, WireDelivers(e) PROVE Punctual'
  BY <1>4 DEF WireDelivers, Deliver, Results
<1>5. CASE StartTick
  BY <1>5 DEF StartTick, IdleTick, Oldest
<1>6. ASSUME NEW e \in Events, Retry(e) PROVE Punctual'
  BY <1>6 DEF Retry, Deliver, Results, Counts
<1>7. CASE FetchPage
  BY <1>7 DEF FetchPage
<1>8. ASSUME NEW e \in Events, Forward(e) PROVE Punctual'
  BY <1>8 DEF Forward, Deliver, Results, Counts, IsNext
<1>9. CASE SavePosition
  BY <1>9 DEF SavePosition
<1>10. CASE ReadWindow
  BY <1>10 DEF ReadWindow
<1>11. ASSUME NEW e \in Events, FillGap(e) PROVE Punctual'
  BY <1>11 DEF FillGap, Deliver, Results, Counts
<1>12. CASE EndTick
  <2>1. tick.pc = "window" /\ covered' \in {covered, tick.read}
        /\ UNCHANGED <<now, created, journal>>
    BY <1>12 DEF EndTick
  <2>2. now \in Nat /\ covered \in Nat /\ tick.read \in Nat
    BY DEF Ticks
  <2>3. MaxPause \in Nat /\ covered <= tick.read /\ now - covered <= MaxPause
    BY <2>1
  <2>4. now - covered' <= MaxPause
    <3> HIDE DEF Events, TypeOK, Punctual, WindowComplete
    <3>1. CASE covered' = covered
      BY <2>3, <3>1
    <3>2. CASE covered' = tick.read
      BY <2>2, <2>3, <3>2
    <3> QED
      BY <2>1, <3>1, <3>2
  <2> HIDE DEF Late
  <2>5. \A e \in Events : Late(e, now)' <=> Late(e, now)
    BY <2>1 DEF Late
  <2> QED
    BY <2>1, <2>4, <2>5
<1>13. CASE AbortTick
  BY <1>13 DEF AbortTick, IdleTick
<1>14. CASE UNCHANGED vars
  BY <1>14 DEF vars
<1> QED
  BY <1>1, <1>2, <1>3, <1>4, <1>5, <1>6, <1>7, <1>8, <1>9, <1>10, <1>11, <1>12, <1>13, <1>14 DEF Next, Sweep

(* The cursor moves over rows with an inbox row or late ones. *)
LEMMA SweepBehind ==
    ASSUME BehindCursorIsLate, TypeOK, Punctual, PageInOrder, WindowComplete, [Next]_vars
    PROVE  BehindCursorIsLate'
<1> USE SweepConstants
<1> USE DEF Events, TypeOK, BehindCursorIsLate, Punctual, PageInOrder, WindowComplete, Absent, Late, PastCursor
<1>1. ASSUME NEW e \in Events, ReadClock(e) PROVE BehindCursorIsLate'
  BY <1>1 DEF ReadClock
<1>2. ASSUME NEW e \in Events, Insert(e) PROVE BehindCursorIsLate'
  BY SMTT(30), <1>2 DEF Insert
<1>3. CASE TimePasses
  BY <1>3 DEF TimePasses
<1>4. ASSUME NEW e \in Events, WireDelivers(e) PROVE BehindCursorIsLate'
  BY <1>4 DEF WireDelivers, Deliver, Results
<1>5. CASE StartTick
  BY <1>5 DEF StartTick, IdleTick, Oldest
<1>6. ASSUME NEW e \in Events, Retry(e) PROVE BehindCursorIsLate'
  BY <1>6 DEF Retry, Deliver, Results, Counts
<1>7. CASE FetchPage
  BY <1>7 DEF FetchPage
<1>8. ASSUME NEW e \in Events, Forward(e) PROVE BehindCursorIsLate'
  BY <1>8 DEF Forward, Deliver, Results, Counts, IsNext
<1>9. CASE SavePosition
  <2>1. tick.pc = "forward" /\ tick'.page = tick.page /\ tick'.pc = "gap"
        /\ tick.todo \subseteq tick.page /\ tick.page \subseteq Events /\ tick.last \in 0 .. N
    BY <1>9 DEF SavePosition, Ticks
  <2>2. UNCHANGED <<created, inbox, journal, covered>>
    BY <1>9 DEF SavePosition
  <2>3. CASE tick.last # 0 /\ PastCursor(tick.last)
    <3>1. cursor' = [at |-> created[tick.last], id |-> tick.last] /\ tick.last \in Events
      BY <1>9, <2>1, <2>3 DEF SavePosition
    <3>2. ASSUME NEW e \in tick.todo
          PROVE  created[e] > created[tick.last]
                 \/ (created[e] = created[tick.last] /\ e > tick.last)
      BY <2>1, <2>3, <3>1, <3>2 DEF Before
    <3>3. cursor'.at = created[tick.last] /\ cursor'.id = tick.last
      BY <3>1
    <3>4. SUFFICES ASSUME NEW e \in Events, Absent(e), ~PastCursor(e)', PastCursor(e)
                   PROVE  Late(e, covered)
      BY <2>2
    <3>5. e \notin tick.todo
      BY <2>2, <3>2, <3>3, <3>4
    <3> QED
      BY <2>1, <3>4, <3>5
  <2>4. CASE ~(tick.last # 0 /\ PastCursor(tick.last))
    <3>1. cursor' = cursor
      BY <1>9, <2>4 DEF SavePosition
    <3> QED
      BY <2>2, <3>1
  <2> QED
    BY <2>3, <2>4
<1>10. CASE ReadWindow
  BY <1>10 DEF ReadWindow
<1>11. ASSUME NEW e \in Events, FillGap(e) PROVE BehindCursorIsLate'
  BY <1>11 DEF FillGap, Deliver, Results, Counts
<1>12. CASE EndTick
  <2>1. UNCHANGED <<created, journal, inbox, cursor>> /\ tick.pc = "window"
        /\ covered' \in {covered, tick.read} /\ (covered' # covered => tick.todo = {})
    BY <1>12 DEF EndTick
  <2>2. ASSUME NEW e \in Events, Absent(e), ~PastCursor(e) PROVE Late(e, covered')
    BY <2>1, <2>2
  <2> HIDE DEF Late
  <2>3. \A e \in Events : Late(e, covered)' <=> Late(e, covered')
    BY <2>1 DEF Late
  <2> QED
    BY <2>1, <2>2, <2>3
<1>13. CASE AbortTick
  BY <1>13 DEF AbortTick, IdleTick
<1>14. CASE UNCHANGED vars
  BY <1>14 DEF vars
<1> QED
  BY <1>1, <1>2, <1>3, <1>4, <1>5, <1>6, <1>7, <1>8, <1>9, <1>10, <1>11, <1>12, <1>13, <1>14 DEF Next, Sweep

(* The page is worked off in order. *)
LEMMA SweepPage ==
    ASSUME PageInOrder, TypeOK, Punctual, [Next]_vars,
           N <= ScanLimit
    PROVE  PageInOrder'
<1> USE SweepConstants
<1> USE DEF Events, TypeOK, PageInOrder, Punctual, Absent, Late, PastCursor, Before
<1>1. ASSUME NEW e \in Events, ReadClock(e) PROVE PageInOrder'
  <2>1. e \notin journal /\ created' = [created EXCEPT ![e] = now]
        /\ UNCHANGED <<journal, inbox, cursor, tick, covered>>
    BY <1>1 DEF ReadClock
  <2>2. \A d \in Events : d # e => created'[d] = created[d]
    BY <2>1
  <2> SUFFICES ASSUME tick.pc = "forward" PROVE PageInOrder'
    BY <2>1
  <2>3. tick.page \subseteq journal /\ tick.todo \subseteq tick.page /\ e \notin tick.page
    BY <2>1
  <2>4. tick.last # 0 => tick.last \in Events /\ tick.last # e
    BY <2>1, <2>3
  <2>5. \A d \in Events : PastCursor(d)' /\ d # e => PastCursor(d)
    BY <2>1, <2>2
  <2>6. \A d \in Events : PastCursor(d) /\ d # e => PastCursor(d)'
    BY <2>1, <2>2
  <2>7. \A d \in tick.page : d \in Events /\ d # e
    BY <2>3
  <2> QED
    BY SMTT(30), <2>1, <2>2, <2>3, <2>4, <2>5, <2>6, <2>7
<1>2. ASSUME NEW e \in Events, Insert(e) PROVE PageInOrder'
  BY SMTT(30), <1>2 DEF Insert
<1>3. CASE TimePasses
  BY <1>3 DEF TimePasses
<1>4. ASSUME NEW e \in Events, WireDelivers(e) PROVE PageInOrder'
  BY <1>4 DEF WireDelivers, Deliver, Results
<1>5. CASE StartTick
  BY <1>5 DEF StartTick, IdleTick, Oldest
<1>6. ASSUME NEW e \in Events, Retry(e) PROVE PageInOrder'
  <2>1. tick'.pc = tick.pc /\ tick'.last = tick.last /\ tick.pc # "forward"
    BY <1>6 DEF Retry, Ticks
  <2> QED
    BY <2>1
<1>7. CASE FetchPage
  <2>1. FirstRows({e \in journal : PastCursor(e)}, ScanLimit) = {e \in journal : PastCursor(e)}
    <3> HIDE DEF Events, Before, PastCursor
    <3>1. {e \in journal : PastCursor(e)} \in SUBSET Events
      OBVIOUS
    <3> QED
      BY <3>1, AllRowsFirst
  <2>2. tick' = [tick EXCEPT !.pc = "forward", !.todo = {e \in journal : PastCursor(e)},
          !.page = {e \in journal : PastCursor(e)},
          !.settled = {e \in {d \in journal : PastCursor(d)} : inbox[e] = "settled"},
          !.budget = Limit]
        /\ UNCHANGED <<created, journal, inbox, cursor, covered>>
    BY <1>7, <2>1 DEF FetchPage
  <2>3. tick'.todo = {e \in journal : PastCursor(e)} /\ tick'.page = tick'.todo
        /\ tick'.last = tick.last /\ \A e \in tick'.settled : inbox[e] = "settled"
    BY <2>2 DEF Ticks
  <2>4. tick.last = 0
    BY <1>7 DEF FetchPage
  <2> QED
    BY SMTT(30), <2>2, <2>3, <2>4
<1>8. ASSUME NEW e \in Events, Forward(e) PROVE PageInOrder'
  <2>1. tick'.todo = tick.todo \ {e} /\ tick'.last = e /\ tick'.page = tick.page
        /\ tick.pc = "forward" /\ tick'.pc = "forward"
        /\ tick'.settled = tick.settled /\ tick.settled \subseteq Events
    BY ZenonT(40), <1>8 DEF Forward, Ticks
  <2>2. UNCHANGED <<created, journal, cursor, covered>> /\ inbox'[e] # "absent"
        /\ (inbox[e] = "settled" => inbox'[e] = "settled")
        /\ \A d \in Events : d # e => inbox'[d] = inbox[d]
    BY <1>8 DEF Forward, Deliver, Results
  <2>3. e \in tick.todo /\ \A d \in tick.todo \ {e} : Before(e, d)
    BY <1>8 DEF Forward, IsNext
  <2>4. tick.page \subseteq Events
    BY DEF Ticks
  <2> HIDE DEF Before, PastCursor, Late
  <2>5. \A d \in Events : (PastCursor(d)' <=> PastCursor(d)) /\ (Late(d, covered)' <=> Late(d, covered))
    BY <2>2 DEF PastCursor, Late
  <2>6. \A d \in tick.todo : Before(e, d)' <=> Before(e, d)
    BY <2>2 DEF Before
  <2> QED
    BY <2>1, <2>2, <2>3, <2>4, <2>5, <2>6
<1>9. CASE SavePosition
  BY <1>9 DEF SavePosition
<1>10. CASE ReadWindow
  BY <1>10 DEF ReadWindow
<1>11. ASSUME NEW e \in Events, FillGap(e) PROVE PageInOrder'
  <2>1. tick'.pc = tick.pc /\ tick'.last = tick.last /\ tick.pc # "forward"
    BY <1>11 DEF FillGap, Ticks
  <2> QED
    BY <2>1
<1>12. CASE EndTick
  BY <1>12 DEF EndTick, IdleTick
<1>13. CASE AbortTick
  BY <1>13 DEF AbortTick, IdleTick
<1>14. CASE UNCHANGED vars
  BY <1>14 DEF vars
<1> QED
  BY <1>1, <1>2, <1>3, <1>4, <1>5, <1>6, <1>7, <1>8, <1>9, <1>10, <1>11, <1>12, <1>13, <1>14 DEF Next, Sweep

(* What the forward pass leaves is past the cursor it saves. *)
LEMMA SweepLeft ==
    ASSUME PageLeftPastCursor, TypeOK, PageInOrder, [Next]_vars
    PROVE  PageLeftPastCursor'
<1> USE SweepConstants
<1> USE DEF Events, TypeOK, PageLeftPastCursor, PageInOrder, PastCursor, Before
<1>1. ASSUME NEW e \in Events, ReadClock(e) PROVE PageLeftPastCursor'
  BY <1>1 DEF ReadClock
<1>2. ASSUME NEW e \in Events, Insert(e) PROVE PageLeftPastCursor'
  BY <1>2 DEF Insert
<1>3. CASE TimePasses
  BY <1>3 DEF TimePasses
<1>4. ASSUME NEW e \in Events, WireDelivers(e) PROVE PageLeftPastCursor'
  BY <1>4 DEF WireDelivers, Deliver, Results
<1>5. CASE StartTick
  BY <1>5 DEF StartTick, IdleTick, Oldest
<1>6. ASSUME NEW e \in Events, Retry(e) PROVE PageLeftPastCursor'
  <2>1. tick'.pc = "retry"
    BY <1>6 DEF Retry, Ticks
  <2> QED
    BY <2>1
<1>7. CASE FetchPage
  BY <1>7 DEF FetchPage
<1>8. ASSUME NEW e \in Events, Forward(e) PROVE PageLeftPastCursor'
  <2>1. tick'.pc = "forward"
    BY <1>8 DEF Forward, Ticks
  <2> QED
    BY <2>1
<1>9. CASE SavePosition
  <2>1. tick.pc = "forward" /\ tick'.page = tick.page /\ tick'.pc = "gap"
        /\ tick.todo \subseteq tick.page /\ tick.page \subseteq Events /\ tick.last \in 0 .. N
    BY <1>9 DEF SavePosition, Ticks
  <2>2. UNCHANGED <<created, inbox, journal, covered>>
    BY <1>9 DEF SavePosition
  <2>3. CASE tick.last # 0 /\ PastCursor(tick.last)
    <3>1. cursor' = [at |-> created[tick.last], id |-> tick.last] /\ tick.last \in Events
      BY <1>9, <2>1, <2>3 DEF SavePosition
    <3>2. ASSUME NEW e \in tick.todo
          PROVE  created[e] > created[tick.last]
                 \/ (created[e] = created[tick.last] /\ e > tick.last)
      BY <2>1, <2>3, <3>1, <3>2 DEF Before
    <3>3. cursor'.at = created[tick.last] /\ cursor'.id = tick.last
      BY <3>1
    <3>4. \A e \in tick.todo : PastCursor(e)'
      BY <2>2, <3>2, <3>3
    <3> QED
      BY <2>1, <2>2, <3>4
  <2>4. CASE ~(tick.last # 0 /\ PastCursor(tick.last))
    <3>1. cursor' = cursor
      BY <1>9, <2>4 DEF SavePosition
    <3> QED
      BY <2>1, <2>2, <3>1
  <2> QED
    BY <2>3, <2>4
<1>10. CASE ReadWindow
  BY SMTT(30), <1>10 DEF ReadWindow
<1>11. ASSUME NEW e \in Events, FillGap(e) PROVE PageLeftPastCursor'
  <2>1. \A d \in Events : inbox[d] # "absent" => inbox'[d] # "absent"
    BY <1>11 DEF FillGap, Deliver, Results
  <2>2. UNCHANGED <<created, cursor>> /\ tick'.pc = tick.pc /\ tick'.page = tick.page
    BY <1>11 DEF FillGap, Ticks
  <2> QED
    BY <2>1, <2>2 DEF Ticks
<1>12. CASE EndTick
  BY <1>12 DEF EndTick, IdleTick
<1>13. CASE AbortTick
  BY <1>13 DEF AbortTick, IdleTick
<1>14. CASE UNCHANGED vars
  BY <1>14 DEF vars
<1> QED
  BY <1>1, <1>2, <1>3, <1>4, <1>5, <1>6, <1>7, <1>8, <1>9, <1>10, <1>11, <1>12, <1>13, <1>14 DEF Next, Sweep

(* The window holds what the cursor left behind. *)
LEMMA SweepWindow ==
    ASSUME WindowComplete, TypeOK, Punctual, BehindCursorIsLate, PageLeftPastCursor, [Next]_vars,
           N <= ScanLimit, MaxPause + MaxLate < Gap
    PROVE  WindowComplete'
<1> USE SweepConstants
<1> USE DEF Events, TypeOK, WindowComplete, Punctual, BehindCursorIsLate, PageLeftPastCursor, Absent, Late, PastCursor
<1>1. ASSUME NEW e \in Events, ReadClock(e) PROVE WindowComplete'
  BY <1>1 DEF ReadClock
<1>2. ASSUME NEW e \in Events, Insert(e) PROVE WindowComplete'
  <2>1. journal' = journal \cup {e} /\ created[e] # 0 /\ e \notin journal
        /\ UNCHANGED <<now, created, inbox, cursor, tick, covered>>
    BY <1>2 DEF Insert
  <2> SUFFICES ASSUME tick.pc = "window" PROVE WindowComplete'
    BY <2>1
  <2>2. now \in Nat /\ tick.read \in Nat /\ created[e] \in Nat /\ tick.read <= now
    BY DEF Ticks
  <2>3. Late(e, tick.read)
    <3>1. now - created[e] <= MaxLate
      BY SMTT(30), <2>1 DEF Punctual
    <3> HIDE DEF TypeOK, Events, WindowComplete, Punctual, BehindCursorIsLate, PageLeftPastCursor
    <3> QED
      BY <2>1, <2>2, <3>1 DEF Late
  <2> HIDE DEF PastCursor, Late
  <2>4. \A d \in Events : (PastCursor(d)' <=> PastCursor(d))
                          /\ (Late(d, tick.read)' <=> Late(d, tick.read))
    BY <2>1 DEF PastCursor, Late
  <2> QED
    BY <2>1, <2>3, <2>4
<1>3. CASE TimePasses
  <2>1. now' = now + 1 /\ UNCHANGED <<created, journal, inbox, cursor, tick, covered>>
    BY <1>3 DEF TimePasses
  <2>2. now \in Nat /\ tick.read \in Nat
    BY DEF Ticks
  <2> QED
    BY <2>1, <2>2
<1>4. ASSUME NEW e \in Events, WireDelivers(e) PROVE WindowComplete'
  BY <1>4 DEF WireDelivers, Deliver, Results
<1>5. CASE StartTick
  BY <1>5 DEF StartTick, IdleTick, Oldest
<1>6. ASSUME NEW e \in Events, Retry(e) PROVE WindowComplete'
  <2>1. tick'.pc = "retry"
    BY <1>6 DEF Retry, Ticks
  <2> QED
    BY <2>1
<1>7. CASE FetchPage
  BY <1>7 DEF FetchPage
<1>8. ASSUME NEW e \in Events, Forward(e) PROVE WindowComplete'
  <2>1. tick'.pc = "forward"
    BY <1>8 DEF Forward, Ticks
  <2> QED
    BY <2>1
<1>9. CASE SavePosition
  BY <1>9 DEF SavePosition
<1>10. CASE ReadWindow
  <2> DEFINE below == {e \in journal : InWindow(e)}
  <2>1. FirstRows(below, ScanLimit) = below
    <3> HIDE DEF Events, InWindow
    <3>1. below \in SUBSET Events
      OBVIOUS
    <3> QED
      BY <3>1, AllRowsFirst
  <2>2. UNCHANGED <<now, created, journal, inbox, cursor, covered>> /\ tick'.read = now
        /\ tick'.todo = IF cursor = NoCursor THEN {}
                        ELSE {e \in below \ tick.page : inbox[e] = "absent"}
    BY <1>10, <2>1 DEF ReadWindow, Ticks
  <2>3. now \in Nat /\ covered \in Nat /\ cursor.at \in Nat /\ tick.pc = "gap"
    BY <1>10 DEF ReadWindow
  <2>4. ASSUME NEW e \in Events, Absent(e), ~PastCursor(e) PROVE e \in tick'.todo
    <3>1. created[e] \in Nat /\ created[e] # 0 /\ created[e] <= cursor.at
      BY <2>3, <2>4
    <3>2. cursor # NoCursor
      BY <3>1 DEF NoCursor
    <3>3. created[e] + MaxLate >= covered
      BY <2>4
    <3>4. created[e] + Gap > cursor.at
      BY <2>3, <3>1, <3>3
    <3>5. e \in below /\ e \notin tick.page
      BY <2>3, <2>4, <3>1, <3>4 DEF InWindow
    <3> QED
      BY <2>2, <2>4, <3>2, <3>5
  <2> HIDE DEF PastCursor, Late, below
  <2>5. \A d \in Events : PastCursor(d)' <=> PastCursor(d)
    BY <2>2 DEF PastCursor
  <2> QED
    BY <2>2, <2>3, <2>4, <2>5
<1>11. ASSUME NEW e \in Events, FillGap(e) PROVE WindowComplete'
  <2>1. tick'.pc = tick.pc /\ tick.pc = "window" /\ tick'.read = tick.read
        /\ tick'.todo = tick.todo \ {e}
    BY <1>11 DEF FillGap, Ticks
  <2>2. UNCHANGED <<now, created, journal, cursor, covered>> /\ inbox'[e] # "absent"
        /\ \A d \in Events : d # e => inbox'[d] = inbox[d]
    BY <1>11 DEF FillGap, Deliver, Results
  <2> HIDE DEF PastCursor, Late
  <2>3. \A d \in Events : (PastCursor(d)' <=> PastCursor(d))
                          /\ (Late(d, tick.read)' <=> Late(d, tick.read))
    BY <2>1, <2>2 DEF PastCursor, Late
  <2> QED
    BY <2>1, <2>2, <2>3
<1>12. CASE EndTick
  BY <1>12 DEF EndTick, IdleTick
<1>13. CASE AbortTick
  BY <1>13 DEF AbortTick, IdleTick
<1>14. CASE UNCHANGED vars
  BY <1>14 DEF vars
<1> QED
  BY <1>1, <1>2, <1>3, <1>4, <1>5, <1>6, <1>7, <1>8, <1>9, <1>10, <1>11, <1>12, <1>13, <1>14 DEF Next, Sweep

LEMMA SweepInit == Init => SweepInv
<1> SUFFICES ASSUME Init PROVE SweepInv
  OBVIOUS
<1> USE SweepConstants
<1>1. IdleTick \in Ticks /\ IdleTick.page = {} /\ IdleTick.read = 0 /\ IdleTick.pc = "idle"
  BY DEF IdleTick, Ticks
<1>2. NoCursor \in [at : Nat, id : 0 .. N] /\ NoCursor.at = 0
  BY DEF NoCursor
<1>3. TypeOK
  BY <1>1, <1>2 DEF Init, TypeOK, Events
<1>4. Punctual /\ BehindCursorIsLate
  BY DEF Init, Punctual, BehindCursorIsLate, Absent
<1>5. PageInOrder /\ PageLeftPastCursor /\ WindowComplete
  BY <1>1 DEF Init, PageInOrder, PageLeftPastCursor, WindowComplete
<1> QED
  BY <1>3, <1>4, <1>5 DEF SweepInv

(* The gap window is wide enough and no scan is cut off. *)
SweepIsWide == MaxPause + MaxLate < Gap /\ N <= ScanLimit

LEMMA SweepStep == SweepIsWide /\ SweepInv /\ [Next]_vars => SweepInv'
  BY SweepTypes, SweepPunctual, SweepBehind, SweepPage, SweepLeft, SweepWindow
     DEF SweepInv, SweepIsWide

(* Type correctness, under the same proviso. *)
THEOREM SweepTypeCorrect ==
    ASSUME SweepIsWide PROVE Spec => []TypeOK
<1>1. SweepInv => TypeOK
  BY DEF SweepInv
<1> QED
  BY <1>1, SweepIsWide, SweepInit, SweepStep, PTL DEF Spec

(* No late insert, aborted tick or pause makes the sweep lose a journal row *)
(* as long as lateness and pause together stay below gap_seconds.           *)
THEOREM NothingIsForgotten ==
    ASSUME SweepIsWide PROVE Spec => []NothingForgotten
<1>1. SweepInv => NothingForgotten
  <2> SUFFICES ASSUME SweepInv, NEW e \in Events, Absent(e), ~PastCursor(e)
               PROVE  InWindow(e)
    BY DEF NothingForgotten, Forgotten, Absent
  <2>1. created[e] + MaxLate >= covered /\ now - covered <= MaxPause
    BY DEF SweepInv, BehindCursorIsLate, Late, Punctual
  <2>2. cursor.at <= now /\ cursor.at \in Nat /\ created[e] \in Nat
        /\ now \in Nat /\ covered \in Nat
    BY DEF SweepInv, TypeOK
  <2>3. created[e] <= cursor.at
    BY <2>2 DEF PastCursor
  <2> QED
    BY <2>1, <2>2, <2>3, SweepIsWide, SweepConstants DEF InWindow, SweepIsWide
<1> QED
  BY <1>1, SweepIsWide, SweepInit, SweepStep, PTL DEF Spec
=============================================================================
