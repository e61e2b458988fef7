------------------------ MODULE OrderedDeliveryProofs ------------------------
(* Proofs about OrderedDelivery, for any number of events, workers, scans   *)
(* and faults.                                                              *)
EXTENDS OrderedDelivery, TLAPS, SequenceTheorems, WellFoundedInduction

(* What a scan keeps of a predecessor, and a frame of deliver. *)
Seens == [event : Events, seq : Nat,
          state : {"completed", "expired", "held", "open"}]

Frames == [event : Events, pc : FramePCs, seq : Nat, todo : SUBSET Seens,
           scans : Nat \ {0}, final : BOOLEAN, blocked : BOOLEAN,
           progress : BOOLEAN, attempt : Nat]

(* A seq that was drawn for event e is above those of the earlier events,   *)
(* which all had theirs when e was recorded.                                *)
Fits(e, s) ==
    /\ s \in 1 .. counter
    /\ unsequenced = {} => \A m \in Events : m < e => seq[m] < s

(* What was seen of a predecessor and can change no more is still so. *)
StillSeen(p) ==
    /\ p.event <= recorded
    /\ p.seq # NoSeq => seq[p.event] = p.seq
    /\ p.state = "completed" => inbox[p.event].state = "completed"

(* What a frame relies on at the place where it stands. *)
GoodFrame(f) ==
    /\ f.event <= recorded
    /\ \A p \in f.todo : StillSeen(p)
    /\ f.pc = "assign" => Fits(f.event, f.seq)
    /\ f.pc = "preds" => seq[f.event] # NoSeq
    /\ Regular /\ f.pc \in {"claim", "handler", "advance"} =>
         \A m \in Events : m < f.event => inbox[m].state = "completed"
    /\ f.pc = "advance" => inbox[f.event].state = "completed"

Good == {f \in Frames : GoodFrame(f)}

StacksGood == stack \in [Workers -> Seq(Good)]

RowsTyped ==
    /\ pub \in [pc : {"idle", "bump", "assign"}, seq : Nat]
    /\ pub.pc # "idle" => recorded # 0
    /\ recorded \in 0 .. N
    /\ seq \in [Events -> Nat]
    /\ counter \in Nat /\ lastSeq \in Nat
    /\ inbox \in [Events -> [state : States, attempts : Nat, live : BOOLEAN]]
    /\ unsequenced \subseteq Events /\ outraced \subseteq Events

(* Every seq was drawn from the counter, for a recorded event. *)
SeqsDrawn ==
    \A e \in Events : seq[e] <= counter /\ (recorded < e => seq[e] = NoSeq)

(* A publisher that was not cut short left no event without a seq. *)
PublisherLeavesSeqs ==
    unsequenced = {} =>
        \A e \in Events :
            e < recorded \/ (e = recorded /\ pub.pc = "idle") => seq[e] # NoSeq

PublisherHolds == pub.pc = "assign" => Fits(recorded, pub.seq)

(* The watermark is the seq of an event. *)
WatermarkIsSeq == lastSeq = 0 \/ \E e \in Events : seq[e] = lastSeq

BegunIsCounted ==
    \A e \in Events :
        inbox[e].state \in {"processing", "completed", "quarantined"} =>
            inbox[e].attempts > 0

RowsInv ==
    /\ RowsTyped /\ SeqsDrawn /\ PublisherLeavesSeqs /\ PublisherHolds
    /\ WatermarkIsSeq /\ BegunIsCounted
    /\ SeqFollowsJournal /\ WatermarkSound /\ OrderedWhenRegular

OrderInv == RowsInv /\ StacksGood

-----------------------------------------------------------------------------
(* Numbers and stacks *)

(* The order of the numbers has no endless descent. *)
LEMMA LessIsWellFounded ==
    IsWellFoundedOn({ss \in Nat \X Nat : ss[1] < ss[2]}, Nat)
BY NatLessThanWellFounded DEF OpToRel

(* Every set of numbers that is not empty has a least one. *)
LEMMA LeastNumber ==
    ASSUME NEW R \in SUBSET Nat, R # {}
    PROVE  \E m \in R : \A k \in R : m <= k
<1> DEFINE Less == {ss \in Nat \X Nat : ss[1] < ss[2]}
<1>1. PICK m \in R : \A k \in R : ~(<<k, m>> \in Less)
  <2> HIDE DEF Less
  <2>1. IsWellFoundedOn(Less, Nat)
    BY LessIsWellFounded DEF Less
  <2> QED
    BY <2>1, WFMin
<1>2. ASSUME NEW k \in Nat, NEW n \in Nat, k < n
      PROVE  <<k, n>> \in Less
  <2>1. <<k, n>> \in Nat \X Nat /\ <<k, n>>[1] < <<k, n>>[2]
    BY <1>2
  <2> QED
    BY <2>1, Zenon DEF Less
<1>3. ASSUME NEW k \in R PROVE m <= k
  <2>1. ~(<<k, m>> \in Less) /\ k \in Nat /\ m \in Nat
    BY <1>1
  <2>2. ~(k < m)
    BY <2>1, <1>2, Zenon
  <2> QED
    BY <2>1, <2>2
<1> QED
  BY <1>3

(* The first of the predecessors that are left is one of them. *)
LEMMA FirstIsLeft ==
    ASSUME NEW todo \in SUBSET Seens, todo # {}
    PROVE  FirstOf(todo) \in todo
<1> DEFINE R == {Rank(p) : p \in todo}
<1>1. R \in SUBSET Nat /\ R # {}
  BY Sizes DEF Rank, Seens, Events
<1>2. PICK m \in R : \A k \in R : m <= k
  <2> HIDE DEF R
  <2> QED
    BY <1>1, LeastNumber
<1>3. PICK p \in todo : m = Rank(p)
  BY <1>2
<1>4. \A q \in todo : Rank(p) <= Rank(q)
  BY <1>2, <1>3
<1> QED
  BY <1>3, <1>4 DEF FirstOf

(* Replacing the top frame of a stack, with and without one pushed on it,   *)
(* dropping it, and emptying the stack.                                     *)
LEMMA StackMoves ==
    ASSUME NEW S, NEW T, S \subseteq T, NEW s \in [Workers -> Seq(S)],
           NEW w \in Workers
    PROVE  /\ s \in [Workers -> Seq(T)]
           /\ [s EXCEPT ![w] = <<>>] \in [Workers -> Seq(T)]
           /\ \A f \in T : [s EXCEPT ![w] = <<f>>] \in [Workers -> Seq(T)]
           /\ s[w] # <<>> => 
                /\ Head(s[w]) \in S /\ Tail(s[w]) \in Seq(S)
                /\ \A f \in T :
                     [s EXCEPT ![w] = <<f>> \o Tail(@)] \in [Workers -> Seq(T)]
                /\ \A f, g \in T :
                     [s EXCEPT ![w] = <<g, f>> \o Tail(@)] \in [Workers -> Seq(T)]
<1>1. \A v \in Workers : s[v] \in Seq(T)
  BY SeqMonotonic
<1>2. s \in [Workers -> Seq(T)]
  BY <1>1
<1>3. <<>> \in Seq(T) /\ \A f \in T : <<f>> \in Seq(T)
  OBVIOUS
<1>4. ASSUME s[w] # <<>>
      PROVE  /\ Head(s[w]) \in S /\ Tail(s[w]) \in Seq(S)
             /\ \A f \in T :
                  [s EXCEPT ![w] = <<f>> \o Tail(@)] \in [Workers -> Seq(T)]
             /\ \A f, g \in T :
                  [s EXCEPT ![w] = <<g, f>> \o Tail(@)] \in [Workers -> Seq(T)]
  <2>1. Head(s[w]) \in S /\ Tail(s[w]) \in Seq(S)
    BY <1>4, HeadTailProperties
  <2>2. Tail(s[w]) \in Seq(T)
    BY <2>1, SeqMonotonic
  <2>3. \A f \in T : <<f>> \o Tail(s[w]) \in Seq(T)
    BY <1>3, <2>2, ConcatProperties
  <2>4. \A f, g \in T : <<g, f>> \o Tail(s[w]) \in Seq(T)
    <3>1. \A f, g \in T : <<g, f>> \in Seq(T)
      OBVIOUS
    <3> QED
      BY <3>1, <2>2, ConcatProperties
  <2> QED
    BY <1>2, <2>1, <2>3, <2>4
<1> QED
  BY <1>2, <1>3, <1>4

-----------------------------------------------------------------------------
(* What frames rely on is kept *)

(* Seqs once set, completed rows and histories stay. *)
Onward ==
    /\ recorded <= recorded' /\ counter <= counter'
    /\ \A e \in Events : seq[e] # NoSeq => seq'[e] = seq[e]
    /\ \A e \in Events :
         inbox[e].state = "completed" => inbox'[e].state = "completed"
    /\ unsequenced \subseteq unsequenced' /\ outraced \subseteq outraced'

(* A seq that fits its event goes on fitting. *)
LEMMA FitsStays ==
    ASSUME RowsInv, Onward, RowsTyped', NEW e \in Events, NEW s \in Nat,
           e <= recorded, Fits(e, s)
    PROVE  Fits(e, s)'
<1>1. s \in 1 .. counter'
  BY DEF Fits, Onward, RowsTyped, RowsInv
<1>2. ASSUME unsequenced' = {}, NEW m \in Events, m < e
      PROVE  seq'[m] < s
  <2>1. unsequenced = {} /\ m < recorded
    BY <1>2, Sizes DEF Onward, RowsTyped, RowsInv, Events
  <2>2. seq[m] # NoSeq /\ seq[m] < s
    BY <1>2, <2>1 DEF RowsInv, PublisherLeavesSeqs, Fits
  <2> QED
    BY <2>2 DEF Onward
<1> QED
  BY <1>1, <1>2 DEF Fits

(* A good frame stays one. *)
LEMMA GoodStays ==
    ASSUME RowsInv, Onward, RowsTyped'
    PROVE  Good \subseteq Good'
<1> SUFFICES ASSUME NEW f \in Frames, GoodFrame(f)
             PROVE  GoodFrame(f)'
  BY DEF Good
<1>1. /\ recorded \in Nat /\ recorded' \in Nat /\ recorded <= recorded'
      /\ f.event \in Events /\ f.event \in Nat /\ f.seq \in Nat
      /\ f.event <= recorded
  BY Sizes DEF RowsInv, RowsTyped, Onward, Frames, GoodFrame, Events
<1>2. f.event <= recorded'
  BY <1>1
<1>3. ASSUME NEW p \in f.todo PROVE StillSeen(p)'
  <2>1. p.event \in Events /\ p.event \in Nat /\ StillSeen(p)
    BY <1>3, Sizes DEF GoodFrame, Frames, Seens, Events
  <2>2. p.event <= recorded'
    BY <2>1, <1>1 DEF StillSeen
  <2> QED
    BY <2>1, <2>2 DEF StillSeen, Onward
<1>4. f.pc = "assign" => Fits(f.event, f.seq)'
  BY <1>1, FitsStays DEF GoodFrame
<1>5. f.pc = "preds" => seq'[f.event] # NoSeq
  BY <1>1 DEF GoodFrame, Onward
<1>6. Regular' /\ f.pc \in {"claim", "handler", "advance"} =>
        \A m \in Events : m < f.event => inbox'[m].state = "completed"
  BY <1>1 DEF GoodFrame, Onward, Regular
<1>7. f.pc = "advance" => inbox'[f.event].state = "completed"
  BY <1>1 DEF GoodFrame, Onward
<1> QED
  BY <1>2, <1>3, <1>4, <1>5, <1>6, <1>7 DEF GoodFrame

(* Steps that touch neither rows nor histories. *)
LEMMA RowsKept ==
    ASSUME RowsInv, UNCHANGED <<journal, inbox, lastSeq, outraced>>
    PROVE  RowsInv' /\ Good' = Good
<1> USE DEF journal
<1>1. RowsTyped' /\ SeqsDrawn' /\ PublisherLeavesSeqs' /\ WatermarkIsSeq' /\ BegunIsCounted'
  BY DEF RowsInv, RowsTyped, SeqsDrawn, PublisherLeavesSeqs, WatermarkIsSeq,
         BegunIsCounted
<1>2. PublisherHolds' /\ SeqFollowsJournal'
  BY DEF RowsInv, PublisherHolds, Fits, SeqFollowsJournal
<1>3. WatermarkSound' /\ OrderedWhenRegular'
  BY DEF RowsInv, WatermarkSound, OrderedWhenRegular, ClaimedInOrder, Regular
<1>4. Good' = Good
  BY DEF Good, GoodFrame, StillSeen, Fits, Regular
<1> QED
  BY <1>1, <1>2, <1>3, <1>4 DEF RowsInv

-----------------------------------------------------------------------------
(* Steps on the rows *)

(* Event e gets the seq that was drawn for it, by its publisher, which is   *)
(* through then, or by a gate.                                              *)
LEMMA SeqIsSet ==
    ASSUME RowsInv, NEW e \in Events, NEW s \in Nat, e <= recorded,
           seq[e] = NoSeq, Fits(e, s), seq' = [seq EXCEPT ![e] = s],
           \/ pub' = pub
           \/ e = recorded /\ pub' = [pc |-> "idle", seq |-> NoSeq],
           UNCHANGED <<recorded, counter, inbox, lastSeq, unsequenced, outraced>>
    PROVE  RowsInv' /\ Onward
<1>1. RowsTyped'
  BY DEF RowsInv, RowsTyped, NoSeq
<1>2. Onward
  BY DEF RowsInv, RowsTyped, Onward, NoSeq
<1>3. /\ e \in Nat /\ N \in Nat /\ recorded \in Nat /\ counter \in Nat /\ lastSeq \in Nat
      /\ s \in 1 .. counter
      /\ \A m \in Events : m \in Nat /\ seq[m] \in Nat
      /\ seq'[e] = s /\ \A m \in Events : m # e => seq'[m] = seq[m]
  BY Sizes DEF RowsInv, RowsTyped, Events, Fits
<1>4. SeqsDrawn'
  BY <1>3 DEF RowsInv, SeqsDrawn
<1>5. PublisherLeavesSeqs'
  BY <1>3 DEF RowsInv, PublisherLeavesSeqs, NoSeq
<1>6. PublisherHolds'
  <2>1. SUFFICES ASSUME pub' = pub, pub.pc = "assign"
                 PROVE  Fits(recorded, pub.seq)'
    BY DEF PublisherHolds
  <2>2. recorded \in Events /\ pub.seq \in Nat /\ Fits(recorded, pub.seq)
    BY <2>1, <1>3, Sizes DEF RowsInv, RowsTyped, PublisherHolds, Events
  <2> QED
    BY <2>1, <2>2, <1>1, <1>2, <1>3, FitsStays
<1>7. unsequenced = {} => e = recorded
  BY <1>3 DEF RowsInv, PublisherLeavesSeqs
<1>8. SeqFollowsJournal'
  <2> SUFFICES ASSUME unsequenced = {}, NEW m \in Events, NEW n \in Events,
                      m < n, seq'[n] # NoSeq
               PROVE  seq'[m] # NoSeq /\ seq'[m] < seq'[n]
    BY DEF SeqFollowsJournal
  <2>1. CASE n = e
    BY <2>1, <1>3, <1>7 DEF RowsInv, PublisherLeavesSeqs, Fits
  <2>2. CASE n # e
    BY <2>2, <1>3, <1>7 DEF RowsInv, SeqsDrawn, SeqFollowsJournal, NoSeq
  <2> QED
    BY <2>1, <2>2
<1>9. unsequenced = {} => lastSeq < s
  <2>1. CASE lastSeq = 0
    BY <2>1, <1>3
  <2>2. ASSUME NEW m \in Events, seq[m] = lastSeq, lastSeq # 0, unsequenced = {}
        PROVE  lastSeq < s
    <3>1. m < e
      BY <2>2, <1>3, <1>7 DEF RowsInv, SeqsDrawn, NoSeq
    <3> QED
      BY <3>1, <2>2 DEF Fits
  <2> QED
    BY <2>1, <2>2 DEF RowsInv, WatermarkIsSeq
<1>10. WatermarkIsSeq'
  BY <1>3 DEF RowsInv, WatermarkIsSeq, NoSeq
<1>11. WatermarkSound'
  BY <1>3, <1>9 DEF RowsInv, WatermarkSound, Regular
<1>12. OrderedWhenRegular' /\ BegunIsCounted'
  BY DEF RowsInv, OrderedWhenRegular, ClaimedInOrder, Regular, BegunIsCounted
<1> QED
  BY <1>1, <1>2, <1>4, <1>5, <1>6, <1>8, <1>10, <1>11, <1>12 DEF RowsInv

(* The watermark moves to a completed event: all before it are completed,   *)
(* for it was claimed after them.                                           *)
LEMMA WatermarkMoves ==
    ASSUME RowsInv, NEW e \in Events, inbox[e].state = "completed",
           seq[e] # NoSeq, lastSeq' = seq[e],
           UNCHANGED <<journal, inbox, outraced>>
    PROVE  RowsInv' /\ Onward
<1> USE DEF journal
<1>1. RowsTyped'
  BY DEF RowsInv, RowsTyped
<1>2. Onward
  BY DEF RowsInv, RowsTyped, Onward
<1>3. SeqsDrawn' /\ PublisherLeavesSeqs' /\ BegunIsCounted'
  BY DEF RowsInv, SeqsDrawn, PublisherLeavesSeqs, BegunIsCounted
<1>4. PublisherHolds' /\ SeqFollowsJournal'
  BY DEF RowsInv, PublisherHolds, Fits, SeqFollowsJournal
<1>5. OrderedWhenRegular' /\ WatermarkIsSeq'
  BY DEF RowsInv, OrderedWhenRegular, ClaimedInOrder, Regular, WatermarkIsSeq
<1>6. WatermarkSound'
  <2> SUFFICES ASSUME Regular, NEW m \in Events, seq[m] # NoSeq, seq[m] <= seq[e]
               PROVE  inbox[m].state = "completed"
    BY DEF WatermarkSound, Regular
  <2>1. m \in Nat /\ e \in Nat /\ seq[m] \in Nat /\ seq[e] \in Nat
    BY Sizes DEF RowsInv, RowsTyped, Events
  <2>2. ~(e < m)
    BY <2>1 DEF RowsInv, SeqFollowsJournal, Regular
  <2>3. inbox[e].attempts > 0
    BY DEF RowsInv, BegunIsCounted
  <2>4. m < e => inbox[m].state = "completed"
    BY <2>3 DEF RowsInv, OrderedWhenRegular, ClaimedInOrder
  <2> QED
    BY <2>1, <2>2, <2>4
<1> QED
  BY <1>1, <1>2, <1>3, <1>4, <1>5, <1>6 DEF RowsInv

(* The inbox row of e changes: a completed one stays so, and what begins is *)
(* counted and comes after all earlier events of the scope.                 *)
LEMMA RowMoves ==
    ASSUME RowsInv, NEW e \in Events,
           NEW row \in [state : States, attempts : Nat, live : BOOLEAN],
           inbox' = [inbox EXCEPT ![e] = row],
           UNCHANGED <<journal, lastSeq, outraced>>,
           inbox[e].state = "completed" => row.state = "completed",
           row.state \in {"processing", "completed", "quarantined"} =>
               row.attempts > 0,
           row.attempts > 0 =>
               \/ inbox[e].attempts > 0
               \/ Regular => \A m \in Events : m < e => inbox[m].state = "completed"
    PROVE  RowsInv' /\ Onward
<1> USE DEF journal
<1>1. RowsTyped'
  BY DEF RowsInv, RowsTyped
<1>2. inbox'[e] = row /\ \A m \in Events : m # e => inbox'[m] = inbox[m]
  BY DEF RowsInv, RowsTyped
<1>3. Onward
  BY <1>2 DEF RowsInv, RowsTyped, Onward
<1>4. SeqsDrawn' /\ PublisherLeavesSeqs' /\ WatermarkIsSeq'
  BY DEF RowsInv, SeqsDrawn, PublisherLeavesSeqs, WatermarkIsSeq
<1>5. PublisherHolds' /\ SeqFollowsJournal'
  BY DEF RowsInv, PublisherHolds, Fits, SeqFollowsJournal
<1>6. BegunIsCounted'
  BY <1>2 DEF RowsInv, BegunIsCounted
<1>7. WatermarkSound'
  BY <1>2 DEF RowsInv, WatermarkSound, Regular
<1>8. OrderedWhenRegular'
  BY <1>2 DEF RowsInv, OrderedWhenRegular, ClaimedInOrder, Regular
<1> QED
  BY <1>1, <1>3, <1>4, <1>5, <1>6, <1>7, <1>8 DEF RowsInv

-----------------------------------------------------------------------------
(* The steps of the publisher *)

(* A recorded event has no seq yet and nobody works on it. *)
LEMMA RecordKeeps ==
    ASSUME OrderInv, Record
    PROVE  OrderInv'
<1> USE DEF OrderInv, Record
<1>1. /\ recorded \in Nat /\ N \in Nat /\ recorded < N /\ recorded' = recorded + 1
      /\ recorded' \in Nat /\ pub.pc = "idle" /\ pub'.pc = "bump"
      /\ \A e \in Events : e \in Nat
  BY Sizes DEF RowsInv, RowsTyped, Events
<1>2. RowsTyped'
  BY <1>1 DEF RowsInv, RowsTyped
<1>3. Onward
  BY <1>1 DEF RowsInv, RowsTyped, Onward
<1>4. SeqsDrawn' /\ PublisherLeavesSeqs' /\ PublisherHolds'
  BY <1>1 DEF RowsInv, SeqsDrawn, PublisherLeavesSeqs, PublisherHolds
<1>5. WatermarkIsSeq' /\ BegunIsCounted' /\ SeqFollowsJournal'
  BY DEF RowsInv, WatermarkIsSeq, BegunIsCounted, SeqFollowsJournal
<1>6. WatermarkSound' /\ OrderedWhenRegular'
  BY DEF RowsInv, WatermarkSound, OrderedWhenRegular, ClaimedInOrder, Regular
<1>7. StacksGood'
  <2>1. Good \subseteq Good'
    BY <1>2, <1>3, GoodStays
  <2> QED
    BY <2>1, SeqMonotonic DEF StacksGood
<1> QED
  BY <1>2, <1>4, <1>5, <1>6, <1>7 DEF RowsInv

(* The number the publisher draws is above all seqs, so it fits. *)
LEMMA PublisherBumpKeeps ==
    ASSUME OrderInv, PublisherBump
    PROVE  OrderInv'
<1> USE DEF OrderInv, PublisherBump
<1>1. /\ recorded \in Nat /\ recorded \in Events /\ N \in Nat /\ counter \in Nat
      /\ counter' \in Nat /\ counter <= counter'
      /\ \A e \in Events : e \in Nat /\ seq[e] \in Nat /\ seq[e] <= counter
  BY Sizes DEF RowsInv, RowsTyped, Events, SeqsDrawn
<1>2. RowsTyped'
  BY <1>1 DEF RowsInv, RowsTyped, NoSeq
<1>3. Onward
  BY <1>1 DEF RowsInv, RowsTyped, Onward
<1>4. SeqsDrawn'
  BY <1>1 DEF RowsInv, SeqsDrawn
<1>5. PublisherLeavesSeqs'
  BY <1>1 DEF RowsInv, PublisherLeavesSeqs
<1>6. PublisherHolds'
  BY <1>1 DEF PublisherHolds, Fits
<1>7. WatermarkIsSeq' /\ BegunIsCounted' /\ SeqFollowsJournal'
  BY DEF RowsInv, WatermarkIsSeq, BegunIsCounted, SeqFollowsJournal
<1>8. WatermarkSound' /\ OrderedWhenRegular'
  BY DEF RowsInv, WatermarkSound, OrderedWhenRegular, ClaimedInOrder, Regular
<1>9. StacksGood'
  <2>1. Good \subseteq Good'
    BY <1>2, <1>3, GoodStays
  <2> QED
    BY <2>1, SeqMonotonic DEF StacksGood
<1> QED
  BY <1>2, <1>4, <1>5, <1>6, <1>7, <1>8, <1>9 DEF RowsInv

(* The publisher sets the number it drew, unless the gate was first. *)
LEMMA PublisherAssignKeeps ==
    ASSUME OrderInv, PublisherAssign
    PROVE  OrderInv'
<1>1. recorded \in Events /\ recorded <= recorded /\ pub.seq \in Nat /\ Fits(recorded, pub.seq)
  BY Sizes DEF OrderInv, PublisherAssign, RowsInv, RowsTyped, Events, PublisherHolds
<1>2. RowsInv' /\ Onward
  <2>1. CASE seq[recorded] = NoSeq
    BY <2>1, <1>1, SeqIsSet DEF OrderInv, PublisherAssign
  <2>2. CASE seq[recorded] # NoSeq
    <3> USE <2>2 DEF OrderInv, PublisherAssign
    <3>1. seq' = seq
      OBVIOUS
    <3>2. RowsTyped' /\ Onward
      BY <3>1 DEF RowsInv, RowsTyped, Onward, NoSeq
    <3>3. SeqsDrawn' /\ PublisherHolds' /\ WatermarkIsSeq' /\ BegunIsCounted'
      BY <3>1 DEF RowsInv, SeqsDrawn, PublisherHolds, WatermarkIsSeq, BegunIsCounted
    <3>4. PublisherLeavesSeqs' /\ SeqFollowsJournal'
      BY <3>1 DEF RowsInv, PublisherLeavesSeqs, SeqFollowsJournal
    <3>5. WatermarkSound' /\ OrderedWhenRegular'
      BY <3>1 DEF RowsInv, WatermarkSound, OrderedWhenRegular, ClaimedInOrder, Regular
    <3> QED
      BY <3>2, <3>3, <3>4, <3>5 DEF RowsInv
  <2> QED
    BY <2>1, <2>2
<1>3. StacksGood'
  <2>1. Good \subseteq Good'
    BY <1>2, GoodStays DEF OrderInv, RowsInv
  <2> QED
    BY <2>1, SeqMonotonic DEF StacksGood, OrderInv, PublisherAssign
<1> QED
  BY <1>2, <1>3 DEF OrderInv

(* A publication cut short is remembered as one without a seq. *)
LEMMA PublisherStopsKeeps ==
    ASSUME OrderInv, PublisherStops
    PROVE  OrderInv'
<1> USE DEF OrderInv, PublisherStops
<1>1. recorded \in Events /\ unsequenced \subseteq unsequenced'
      /\ (unsequenced' = {} => seq[recorded] # NoSeq)
      /\ UNCHANGED <<recorded, seq, counter, inbox, lastSeq, stack, outraced>>
      /\ pub' = [pc |-> "idle", seq |-> NoSeq]
  BY Sizes DEF RowsInv, RowsTyped, Events
<1>2. RowsTyped' /\ Onward
  BY <1>1 DEF RowsInv, RowsTyped, Onward, NoSeq
<1>3. SeqsDrawn' /\ PublisherHolds' /\ WatermarkIsSeq' /\ BegunIsCounted'
  BY <1>1 DEF RowsInv, SeqsDrawn, PublisherHolds, WatermarkIsSeq, BegunIsCounted
<1>4. PublisherLeavesSeqs' /\ SeqFollowsJournal'
  BY <1>1 DEF RowsInv, PublisherLeavesSeqs, SeqFollowsJournal
<1>5. WatermarkSound' /\ OrderedWhenRegular'
  BY <1>1 DEF RowsInv, WatermarkSound, OrderedWhenRegular, ClaimedInOrder, Regular
<1>6. StacksGood'
  <2>1. Good \subseteq Good'
    BY <1>2, GoodStays
  <2> QED
    BY <2>1, SeqMonotonic DEF StacksGood
<1> QED
  BY <1>2, <1>3, <1>4, <1>5, <1>6 DEF RowsInv

-----------------------------------------------------------------------------
(* Frames *)

(* The frame on top of a stack is good, and the stacks after its moves are. *)
LEMMA FrameMoves ==
    ASSUME OrderInv, RowsTyped', Onward, NEW w \in Workers
    PROVE  /\ UNCHANGED stack => StacksGood'
           /\ Raise(w) => StacksGood'
           /\ Running(w) =>
                /\ Top(w) \in Good
                /\ \A f \in Good' : Become(w, f) => StacksGood'
                /\ \A out : Return(w, out) => StacksGood'
<1>1. Good \subseteq Good' /\ stack \in [Workers -> Seq(Good)]
  BY GoodStays DEF OrderInv, StacksGood
<1>2. UNCHANGED stack => StacksGood'
  BY <1>1, StackMoves DEF StacksGood
<1>3. Raise(w) => StacksGood'
  <2> HIDE DEF Good
  <2> QED
    BY <1>1, StackMoves DEF StacksGood, Raise
<1>4. ASSUME Running(w)
      PROVE  /\ Top(w) \in Good
             /\ \A f \in Good' : Become(w, f) => StacksGood'
  <2>1. stack[w] # <<>>
    BY <1>4 DEF Running
  <2>2. /\ Head(stack[w]) \in Good
        /\ \A f \in Good' :
             [stack EXCEPT ![w] = <<f>> \o Tail(@)] \in [Workers -> Seq(Good')]
    BY <1>1, <2>1, StackMoves
  <2> QED
    BY <2>2 DEF StacksGood, Top, Become
<1>5. ASSUME Running(w), NEW out, Return(w, out)
      PROVE  StacksGood'
  <2> DEFINE rest == Tail(stack[w])
             moved == out \in {"completed", "fence_lost", "skipped"}
             caller == [Head(rest) EXCEPT !.progress = @ \/ moved]
  <2>1. rest \in Seq(Good)
    BY <1>1, <1>5, StackMoves DEF Running
  <2>2. stack' = [stack EXCEPT ![w] = IF rest = <<>> THEN <<>>
                                      ELSE <<caller>> \o Tail(rest)]
    BY <1>5 DEF Return
  <2>3. ASSUME rest # <<>>
        PROVE  <<caller>> \o Tail(rest) \in Seq(Good')
    <3>1. Head(rest) \in Good /\ Tail(rest) \in Seq(Good)
      BY <2>1, <2>3, HeadTailProperties
    <3>2. caller \in Good
      BY <3>1 DEF Good, Frames, GoodFrame
    <3>3. <<caller>> \in Seq(Good') /\ Tail(rest) \in Seq(Good')
      BY <1>1, <3>1, <3>2, SeqMonotonic
    <3> QED
      BY <3>3, ConcatProperties
  <2>4. <<>> \in Seq(Good')
    OBVIOUS
  <2>5. \A v \in Workers : stack[v] \in Seq(Good')
    BY <1>1, SeqMonotonic
  <2>6. stack'[w] \in Seq(Good')
    BY <1>1, <2>2, <2>3, <2>4
  <2> QED
    BY <1>1, <2>2, <2>5, <2>6 DEF StacksGood
<1> QED
  BY <1>2, <1>3, <1>4, <1>5

(* The frame on top of a stack is good, and its event has a row. *)
LEMMA TopIsGood ==
    ASSUME OrderInv, NEW w \in Workers, Running(w)
    PROVE  /\ Top(w) \in Good /\ Top(w).event \in Events
           /\ inbox[Top(w).event] \in [state : States, attempts : Nat, live : BOOLEAN]
<1>1. Top(w) \in Good
  BY StackMoves DEF Running, Top, OrderInv, StacksGood
<1>2. Top(w).event \in Events
  BY <1>1 DEF Good, Frames
<1> QED
  BY <1>1, <1>2 DEF OrderInv, RowsInv, RowsTyped

(* Steps of a frame that touch no rows. *)
LEMMA QuietMoves ==
    ASSUME OrderInv, NEW w \in Workers,
           UNCHANGED <<journal, inbox, lastSeq, outraced>>
    PROVE  /\ UNCHANGED stack => OrderInv'
           /\ Raise(w) => OrderInv'
           /\ Running(w) =>
                /\ Top(w) \in Good
                /\ \A f \in Good : Become(w, f) => OrderInv'
                /\ \A out : Return(w, out) => OrderInv'
<1>1. RowsInv' /\ Good' = Good
  BY RowsKept DEF OrderInv
<1>2. RowsTyped' /\ Onward
  BY <1>1 DEF RowsInv, OrderInv, Onward, RowsTyped, journal
<1> QED
  BY <1>1, <1>2, FrameMoves DEF OrderInv

(* A call of deliver starts with a good frame. *)
LEMMA NewFrameGood ==
    ASSUME RowsInv, NEW e \in Events, e <= recorded
    PROVE  NewFrame(e) \in Good
BY Sizes DEF NewFrame, Good, Frames, GoodFrame, FramePCs, NoSeq

(* Whatever a scan found below the watermark or without a seq, the frame    *)
(* goes on as a good one, if it may claim when nothing was found.           *)
LEMMA FoundGood ==
    ASSUME OrderInv, NEW w \in Workers, Running(w),
           UNCHANGED <<journal, inbox, lastSeq, outraced>>,
           NEW ps \in SUBSET Events, \A p \in ps : p <= recorded,
           Found(w, {Seen(p) : p \in ps}),
           ps = {} /\ Regular => \A m \in Events :
               m < Top(w).event => inbox[m].state = "completed"
    PROVE  OrderInv'
<1> DEFINE preds == {Seen(p) : p \in ps}
           f == IF preds = {} THEN [Top(w) EXCEPT !.pc = "claim"]
                ELSE IF Top(w).final THEN [Top(w) EXCEPT !.pc = "defer"]
                ELSE [Top(w) EXCEPT !.pc = "loop", !.progress = FALSE,
                                    !.todo = {p \in preds : p.state # "held"},
                                    !.blocked = \E p \in preds : p.state = "held"]
<1>1. Top(w) \in Good
  BY QuietMoves
<1>2. \A p \in ps : Seen(p) \in Seens /\ StillSeen(Seen(p))
  BY DEF Seen, Seens, StillSeen, OrderInv, RowsInv, RowsTyped, States
<1>3. preds \subseteq Seens /\ \A p \in preds : StillSeen(p)
  BY <1>2
<1>4. f \in Frames
  BY <1>1, <1>3 DEF Good, Frames, FramePCs
<1>5. GoodFrame(f)
  <2>1. CASE preds = {}
    <3>1. ps = {}
      BY <2>1
    <3> QED
      BY <1>1, <2>1, <3>1 DEF Good, Frames, GoodFrame
  <2>2. CASE preds # {}
    BY <1>1, <1>3, <2>2 DEF Good, Frames, GoodFrame
  <2> QED
    BY <2>1, <2>2
<1>6. f \in Good /\ Become(w, f)
  BY <1>4, <1>5 DEF Good, Found
<1> QED
  <2> HIDE DEF f
  <2> QED
    BY <1>6, QuietMoves

-----------------------------------------------------------------------------
(* The steps of the gate *)

(* A delivery begins with a frame that relies on nothing yet. *)
LEMMA DeliverKeeps ==
    ASSUME OrderInv, NEW w \in Workers, NEW e \in Events, Deliver(w, e)
    PROVE  OrderInv'
<1>1. RowsInv' /\ Good' = Good
  BY RowsKept DEF Deliver, OrderInv
<1>2. NewFrame(e) \in Good
  BY NewFrameGood DEF Deliver, OrderInv
<1>3. [stack EXCEPT ![w] = <<NewFrame(e)>>] \in [Workers -> Seq(Good)]
  <2> HIDE DEF Good
  <2> QED
    BY <1>2, StackMoves DEF OrderInv, StacksGood
<1> QED
  BY <1>1, <1>3 DEF OrderInv, StacksGood, Deliver

(* A scan finds a seq, events before it, or nothing that comes before. *)
LEMMA ScanRowKeeps ==
    ASSUME OrderInv, NEW w \in Workers, ScanRow(w)
    PROVE  OrderInv'
<1> DEFINE f == Top(w)
           e == f.event
           before == {Seen(p) : p \in LexicalPredecessors(e)}
<1>1. Running(w) /\ UNCHANGED <<journal, inbox, lastSeq, outraced>>
  BY DEF ScanRow, At
<1>2. f \in Good
  BY <1>1, QuietMoves
<1>3. CASE seq[e] # NoSeq
  <2>1. [f EXCEPT !.pc = "preds"] \in Good
    BY <1>2, <1>3 DEF Good, Frames, GoodFrame, FramePCs
  <2> QED
    BY <2>1, <1>1, <1>3, QuietMoves DEF ScanRow, Goto
<1>4. CASE seq[e] = NoSeq /\ before # {}
  <2>1. /\ LexicalPredecessors(e) \in SUBSET Events
        /\ \A p \in LexicalPredecessors(e) : p <= recorded
        /\ LexicalPredecessors(e) # {}
    <3>1. /\ e \in 1 .. N /\ N \in Nat /\ recorded \in 0 .. N /\ e <= recorded
      BY <1>2, Sizes DEF Good, Frames, GoodFrame, Events, OrderInv, RowsInv, RowsTyped
    <3>2. \A p \in LexicalPredecessors(e) : p \in 1 .. (e - 1)
      BY DEF LexicalPredecessors
    <3> QED
      BY <1>4, <3>1, <3>2 DEF Events
  <2>2. Found(w, before)
    BY <1>4 DEF ScanRow
  <2> QED
    BY <2>1, <2>2, <1>1, FoundGood
<1>5. CASE seq[e] = NoSeq /\ before = {}
  <2>1. [f EXCEPT !.pc = "bump"] \in Good
    BY <1>2 DEF Good, Frames, GoodFrame, FramePCs
  <2> QED
    BY <2>1, <1>1, <1>5, QuietMoves DEF ScanRow, Goto
<1> QED
  BY <1>3, <1>4, <1>5

(* The number the gate draws is above all seqs of earlier events. *)
LEMMA ScanBumpKeeps ==
    ASSUME OrderInv, NEW w \in Workers, ScanBump(w)
    PROVE  OrderInv'
<1> DEFINE f == Top(w)
           g == [f EXCEPT !.pc = "assign", !.seq = counter + 1]
<1>1. Running(w) /\ counter' = counter + 1 /\ Become(w, g)
      /\ UNCHANGED <<pub, recorded, seq, inbox, lastSeq, unsequenced, outraced>>
  BY DEF ScanBump, At
<1>2. /\ counter \in Nat /\ counter' \in Nat /\ counter <= counter'
      /\ \A e \in Events : e \in Nat /\ seq[e] \in Nat /\ seq[e] <= counter
  BY <1>1, Sizes DEF OrderInv, RowsInv, RowsTyped, Events, SeqsDrawn
<1>3. RowsTyped'
  BY <1>1, <1>2 DEF OrderInv, RowsInv, RowsTyped
<1>4. Onward
  BY <1>1, <1>2 DEF OrderInv, RowsInv, RowsTyped, Onward
<1>5. SeqsDrawn' /\ PublisherLeavesSeqs' /\ PublisherHolds'
  BY <1>1, <1>2 DEF OrderInv, RowsInv, SeqsDrawn, PublisherLeavesSeqs,
                    PublisherHolds, Fits
<1>6. WatermarkIsSeq' /\ BegunIsCounted' /\ SeqFollowsJournal'
  BY <1>1 DEF OrderInv, RowsInv, WatermarkIsSeq, BegunIsCounted, SeqFollowsJournal
<1>7. WatermarkSound' /\ OrderedWhenRegular'
  BY <1>1 DEF OrderInv, RowsInv, WatermarkSound, OrderedWhenRegular, ClaimedInOrder,
              Regular
<1>8. f \in Good
  BY <1>1, <1>3, <1>4, FrameMoves
<1>9. g \in Good'
  <2>1. f \in Good'
    BY <1>3, <1>4, <1>8, GoodStays DEF OrderInv
  <2>2. PICK d \in Events, s \in Nat : d = f.event /\ s = counter + 1
    BY <1>2, <1>8 DEF Good, Frames
  <2>3. Fits(d, s)'
    BY <1>1, <1>2, <2>2 DEF Fits
  <2>4. g \in Frames /\ g.event = d /\ g.pc = "assign" /\ g.seq = s /\ g.todo = f.todo
    BY <1>8, <2>2 DEF Good, Frames, FramePCs
  <2> HIDE DEF g
  <2> QED
    BY <2>1, <2>2, <2>3, <2>4 DEF Good, GoodFrame
<1>10. StacksGood'
  <2> HIDE DEF g
  <2> QED
    BY <1>1, <1>3, <1>4, <1>9, FrameMoves
<1> QED
  BY <1>3, <1>5, <1>6, <1>7, <1>10 DEF OrderInv, RowsInv

(* A lost race makes the run irregular: the frame claims, and nothing is    *)
(* asked of it.                                                             *)
LEMMA ScanAssignKeeps ==
    ASSUME OrderInv, NEW w \in Workers, ScanAssign(w)
    PROVE  OrderInv'
<1> DEFINE f == Top(w)
           e == f.event
<1>1. Running(w) /\ f \in Good /\ f.pc = "assign"
  BY TopIsGood DEF ScanAssign, At
<1>2. e \in Events /\ e <= recorded /\ f.seq \in Nat /\ Fits(e, f.seq)
  BY <1>1 DEF Good, Frames, GoodFrame
<1>3. CASE seq[e] = NoSeq
  <2> DEFINE g == [f EXCEPT !.pc = "preds", !.seq = NoSeq]
  <2>1. seq' = [seq EXCEPT ![e] = f.seq] /\ Become(w, g)
        /\ UNCHANGED <<pub, recorded, counter, inbox, lastSeq, unsequenced, outraced>>
    BY <1>3 DEF ScanAssign
  <2>2. RowsInv' /\ Onward
    BY <1>2, <1>3, <2>1, SeqIsSet DEF OrderInv
  <2>3. f \in Good' /\ seq'[e] # NoSeq
    BY <1>1, <1>2, <2>1, <2>2, GoodStays DEF OrderInv, RowsInv, RowsTyped, Fits, NoSeq
  <2>4. g \in Good'
    BY <2>3 DEF Good, Frames, GoodFrame, FramePCs, NoSeq
  <2>5. StacksGood'
    <3> HIDE DEF g
    <3> QED
      BY <1>1, <2>1, <2>2, <2>4, FrameMoves DEF RowsInv
  <2> QED
    BY <2>2, <2>5 DEF OrderInv
<1>4. CASE seq[e] # NoSeq
  <2> DEFINE g == [f EXCEPT !.pc = "claim", !.seq = NoSeq]
  <2>1. outraced' = outraced \cup {e} /\ Become(w, g)
        /\ UNCHANGED <<pub, recorded, counter, seq, inbox, lastSeq, unsequenced>>
    BY <1>4 DEF ScanAssign
  <2>2. RowsTyped' /\ Onward /\ ~Regular'
    BY <1>2, <2>1 DEF OrderInv, RowsInv, RowsTyped, Onward, Regular
  <2>3. RowsInv'
    <3>1. SeqsDrawn' /\ PublisherLeavesSeqs' /\ PublisherHolds'
      BY <2>1 DEF OrderInv, RowsInv, SeqsDrawn, PublisherLeavesSeqs,
                  PublisherHolds, Fits
    <3>2. WatermarkIsSeq' /\ BegunIsCounted' /\ SeqFollowsJournal'
      BY <2>1 DEF OrderInv, RowsInv, WatermarkIsSeq, BegunIsCounted, SeqFollowsJournal
    <3>3. WatermarkSound' /\ OrderedWhenRegular'
      BY <2>2 DEF WatermarkSound, OrderedWhenRegular
    <3> QED
      BY <2>2, <3>1, <3>2, <3>3 DEF RowsInv
  <2>4. f \in Good'
    BY <1>1, <2>2, GoodStays DEF OrderInv
  <2>5. g \in Good'
    BY <2>2, <2>4 DEF Good, Frames, GoodFrame, FramePCs, NoSeq
  <2>6. StacksGood'
    <3> HIDE DEF g
    <3> QED
      BY <1>1, <2>1, <2>2, <2>5, FrameMoves
  <2> QED
    BY <2>3, <2>6 DEF OrderInv
<1> QED
  BY <1>3, <1>4

(* No predecessor between watermark and own seq: all of them are below the  *)
(* watermark, hence completed.                                              *)
LEMMA ScanPredecessorsKeeps ==
    ASSUME OrderInv, NEW w \in Workers, ScanPredecessors(w)
    PROVE  OrderInv'
<1> DEFINE f == Top(w)
           e == f.event
           between == {p \in Events : lastSeq < seq[p] /\ seq[p] < seq[e]}
<1>1. Running(w) /\ UNCHANGED <<journal, inbox, lastSeq, outraced>>
      /\ f.pc = "preds" /\ Found(w, {Seen(p) : p \in between})
  BY DEF ScanPredecessors, At
<1>2. f \in Good /\ e \in Events /\ seq[e] # NoSeq
  <2>1. f \in Good
    BY <1>1, QuietMoves
  <2> QED
    BY <1>1, <2>1 DEF Good, Frames, GoodFrame
<1>3. /\ lastSeq \in Nat /\ recorded \in Nat
      /\ \A p \in Events : p \in Nat /\ seq[p] \in Nat
  BY Sizes DEF OrderInv, RowsInv, RowsTyped, Events
<1>4. \A p \in between : p <= recorded
  BY <1>3 DEF OrderInv, RowsInv, SeqsDrawn, NoSeq
<1>5. ASSUME between = {}, Regular, NEW m \in Events, m < e
      PROVE  inbox[m].state = "completed"
  <2>1. seq[m] # NoSeq /\ seq[m] < seq[e]
    BY <1>2, <1>5 DEF OrderInv, RowsInv, SeqFollowsJournal, Regular
  <2>2. seq[m] <= lastSeq
    BY <1>2, <1>3, <1>5, <2>1
  <2> QED
    BY <1>5, <2>1, <2>2 DEF OrderInv, RowsInv, WatermarkSound
<1> QED
  <2> HIDE DEF between
  <2>1. between \in SUBSET Events
    BY DEF between
  <2> QED
    BY <1>1, <1>4, <1>5, <2>1, FoundGood

(* The watermark moves to the first predecessor, which is still completed.  *)
LEMMA PassCompletedKeeps ==
    ASSUME OrderInv, NEW w \in Workers, PassCompleted(w)
    PROVE  OrderInv'
<1> DEFINE f == Top(w)
           p == FirstOf(f.todo)
           g == [f EXCEPT !.todo = @ \ {p}, !.progress = TRUE]
<1>1. Running(w) /\ f.todo # {} /\ p.state = "completed"
      /\ UNCHANGED <<journal, inbox, outraced>>
  BY DEF PassCompleted, At
<1>2. f \in Good
  BY <1>1, TopIsGood
<1>3. p \in f.todo /\ p \in Seens /\ StillSeen(p)
  <2>1. f.todo \in SUBSET Seens
    BY <1>2 DEF Good, Frames
  <2>2. p \in f.todo
    BY <1>1, <2>1, FirstIsLeft
  <2> HIDE DEF p
  <2> QED
    BY <1>2, <2>1, <2>2 DEF Good, GoodFrame
<1>4. CASE ~AdvanceMatches(p.seq)
  <2>1. UNCHANGED <<journal, inbox, lastSeq, outraced>> /\ Raise(w)
    BY <1>4 DEF PassCompleted
  <2> QED
    BY <2>1, QuietMoves
<1>5. CASE AdvanceMatches(p.seq)
  <2>1. lastSeq' = p.seq /\ Become(w, g)
    BY <1>5 DEF PassCompleted
  <2>2. PICK e \in Events : /\ e = p.event /\ seq[e] = p.seq /\ seq[e] # NoSeq
                            /\ inbox[e].state = "completed"
    <3>1. p.seq # NoSeq
      BY <1>3, <1>5 DEF AdvanceMatches, Seens, OrderInv, RowsInv, RowsTyped, NoSeq
    <3> HIDE DEF p
    <3> QED
      BY <1>1, <1>3, <3>1 DEF StillSeen, Seens
  <2>3. RowsInv' /\ Onward
    BY <1>1, <2>1, <2>2, WatermarkMoves DEF OrderInv
  <2>4. f \in Good'
    BY <1>2, <2>3, GoodStays DEF OrderInv, RowsInv
  <2>5. g \in Good'
    <3> HIDE DEF p
    <3> QED
      BY <2>4 DEF Good, Frames, GoodFrame
  <2>6. StacksGood'
    <3> HIDE DEF g
    <3> QED
      BY <1>1, <2>1, <2>3, <2>5, FrameMoves DEF RowsInv
  <2> QED
    BY <2>3, <2>6 DEF OrderInv
<1> QED
  BY <1>4, <1>5

(* The predecessor that is delivered first gets a frame of its own. *)
LEMMA DeliverPredecessorKeeps ==
    ASSUME OrderInv, NEW w \in Workers, DeliverPredecessor(w)
    PROVE  OrderInv'
<1> DEFINE f == Top(w)
           p == FirstOf(f.todo)
           caller == [f EXCEPT !.todo = @ \ {p},
                               !.progress = @ \/ p.state = "expired"]
<1>1. Running(w) /\ f.todo # {}
      /\ UNCHANGED <<journal, inbox, lastSeq, outraced>>
      /\ stack' = [stack EXCEPT ![w] = <<NewFrame(p.event), caller>> \o Tail(@)]
  BY DEF DeliverPredecessor, At
<1>2. f \in Good
  BY <1>1, QuietMoves
<1>3. p \in Seens /\ StillSeen(p)
  <2>1. f.todo \in SUBSET Seens
    BY <1>2 DEF Good, Frames
  <2>2. p \in f.todo
    BY <1>1, <2>1, FirstIsLeft
  <2> HIDE DEF p
  <2> QED
    BY <1>2, <2>1, <2>2 DEF Good, GoodFrame
<1>4. NewFrame(p.event) \in Good
  <2>1. p.event \in Events /\ p.event <= recorded
    BY <1>3 DEF Seens, StillSeen
  <2> QED
    BY <2>1, NewFrameGood DEF OrderInv
<1>5. caller \in Good
  <2> HIDE DEF p
  <2> QED
    BY <1>2 DEF Good, Frames, GoodFrame
<1>6. RowsInv' /\ Good' = Good
  BY <1>1, RowsKept DEF OrderInv
<1>7. stack' \in [Workers -> Seq(Good)]
  <2> HIDE DEF caller, p
  <2>1. stack[w] # <<>> /\ stack \in [Workers -> Seq(Good)]
    BY <1>1 DEF Running, OrderInv, StacksGood
  <2> QED
    BY <1>1, <1>4, <1>5, <2>1, StackMoves
<1> QED
  BY <1>6, <1>7 DEF OrderInv, StacksGood

(* A scan that is over defers its event or begins anew. *)
LEMMA EndOfScanKeeps ==
    ASSUME OrderInv, NEW w \in Workers, EndOfScan(w)
    PROVE  OrderInv'
<1> DEFINE f == Top(w)
           g == IF ~f.progress \/ (~f.blocked /\ f.scans = 1)
                THEN [f EXCEPT !.pc = "defer"]
                ELSE IF f.blocked THEN [f EXCEPT !.pc = "row", !.final = TRUE]
                ELSE [f EXCEPT !.pc = "row", !.scans = @ - 1]
<1>1. Running(w) /\ UNCHANGED <<journal, inbox, lastSeq, outraced>> /\ Become(w, g)
  BY DEF EndOfScan, At
<1>2. f \in Good
  BY <1>1, QuietMoves
<1>3. g \in Good
  <2>1. [f EXCEPT !.pc = "defer"] \in Good
    BY <1>2 DEF Good, Frames, GoodFrame, FramePCs
  <2>2. [f EXCEPT !.pc = "row", !.final = TRUE] \in Good
    BY <1>2 DEF Good, Frames, GoodFrame, FramePCs
  <2>3. ASSUME f.scans # 1
        PROVE  [f EXCEPT !.pc = "row", !.scans = @ - 1] \in Good
    <3>1. f.scans - 1 \in Nat \ {0}
      BY <1>2, <2>3 DEF Good, Frames
    <3> QED
      BY <1>2, <3>1 DEF Good, Frames, GoodFrame, FramePCs
  <2> QED
    BY <2>1, <2>2, <2>3
<1> QED
  <2> HIDE DEF g
  <2> QED
    BY <1>1, <1>3, QuietMoves

-----------------------------------------------------------------------------
(* The rest of deliver *)

(* An event that is deferred gives up what its frame knew. *)
LEMMA DeferKeeps ==
    ASSUME OrderInv, NEW w \in Workers, Defer(w)
    PROVE  OrderInv'
<1> DEFINE f == Top(w)
           e == f.event
           row == [inbox[e] EXCEPT !.state = "deferred"]
<1>1. Running(w) /\ UNCHANGED <<journal, lastSeq, outraced>>
  BY DEF Defer, At
<1>2. e \in Events /\ inbox[e] \in [state : States, attempts : Nat, live : BOOLEAN]
  BY <1>1, TopIsGood
<1>3. CASE inbox[e].state \in {"absent", "received", "deferred"}
  <2>1. inbox' = [inbox EXCEPT ![e] = row] /\ Return(w, "deferred")
    BY <1>3 DEF Defer
  <2>2. row \in [state : States, attempts : Nat, live : BOOLEAN]
        /\ row.state = "deferred" /\ row.attempts = inbox[e].attempts
    BY <1>2 DEF States
  <2>3. RowsInv' /\ Onward
    <3> HIDE DEF row
    <3> QED
      BY <1>1, <1>2, <1>3, <2>1, <2>2, RowMoves DEF OrderInv
  <2> QED
    BY <1>1, <2>1, <2>3, FrameMoves DEF OrderInv, RowsInv
<1>4. CASE ~(inbox[e].state \in {"absent", "received", "deferred"})
  <2>1. UNCHANGED <<journal, inbox, lastSeq, outraced>> /\ Raise(w)
    BY <1>4 DEF Defer
  <2> QED
    BY <2>1, QuietMoves
<1> QED
  BY <1>3, <1>4

(* A claim comes after all earlier events, as its frame knows. *)
LEMMA ClaimKeeps ==
    ASSUME OrderInv, NEW w \in Workers, Claim(w)
    PROVE  OrderInv'
<1> DEFINE f == Top(w)
           e == f.event
           n == inbox[e].attempts
           row == [state |-> "processing", attempts |-> n + 1, live |-> TRUE]
           g == [f EXCEPT !.pc = "handler", !.attempt = n + 1]
           free == inbox[e].state \in {"absent", "received", "deferred"} \/ Expired(e)
<1>1. Running(w) /\ f.pc = "claim" /\ UNCHANGED <<journal, lastSeq, outraced>>
  BY DEF Claim, At
<1>2. f \in Good /\ e \in Events
      /\ inbox[e] \in [state : States, attempts : Nat, live : BOOLEAN]
  BY <1>1, TopIsGood
<1>3. CASE free
  <2>1. inbox' = [inbox EXCEPT ![e] = row] /\ Become(w, g)
    BY <1>3 DEF Claim
  <2>2. row \in [state : States, attempts : Nat, live : BOOLEAN]
        /\ row.attempts > 0 /\ inbox[e].state # "completed"
    BY <1>2, <1>3 DEF States, Expired
  <2>3. Regular => \A m \in Events : m < e => inbox[m].state = "completed"
    BY <1>1, <1>2 DEF Good, GoodFrame
  <2>4. RowsInv' /\ Onward
    <3> HIDE DEF row
    <3> QED
      BY <1>1, <1>2, <2>1, <2>2, <2>3, RowMoves DEF OrderInv
  <2>5. f \in Good'
    BY <1>2, <2>4, GoodStays DEF OrderInv, RowsInv
  <2>6. g \in Good'
    <3>1. PICK a \in Nat : a = n + 1
      BY <1>2
    <3>2. [f EXCEPT !.pc = "handler", !.attempt = a] \in Good'
      BY <1>1, <2>5 DEF Good, Frames, GoodFrame, FramePCs
    <3> QED
      BY <3>1, <3>2
  <2>7. StacksGood'
    <3> HIDE DEF g
    <3> QED
      BY <1>1, <2>1, <2>4, <2>6, FrameMoves DEF RowsInv
  <2> QED
    BY <2>4, <2>7 DEF OrderInv
<1>4. CASE ~free
  <2>1. UNCHANGED <<journal, inbox, lastSeq, outraced>> /\ Return(w, "skipped")
    BY <1>4 DEF Claim
  <2> QED
    BY <1>1, <2>1, QuietMoves
<1> QED
  BY <1>3, <1>4

(* A completed event stays so; its frame moves on to the watermark. *)
LEMMA CompleteKeeps ==
    ASSUME OrderInv, NEW w \in Workers, Complete(w)
    PROVE  OrderInv'
<1> DEFINE f == Top(w)
           e == f.event
           row == [inbox[e] EXCEPT !.state = "completed", !.live = FALSE]
           g == [f EXCEPT !.pc = "advance"]
<1>1. Running(w) /\ f.pc = "handler" /\ UNCHANGED <<journal, lastSeq, outraced>>
  BY DEF Complete, At
<1>2. f \in Good /\ e \in Events
      /\ inbox[e] \in [state : States, attempts : Nat, live : BOOLEAN]
  BY <1>1, TopIsGood
<1>3. CASE HoldsLease(w)
  <2>1. inbox' = [inbox EXCEPT ![e] = row] /\ Become(w, g)
    BY <1>2, <1>3 DEF Complete, Goto, OrderInv, RowsInv, RowsTyped
  <2>2. row \in [state : States, attempts : Nat, live : BOOLEAN]
        /\ row.state = "completed" /\ row.attempts = inbox[e].attempts
    BY <1>2 DEF States
  <2>3. inbox[e].attempts > 0
    BY <1>2, <1>3 DEF HoldsLease, OrderInv, RowsInv, BegunIsCounted
  <2>4. inbox'[e].state = "completed"
    BY <1>2, <2>1, <2>2 DEF OrderInv, RowsInv, RowsTyped
  <2>5. RowsInv' /\ Onward
    <3> HIDE DEF row
    <3> QED
      BY <1>1, <1>2, <2>1, <2>2, <2>3, RowMoves DEF OrderInv
  <2>6. f \in Good'
    BY <1>2, <2>5, GoodStays DEF OrderInv, RowsInv
  <2>7. g \in Good'
    BY <1>1, <1>2, <2>4, <2>6 DEF Good, Frames, GoodFrame, FramePCs
  <2>8. StacksGood'
    <3> HIDE DEF g
    <3> QED
      BY <1>1, <2>1, <2>5, <2>7, FrameMoves DEF RowsInv
  <2> QED
    BY <2>5, <2>8 DEF OrderInv
<1>4. CASE ~HoldsLease(w)
  <2>1. UNCHANGED <<journal, inbox, lastSeq, outraced>> /\ Return(w, "fence_lost")
    BY <1>4 DEF Complete
  <2> QED
    BY <1>1, <2>1, QuietMoves
<1> QED
  BY <1>3, <1>4

(* A failed attempt leaves the event uncompleted and drops its frame. *)
LEMMA FailAttemptKeeps ==
    ASSUME OrderInv, NEW w \in Workers, FailAttempt(w)
    PROVE  OrderInv'
<1> DEFINE f == Top(w)
           e == f.event
           state == IF f.attempt >= MaxDeliver THEN "quarantined" ELSE "received"
           row == [inbox[e] EXCEPT !.state = state, !.live = FALSE]
<1>1. Running(w) /\ UNCHANGED <<journal, lastSeq, outraced>> /\ Return(w, state)
  BY DEF FailAttempt, At
<1>2. e \in Events /\ inbox[e] \in [state : States, attempts : Nat, live : BOOLEAN]
  BY <1>1, TopIsGood
<1>3. CASE HoldsLease(w)
  <2>1. inbox' = [inbox EXCEPT ![e] = row]
    BY <1>2, <1>3 DEF FailAttempt, OrderInv, RowsInv, RowsTyped
  <2>2. row \in [state : States, attempts : Nat, live : BOOLEAN]
        /\ row.attempts = inbox[e].attempts /\ inbox[e].state = "processing"
    BY <1>2, <1>3 DEF States, HoldsLease
  <2>3. inbox[e].attempts > 0
    BY <1>2, <2>2 DEF OrderInv, RowsInv, BegunIsCounted
  <2>4. RowsInv' /\ Onward
    <3> HIDE DEF row
    <3> QED
      BY <1>1, <1>2, <2>1, <2>2, <2>3, RowMoves DEF OrderInv
  <2> QED
    BY <1>1, <2>4, FrameMoves DEF OrderInv, RowsInv
<1>4. CASE ~HoldsLease(w)
  <2>1. UNCHANGED <<journal, inbox, lastSeq, outraced>>
    BY <1>4 DEF FailAttempt
  <2> QED
    BY <1>1, <2>1, QuietMoves
<1> QED
  BY <1>3, <1>4

(* The watermark moves up to the seq of the event that was completed. *)
LEMMA AdvanceKeeps ==
    ASSUME OrderInv, NEW w \in Workers, Advance(w)
    PROVE  OrderInv'
<1> DEFINE f == Top(w)
           e == f.event
<1>1. Running(w) /\ f.pc = "advance" /\ UNCHANGED <<journal, inbox, outraced>>
  BY DEF Advance, At
<1>2. e \in Events /\ inbox[e].state = "completed"
  <2>1. f \in Good /\ e \in Events
    BY <1>1, TopIsGood
  <2> QED
    BY <1>1, <2>1 DEF Good, GoodFrame
<1>3. CASE seq[e] # NoSeq /\ AdvanceMatches(seq[e])
  <2>1. lastSeq' = seq[e] /\ Return(w, "completed")
    BY <1>3 DEF Advance
  <2>2. RowsInv' /\ Onward
    BY <1>1, <1>2, <1>3, <2>1, WatermarkMoves DEF OrderInv
  <2> QED
    BY <1>1, <2>1, <2>2, FrameMoves DEF OrderInv, RowsInv
<1>4. CASE ~(seq[e] # NoSeq /\ AdvanceMatches(seq[e]))
  <2>1. UNCHANGED lastSeq /\ (Raise(w) \/ Return(w, "completed"))
    BY <1>4 DEF Advance
  <2> QED
    BY <1>1, <2>1, QuietMoves
<1> QED
  BY <1>3, <1>4

(* A worker that is lost leaves the rows as they are. *)
LEMMA LoseWorkerKeeps ==
    ASSUME OrderInv, NEW w \in Workers, LoseWorker(w)
    PROVE  OrderInv'
BY QuietMoves DEF LoseWorker

(* A lease that runs out changes no state and no seq. *)
LEMMA LeaseExpiresKeeps ==
    ASSUME OrderInv, NEW e \in Events, LeaseExpires(e)
    PROVE  OrderInv'
<1> DEFINE row == [inbox[e] EXCEPT !.live = FALSE]
<1>1. inbox[e].state = "processing" /\ UNCHANGED <<journal, lastSeq, stack, outraced>>
      /\ inbox[e] \in [state : States, attempts : Nat, live : BOOLEAN]
  BY DEF LeaseExpires, OrderInv, RowsInv, RowsTyped
<1>2. inbox' = [inbox EXCEPT ![e] = row]
  BY DEF LeaseExpires, OrderInv, RowsInv, RowsTyped
<1>3. row \in [state : States, attempts : Nat, live : BOOLEAN]
      /\ row.attempts = inbox[e].attempts /\ row.state = "processing"
  BY <1>1
<1>4. inbox[e].attempts > 0
  BY <1>1 DEF OrderInv, RowsInv, BegunIsCounted
<1>5. RowsInv' /\ Onward
  <2> HIDE DEF row
  <2> QED
    BY <1>1, <1>2, <1>3, <1>4, RowMoves DEF OrderInv
<1>6. StacksGood'
  <2>1. Good \subseteq Good'
    BY <1>5, GoodStays DEF OrderInv, RowsInv
  <2> QED
    BY <1>1, <2>1, SeqMonotonic DEF StacksGood, OrderInv
<1> QED
  BY <1>5, <1>6 DEF OrderInv

-----------------------------------------------------------------------------
(* The invariant *)

(* An empty journal with idle workers fits together. *)
LEMMA OrderInvInit == Init => OrderInv
<1> SUFFICES ASSUME Init PROVE OrderInv
  OBVIOUS
<1> USE DEF Init
<1>1. RowsTyped
  BY Sizes DEF RowsTyped, NoRow, NoSeq, States
<1>2. SeqsDrawn /\ PublisherLeavesSeqs /\ PublisherHolds /\ WatermarkIsSeq
  BY Sizes DEF SeqsDrawn, PublisherLeavesSeqs, PublisherHolds, WatermarkIsSeq, NoSeq, Events
<1>3. BegunIsCounted /\ SeqFollowsJournal /\ WatermarkSound /\ OrderedWhenRegular
  BY DEF BegunIsCounted, SeqFollowsJournal, WatermarkSound, OrderedWhenRegular,
         ClaimedInOrder, NoRow, NoSeq
<1>4. StacksGood
  <2>1. <<>> \in Seq(Good)
    OBVIOUS
  <2> QED
    BY <2>1 DEF StacksGood
<1> QED
  BY <1>1, <1>2, <1>3, <1>4 DEF OrderInv, RowsInv

(* Every step of publisher and gate keeps seqs, rows and frames together. *)
LEMMA OrderInvNext ==
    ASSUME OrderInv, [Next]_vars
    PROVE  OrderInv'
<1>1. ASSUME NEW w \in Workers, GateStep(w) PROVE OrderInv'
  BY <1>1, ScanRowKeeps, ScanBumpKeeps, ScanAssignKeeps, ScanPredecessorsKeeps,
     PassCompletedKeeps, DeliverPredecessorKeeps, EndOfScanKeeps DEF GateStep
<1>2. ASSUME NEW w \in Workers, DeliverStep(w) PROVE OrderInv'
  BY <1>2, DeferKeeps, ClaimKeeps, CompleteKeeps, FailAttemptKeeps, AdvanceKeeps
     DEF DeliverStep
<1>3. CASE Publish \/ PublisherStops
  BY <1>3, RecordKeeps, PublisherBumpKeeps, PublisherAssignKeeps, PublisherStopsKeeps
     DEF Publish
<1>4. CASE UNCHANGED vars
  <2>1. RowsInv' /\ Good' = Good
    BY <1>4, RowsKept DEF vars, journal, OrderInv
  <2> QED
    BY <1>4, <2>1 DEF OrderInv, StacksGood, vars
<1> QED
  BY <1>1, <1>2, <1>3, <1>4, LoseWorkerKeeps, DeliverKeeps, LeaseExpiresKeeps DEF Next

(* Seqs, watermark, rows and the frames of every worker fit together.       *)
THEOREM OrderInvariant == Spec => []OrderInv
<1> QED
  BY OrderInvInit, OrderInvNext, PTL DEF Spec

(* The state of the gate is well formed (eventlog.py, deliver). *)
THEOREM GateTypeCorrect == Spec => []TypeOK
<1>1. OrderInv => TypeOK
  <2> SUFFICES ASSUME OrderInv PROVE TypeOK
    OBVIOUS
  <2>1. ASSUME NEW w \in Workers, NEW i \in DOMAIN stack[w]
        PROVE  /\ stack[w][i].event \in 1 .. recorded
               /\ stack[w][i].pc \in FramePCs
               /\ \A p \in stack[w][i].todo : p.event \in Events
    <3>1. stack[w] \in Seq(Good)
      BY DEF OrderInv, StacksGood
    <3>2. stack[w][i] \in Good
      BY <2>1, <3>1, LenProperties, ElementOfSeq
    <3>3. stack[w][i] \in Frames /\ GoodFrame(stack[w][i])
      BY <3>2 DEF Good
    <3> QED
      BY SMTT(30), <3>3, Sizes DEF Frames, GoodFrame, Seens, Events, OrderInv, RowsInv, RowsTyped
  <2> QED
    BY <2>1 DEF TypeOK, OrderInv, RowsInv, RowsTyped
<1> QED
  BY <1>1, OrderInvariant, PTL

(* An event is claimed only when all earlier events of its scope are        *)
(* completed, as long as the seqs were set undisturbed (ADR-0002, 4a).      *)
THEOREM ScopeStaysOrdered == Spec => []OrderedWhenRegular
<1>1. OrderInv => OrderedWhenRegular
  BY DEF OrderInv, RowsInv
<1> QED
  BY <1>1, OrderInvariant, PTL

(* The watermark never passes an event that is not completed                *)
(* (eventlog.py, _advance_progress_sync).                                   *)
THEOREM WatermarkIsSound == Spec => []WatermarkSound
<1>1. OrderInv => WatermarkSound
  BY DEF OrderInv, RowsInv
<1> QED
  BY <1>1, OrderInvariant, PTL

(* Whoever wins the races for the seqs, their order is that of the journal, *)
(* unless a publication was cut short (eventlog.py, _publish_ordered).      *)
THEOREM SeqIsJournalOrder == Spec => []SeqFollowsJournal
<1>1. OrderInv => SeqFollowsJournal
  BY DEF OrderInv, RowsInv
<1> QED
  BY <1>1, OrderInvariant, PTL

(* An event keeps the first seq it gets, from publisher or gate. *)
THEOREM SeqIsKept == Spec => SeqSetOnce
<1>1. ASSUME OrderInv, [Next]_vars
      PROVE  [\A e \in Events : seq[e] # NoSeq => seq'[e] = seq[e]]_vars
  <2>1. ASSUME PublisherAssign PROVE \A e \in Events : seq[e] # NoSeq => seq'[e] = seq[e]
    BY <1>1, <2>1 DEF PublisherAssign, OrderInv, RowsInv, RowsTyped
  <2>2. ASSUME NEW w \in Workers, ScanAssign(w)
        PROVE  \A e \in Events : seq[e] # NoSeq => seq'[e] = seq[e]
    BY <1>1, <2>2 DEF ScanAssign, OrderInv, RowsInv, RowsTyped
  <2>3. ASSUME NEW w \in Workers, GateStep(w), ~ScanAssign(w) PROVE UNCHANGED seq
    BY <2>3 DEF GateStep, ScanRow, ScanBump, ScanPredecessors, PassCompleted,
                DeliverPredecessor, EndOfScan, journal
  <2>4. ASSUME NEW w \in Workers, DeliverStep(w) PROVE UNCHANGED seq
    BY <2>4 DEF DeliverStep, Defer, Claim, Complete, FailAttempt, Advance, journal
  <2>5. ASSUME NEW w \in Workers, LoseWorker(w) \/ \E e \in Events : Deliver(w, e)
        PROVE  UNCHANGED seq
    BY <2>5 DEF LoseWorker, Deliver, journal
  <2>6. ASSUME NEW e \in Events, LeaseExpires(e) PROVE UNCHANGED seq
    BY <2>6 DEF LeaseExpires, journal
  <2>7. ASSUME Record \/ PublisherBump \/ PublisherStops PROVE UNCHANGED seq
    BY <2>7 DEF Record, PublisherBump, PublisherStops
  <2>8. CASE UNCHANGED vars
    BY <2>8
  <2> QED
    BY <1>1, <2>1, <2>2, <2>3, <2>4, <2>5, <2>6, <2>7, <2>8 DEF Next, Publish
<1> QED
  BY <1>1, OrderInvariant, PTL DEF Spec, SeqSetOnce
=============================================================================
