------------------------- MODULE EventInboxProofs -------------------------
(* Proofs about EventInbox for any number of events and calls.  The         *)
(* inductive invariant says where lease tokens can be: a token is written   *)
(* once, to one row and one call, and a call that holds a live lease owns   *)
(* its row.                                                                 *)
EXTENDS EventInbox, TLAPS

(* Tokens are handed out in order. *)
TokensBounded ==
    /\ \A e \in Events : inbox[e].token <= lastToken
    /\ \A c \in Calls : call[c].token <= lastToken
    /\ \A e \in Events : \A t \in handled[e] : t <= lastToken
    /\ \A t \in expired : t <= lastToken

(* No two attempts and no two rows share a token, and the row that carries  *)
(* the token of an attempt is the row of its event.                         *)
TokensUnique ==
    /\ \A c, d \in Calls :
         c # d /\ Attempting(c) /\ Attempting(d) => call[c].token # call[d].token
    /\ \A e, f \in Events :
         e # f /\ inbox[e].token # NoToken => inbox[e].token # inbox[f].token
    /\ \A c \in Calls, e \in Events :
         Attempting(c) /\ inbox[e].token = call[c].token => call[c].event = e

(* What a call knows at each of its program points. *)
CallShape ==
    \A c \in Calls :
        /\ Busy(c) => call[c].event \in Journalled \cup Orphans
        /\ call[c].orphan => call[c].event \in Orphans
        /\ call[c].pc = "poison" => call[c].orphan
        /\ Attempting(c) => call[c].token # NoToken
        /\ call[c].pc = "find" => call[c].token \in expired \cup {NoToken}
        /\ call[c].pc = "takeover" => call[c].token \in expired
        /\ call[c].pc = "complete" => call[c].token \in handled[call[c].event]

(* A row in processing has a lease; a completed one keeps the token of the  *)
(* attempt that completed it.                                               *)
RowShape ==
    /\ \A e \in Events : inbox[e].state = "processing" => inbox[e].token # NoToken
    /\ CompletedByItsHolder

(* The attempts of a row count its claims; no call counts more of them. *)
Counting ==
    /\ \A e \in Events :
         /\ inbox[e].attempts = claims[e]
         /\ inbox[e].state = "absent" => claims[e] = 0
    /\ \A c \in Calls :
         call[c].pc \in {"takeover", "reclaim"} \/ Attempting(c)
         => call[c].attempts <= claims[call[c].event]
    /\ \A c \in Calls : Attempting(c) => claims[call[c].event] > 0
    /\ QuarantinedOnlyWhenSpent

IInv ==
    /\ TypeOK
    /\ TokensBounded
    /\ TokensUnique
    /\ CallShape
    /\ RowShape
    /\ LiveLeaseOwnsRow
    /\ Counting

-----------------------------------------------------------------------------

LEMMA InitIInv == Init => IInv
BY DisjointKinds, MaxDeliverPositive
   DEF Init, IInv, TypeOK, TokensBounded, TokensUnique, CallShape, RowShape,
       LiveLeaseOwnsRow, Counting, CompletedByItsHolder,
       QuarantinedOnlyWhenSpent, NoRow, Row, States, Claimable, Terminal,
       Idle, Local, NoToken, PCs, Attempting, Busy, HoldsLease, Events

(* Granting a claim: the call and the row get the next token.  The row was  *)
(* free or its lease was over, so no live lease is taken away.              *)
GrantPre(c, e, attempts, claimed) ==
    /\ call[c].event = e
    /\ ~Attempting(c)
    /\ inbox[e].state = "processing" => inbox[e].token \in expired
    /\ inbox[e].state \notin Terminal
    /\ attempts = claims[e] + 1
    /\ claimed \in Nat /\ claimed <= attempts
    /\ expired' = expired /\ handled' = handled
    /\ crashes' = crashes /\ slow' = slow /\ blocks' = blocks

LEMMA GrantIInv ==
    ASSUME IInv,
           NEW c \in Calls, NEW e \in Journalled \cup Orphans,
           NEW attempts \in Nat, NEW claimed,
           GrantPre(c, e, attempts, claimed),
           Grant(c, e, attempts, claimed)
    PROVE  IInv'
<1> DEFINE t == lastToken + 1
<1>1. /\ e \in Events
      /\ t \in Nat /\ t # NoToken
      /\ \A n \in Nat : n <= lastToken => n <= t /\ n # t
  BY DEF Events, IInv, TypeOK, NoToken
<1>2. /\ lastToken' = t
      /\ claims' = [claims EXCEPT ![e] = @ + 1]
      /\ inbox' \in [Events -> Row]
      /\ inbox'[e] = [state |-> "processing", attempts |-> attempts, token |-> t]
      /\ \A f \in Events : f # e => inbox'[f] = inbox[f]
  BY <1>1 DEF Grant, IInv, TypeOK, Row, States
<1>3. /\ call'[c] = Local(IF call[c].orphan THEN "poison" ELSE "handler",
                          e, call[c].orphan, t, claimed)
      /\ \A d \in Calls : d # c => call'[d] = call[d]
  BY DEF Grant, IInv, TypeOK
<1>4. TypeOK'
  <2>1. call'[c] \in [pc : PCs, event : Events \cup {NoEvent},
                      orphan : BOOLEAN, token : Nat, attempts : Nat]
    BY <1>1, <1>3 DEF Local, PCs, GrantPre, IInv, TypeOK
  <2>2. call' \in [Calls -> [pc : PCs, event : Events \cup {NoEvent},
                             orphan : BOOLEAN, token : Nat, attempts : Nat]]
    BY <2>1 DEF Grant, IInv, TypeOK, Local
  <2>3. \A f \in Events : inbox'[f].state \in States
    BY <1>2 DEF States, IInv, TypeOK
  <2> QED
    BY <1>1, <1>2, <2>2, <2>3 DEF GrantPre, IInv, TypeOK
<1>5. TokensBounded'
  BY SMTT(30), <1>1, <1>2, <1>3 DEF GrantPre, TokensBounded, IInv, TypeOK, Row, Local
<1>6. TokensUnique'
  <2>1. \A d \in Calls : d # c => call'[d].token # t /\ (Attempting(d)' <=> Attempting(d))
    BY <1>1, <1>3 DEF TokensBounded, IInv, TypeOK, Attempting
  <2>2. \A f \in Events : f # e => inbox'[f].token # t
    BY <1>1, <1>2 DEF TokensBounded, IInv, TypeOK, Row
  <2>3. call'[c].token = t /\ call'[c].event = e /\ inbox'[e].token = t
    BY <1>2, <1>3 DEF Local
  <2> QED
    BY <1>2, <1>3, <2>1, <2>2, <2>3 DEF TokensUnique, IInv, Attempting, NoToken
<1>7. CallShape'
  <2>1. ASSUME NEW d \in Calls, d # c PROVE CallShape!(d)'
    BY <1>3, <2>1 DEF CallShape, GrantPre, IInv, Busy, Attempting
  <2>2. CallShape!(c)'
    BY <1>1, <1>3 DEF CallShape, IInv, TypeOK, Busy, Attempting, Local, GrantPre
  <2> QED
    BY <2>1, <2>2 DEF CallShape
<1>8. RowShape'
  BY <1>1, <1>2 DEF GrantPre, RowShape, CompletedByItsHolder, IInv
<1>9. LiveLeaseOwnsRow'
  <2>1. ASSUME NEW d \in Calls, d # c, Attempting(d)', call'[d].token \notin expired'
        PROVE  HoldsLease(d)'
    <3>1. Attempting(d) /\ call[d].token \notin expired /\ HoldsLease(d)
      BY <1>3, <2>1 DEF GrantPre, Attempting, LiveLeaseOwnsRow, IInv
    <3>2. call[d].event # e
      BY <3>1 DEF HoldsLease, GrantPre, IInv
    <3>3. call[d].event \in Events
      BY <3>1 DEF CallShape, IInv, Busy, Attempting, Events
    <3> QED
      BY <1>2, <1>3, <2>1, <3>1, <3>2, <3>3 DEF HoldsLease
  <2>2. HoldsLease(c)'
    BY <1>2, <1>3 DEF HoldsLease, Local
  <2> QED
    BY <2>1, <2>2 DEF LiveLeaseOwnsRow
<1>10. Counting'
  <2>1. /\ \A f \in Events : f # e => claims'[f] = claims[f]
        /\ claims'[e] = claims[e] + 1 /\ claims[e] \in Nat
    BY <1>1, <1>2 DEF IInv, TypeOK
  <2>2. \A f \in Events :
          /\ inbox'[f].attempts = claims'[f]
          /\ inbox'[f].state = "absent" => claims'[f] = 0
    BY <1>2, <2>1 DEF Counting, IInv, GrantPre
  <2>3. ASSUME NEW d \in Calls,
               call'[d].pc \in {"takeover", "reclaim"} \/ Attempting(d)'
        PROVE  call'[d].attempts <= claims'[call'[d].event]
    <3>1. CASE d = c
      BY <1>3, <2>1, <3>1 DEF GrantPre, Local
    <3>2. CASE d # c
      <4>1. call'[d] = call[d] /\ call[d].event \in Events /\ call[d].attempts \in Nat
        BY <1>3, <2>3, <3>2 DEF CallShape, IInv, TypeOK, Busy, Attempting, Events
      <4>2. call[d].attempts <= claims[call[d].event]
        BY <2>3, <4>1 DEF Counting, IInv, Attempting
      <4>3. claims[call[d].event] \in Nat
        BY <4>1 DEF IInv, TypeOK
      <4> QED
        BY <2>1, <4>1, <4>2, <4>3
    <3> QED
      BY <3>1, <3>2
  <2>5. ASSUME NEW d \in Calls, Attempting(d)' PROVE claims'[call'[d].event] > 0
    <3>1. CASE d = c
      BY <1>3, <2>1, <3>1 DEF Local
    <3>2. CASE d # c
      <4>1. call'[d] = call[d] /\ call[d].event \in Events /\ Attempting(d)
        BY <1>3, <2>5, <3>2 DEF CallShape, IInv, Busy, Attempting, Events
      <4> QED
        BY <2>1, <4>1 DEF Counting, IInv, TypeOK
    <3> QED
      BY <3>1, <3>2
  <2>4. QuarantinedOnlyWhenSpent'
    BY <1>2, <2>1 DEF QuarantinedOnlyWhenSpent, Counting, IInv, Events
  <2> QED
    BY <2>2, <2>3, <2>4, <2>5 DEF Counting
<1> QED
  BY <1>4, <1>5, <1>6, <1>7, <1>8, <1>9, <1>10 DEF IInv

-----------------------------------------------------------------------------
(* The steps that grant nothing. *)

InsertMisses(c) == ClaimInsert(c) /\ inbox[call[c].event].state # "absent"

UpdateMisses(c) ==
    /\ call[c].pc \in {"takeover", "reclaim"}
    /\ Return(c)
    /\ UNCHANGED <<inbox, expired, lastToken, handled, claims>> /\ BoundsUnchanged

OtherStep ==
    \/ \E c \in Calls :
         \/ MarkDeferred(c) \/ InsertMisses(c) \/ ClaimFind(c) \/ UpdateMisses(c)
         \/ HandlerReturns(c) \/ HandlerRaises(c)
         \/ Complete(c) \/ FailAttempt(c)
         \/ LoseCall(c) \/ LeaseOverrun(c)
    \/ \E c \in Calls, e \in Journalled \cup Orphans :
         Deliver(c, e) \/ GateBlocks(c, e) \/ QuarantineOrphan(c, e)
    \/ \E e \in Events : QuarantinePoison(e) \/ AbandonedLeaseExpires(e)

(* TypeOK is preserved: every step writes well-formed rows and calls. *)
LEMMA TypeOKStep ==
    ASSUME TypeOK, CallShape, [OtherStep]_vars
    PROVE  TypeOK'
<1> USE DisjointKinds, MaxDeliverPositive
<1> USE DEF Events, TypeOK, Row, NoRow, States, Claimable, Terminal, PCs, Idle,
            Local, NoToken, Goto, Return, BoundsUnchanged, CallShape, Busy, Attempting, HoldsLease
<1>1. ASSUME NEW c \in Calls, NEW e \in Journalled \cup Orphans,
             Deliver(c, e)
      PROVE  TypeOK'
  BY <1>1 DEF Deliver
<1>2. ASSUME NEW c \in Calls, NEW e \in Journalled \cup Orphans,
             GateBlocks(c, e)
      PROVE  TypeOK'
  BY <1>2 DEF GateBlocks
<1>3. ASSUME NEW c \in Calls, NEW e \in Journalled \cup Orphans,
             QuarantineOrphan(c, e)
      PROVE  TypeOK'
  BY <1>3 DEF QuarantineOrphan
<1>4. ASSUME NEW c \in Calls,
             MarkDeferred(c)
      PROVE  TypeOK'
  BY <1>4 DEF MarkDeferred
<1>5. ASSUME NEW c \in Calls,
             InsertMisses(c)
      PROVE  TypeOK'
  BY <1>5 DEF InsertMisses, ClaimInsert
<1>6. ASSUME NEW c \in Calls,
             ClaimFind(c)
      PROVE  TypeOK'
  BY <1>6 DEF ClaimFind
<1>7. ASSUME NEW c \in Calls,
             UpdateMisses(c)
      PROVE  TypeOK'
  BY <1>7 DEF UpdateMisses
<1>8. ASSUME NEW c \in Calls,
             HandlerReturns(c)
      PROVE  TypeOK'
  BY <1>8 DEF HandlerReturns
<1>9. ASSUME NEW c \in Calls,
             HandlerRaises(c)
      PROVE  TypeOK'
  BY <1>9 DEF HandlerRaises
<1>10. ASSUME NEW c \in Calls,
             Complete(c)
      PROVE  TypeOK'
  BY <1>10 DEF Complete
<1>11. ASSUME NEW c \in Calls,
             FailAttempt(c)
      PROVE  TypeOK'
  BY SMTT(30), <1>11 DEF FailAttempt, FailureState
<1>12. ASSUME NEW e \in Events,
             QuarantinePoison(e)
      PROVE  TypeOK'
  BY <1>12 DEF QuarantinePoison
<1>13. ASSUME NEW c \in Calls,
             LoseCall(c)
      PROVE  TypeOK'
  BY <1>13 DEF LoseCall
<1>14. ASSUME NEW c \in Calls,
             LeaseOverrun(c)
      PROVE  TypeOK'
  <2>1. expired' \subseteq Nat
    <3>1. call[c].token \in Nat
      OBVIOUS
    <3> QED
      BY <1>14, <3>1, Zenon DEF LeaseOverrun
  <2>2. slow' \in Nat
    BY <1>14 DEF LeaseOverrun
  <2> QED
    BY <1>14, <2>1, <2>2 DEF LeaseOverrun
<1>15. ASSUME NEW e \in Events,
             AbandonedLeaseExpires(e)
      PROVE  TypeOK'
  BY ZenonT(40), <1>15 DEF AbandonedLeaseExpires
<1>16. CASE UNCHANGED vars
  BY <1>16 DEF vars
<1> QED
  BY <1>1, <1>2, <1>3, <1>4, <1>5, <1>6, <1>7, <1>8, <1>9, <1>10, <1>11, <1>12, <1>13, <1>14, <1>15, <1>16 DEF OtherStep

(* A step grants the next token or none. *)
LEMMA TokensBoundedStep ==
    ASSUME TokensBounded, TypeOK, CallShape, [OtherStep]_vars
    PROVE  TokensBounded'
<1> USE DisjointKinds, MaxDeliverPositive
<1> USE DEF Events, TypeOK, Row, NoRow, States, Claimable, Terminal, PCs, Idle,
            Local, NoToken, Goto, Return, BoundsUnchanged, TokensBounded, CallShape, Busy, HoldsLease
<1>1. ASSUME NEW c \in Calls, NEW e \in Journalled \cup Orphans,
             Deliver(c, e)
      PROVE  TokensBounded'
  BY <1>1 DEF Deliver
<1>2. ASSUME NEW c \in Calls, NEW e \in Journalled \cup Orphans,
             GateBlocks(c, e)
      PROVE  TokensBounded'
  BY <1>2 DEF GateBlocks
<1>3. ASSUME NEW c \in Calls, NEW e \in Journalled \cup Orphans,
             QuarantineOrphan(c, e)
      PROVE  TokensBounded'
  BY <1>3 DEF QuarantineOrphan
<1>4. ASSUME NEW c \in Calls,
             MarkDeferred(c)
      PROVE  TokensBounded'
  BY <1>4 DEF MarkDeferred
<1>5. ASSUME NEW c \in Calls,
             InsertMisses(c)
      PROVE  TokensBounded'
  BY <1>5 DEF InsertMisses, ClaimInsert
<1>6. ASSUME NEW c \in Calls,
             ClaimFind(c)
      PROVE  TokensBounded'
  BY <1>6 DEF ClaimFind
<1>7. ASSUME NEW c \in Calls,
             UpdateMisses(c)
      PROVE  TokensBounded'
  BY <1>7 DEF UpdateMisses
<1>8. ASSUME NEW c \in Calls,
             HandlerReturns(c)
      PROVE  TokensBounded'
  BY <1>8 DEF HandlerReturns
<1>9. ASSUME NEW c \in Calls,
             HandlerRaises(c)
      PROVE  TokensBounded'
  BY <1>9 DEF HandlerRaises
<1>10. ASSUME NEW c \in Calls,
             Complete(c)
      PROVE  TokensBounded'
  BY <1>10 DEF Complete
<1>11. ASSUME NEW c \in Calls,
             FailAttempt(c)
      PROVE  TokensBounded'
  BY <1>11 DEF FailAttempt, FailureState
<1>12. ASSUME NEW e \in Events,
             QuarantinePoison(e)
      PROVE  TokensBounded'
  BY <1>12 DEF QuarantinePoison
<1>13. ASSUME NEW c \in Calls,
             LoseCall(c)
      PROVE  TokensBounded'
  BY <1>13 DEF LoseCall
<1>14. ASSUME NEW c \in Calls,
             LeaseOverrun(c)
      PROVE  TokensBounded'
  BY <1>14 DEF LeaseOverrun
<1>15. ASSUME NEW e \in Events,
             AbandonedLeaseExpires(e)
      PROVE  TokensBounded'
  BY <1>15 DEF AbandonedLeaseExpires
<1>16. CASE UNCHANGED vars
  BY <1>16 DEF vars
<1> QED
  BY <1>1, <1>2, <1>3, <1>4, <1>5, <1>6, <1>7, <1>8, <1>9, <1>10, <1>11, <1>12, <1>13, <1>14, <1>15, <1>16 DEF OtherStep

(* A granted token is new, and the attempt that gets it is the only one. *)
LEMMA TokensUniqueStep ==
    ASSUME TokensUnique, TypeOK, CallShape, TokensBounded, [OtherStep]_vars
    PROVE  TokensUnique'
<1> USE DisjointKinds, MaxDeliverPositive
<1> USE DEF Events, TypeOK, Row, NoRow, States, Claimable, Terminal, PCs, Idle,
            Local, NoToken, Goto, Return, BoundsUnchanged, TokensUnique, TokensBounded, CallShape, Busy, Attempting, HoldsLease
<1>1. ASSUME NEW c \in Calls, NEW e \in Journalled \cup Orphans,
             Deliver(c, e)
      PROVE  TokensUnique'
  BY <1>1 DEF Deliver
<1>2. ASSUME NEW c \in Calls, NEW e \in Journalled \cup Orphans,
             GateBlocks(c, e)
      PROVE  TokensUnique'
  BY <1>2 DEF GateBlocks
<1>3. ASSUME NEW c \in Calls, NEW e \in Journalled \cup Orphans,
             QuarantineOrphan(c, e)
      PROVE  TokensUnique'
  BY <1>3 DEF QuarantineOrphan
<1>4. ASSUME NEW c \in Calls,
             MarkDeferred(c)
      PROVE  TokensUnique'
  BY <1>4 DEF MarkDeferred
<1>5. ASSUME NEW c \in Calls,
             InsertMisses(c)
      PROVE  TokensUnique'
  BY SMTT(30), <1>5 DEF InsertMisses, ClaimInsert
<1>6. ASSUME NEW c \in Calls,
             ClaimFind(c)
      PROVE  TokensUnique'
  BY SMTT(30), <1>6 DEF ClaimFind
<1>7. ASSUME NEW c \in Calls,
             UpdateMisses(c)
      PROVE  TokensUnique'
  BY <1>7 DEF UpdateMisses
<1>8. ASSUME NEW c \in Calls,
             HandlerReturns(c)
      PROVE  TokensUnique'
  BY <1>8 DEF HandlerReturns
<1>9. ASSUME NEW c \in Calls,
             HandlerRaises(c)
      PROVE  TokensUnique'
  BY <1>9 DEF HandlerRaises
<1>10. ASSUME NEW c \in Calls,
             Complete(c)
      PROVE  TokensUnique'
  BY <1>10 DEF Complete
<1>11. ASSUME NEW c \in Calls,
             FailAttempt(c)
      PROVE  TokensUnique'
  BY SMTT(30), <1>11 DEF FailAttempt, FailureState
<1>12. ASSUME NEW e \in Events,
             QuarantinePoison(e)
      PROVE  TokensUnique'
  BY <1>12 DEF QuarantinePoison
<1>13. ASSUME NEW c \in Calls,
             LoseCall(c)
      PROVE  TokensUnique'
  BY <1>13 DEF LoseCall
<1>14. ASSUME NEW c \in Calls,
             LeaseOverrun(c)
      PROVE  TokensUnique'
  BY <1>14 DEF LeaseOverrun
<1>15. ASSUME NEW e \in Events,
             AbandonedLeaseExpires(e)
      PROVE  TokensUnique'
  BY <1>15 DEF AbandonedLeaseExpires
<1>16. CASE UNCHANGED vars
  BY <1>16 DEF vars
<1> QED
  BY <1>1, <1>2, <1>3, <1>4, <1>5, <1>6, <1>7, <1>8, <1>9, <1>10, <1>11, <1>12, <1>13, <1>14, <1>15, <1>16 DEF OtherStep

(* What a call knows stays true until its own next step. *)
LEMMA CallShapeStep ==
    ASSUME CallShape, TypeOK, RowShape, [OtherStep]_vars
    PROVE  CallShape'
<1> USE DisjointKinds, MaxDeliverPositive
<1> USE DEF Events, TypeOK, Row, NoRow, States, Claimable, Terminal, PCs, Idle,
            Local, NoToken, Goto, Return, BoundsUnchanged, CallShape, RowShape, Attempting, Busy, HoldsLease
<1>1. ASSUME NEW c \in Calls, NEW e \in Journalled \cup Orphans,
             Deliver(c, e)
      PROVE  CallShape'
  BY <1>1 DEF Deliver
<1>2. ASSUME NEW c \in Calls, NEW e \in Journalled \cup Orphans,
             GateBlocks(c, e)
      PROVE  CallShape'
  BY <1>2 DEF GateBlocks
<1>3. ASSUME NEW c \in Calls, NEW e \in Journalled \cup Orphans,
             QuarantineOrphan(c, e)
      PROVE  CallShape'
  BY <1>3 DEF QuarantineOrphan
<1>4. ASSUME NEW c \in Calls,
             MarkDeferred(c)
      PROVE  CallShape'
  BY <1>4 DEF MarkDeferred
<1>5. ASSUME NEW c \in Calls,
             InsertMisses(c)
      PROVE  CallShape'
  BY <1>5 DEF InsertMisses, ClaimInsert
<1>6. ASSUME NEW c \in Calls,
             ClaimFind(c)
      PROVE  CallShape'
  BY SMTT(30), <1>6 DEF ClaimFind
<1>7. ASSUME NEW c \in Calls,
             UpdateMisses(c)
      PROVE  CallShape'
  BY <1>7 DEF UpdateMisses
<1>8. ASSUME NEW c \in Calls,
             HandlerReturns(c)
      PROVE  CallShape'
  BY <1>8 DEF HandlerReturns
<1>9. ASSUME NEW c \in Calls,
             HandlerRaises(c)
      PROVE  CallShape'
  BY <1>9 DEF HandlerRaises
<1>10. ASSUME NEW c \in Calls,
             Complete(c)
      PROVE  CallShape'
  BY <1>10 DEF Complete
<1>11. ASSUME NEW c \in Calls,
             FailAttempt(c)
      PROVE  CallShape'
  BY <1>11 DEF FailAttempt, FailureState
<1>12. ASSUME NEW e \in Events,
             QuarantinePoison(e)
      PROVE  CallShape'
  BY <1>12 DEF QuarantinePoison
<1>13. ASSUME NEW c \in Calls,
             LoseCall(c)
      PROVE  CallShape'
  BY <1>13 DEF LoseCall
<1>14. ASSUME NEW c \in Calls,
             LeaseOverrun(c)
      PROVE  CallShape'
  BY <1>14 DEF LeaseOverrun
<1>15. ASSUME NEW e \in Events,
             AbandonedLeaseExpires(e)
      PROVE  CallShape'
  BY <1>15 DEF AbandonedLeaseExpires
<1>16. CASE UNCHANGED vars
  BY <1>16 DEF vars
<1> QED
  BY <1>1, <1>2, <1>3, <1>4, <1>5, <1>6, <1>7, <1>8, <1>9, <1>10, <1>11, <1>12, <1>13, <1>14, <1>15, <1>16 DEF OtherStep

(* Only the attempt that holds the row completes it. *)
LEMMA RowShapeStep ==
    ASSUME RowShape, TypeOK, CallShape, [OtherStep]_vars
    PROVE  RowShape'
<1> USE DisjointKinds, MaxDeliverPositive
<1> USE DEF Events, TypeOK, Row, NoRow, States, Claimable, Terminal, PCs, Idle,
            Local, NoToken, Goto, Return, BoundsUnchanged, RowShape, CompletedByItsHolder, CallShape, Busy, Attempting, HoldsLease
<1>1. ASSUME NEW c \in Calls, NEW e \in Journalled \cup Orphans,
             Deliver(c, e)
      PROVE  RowShape'
  BY <1>1 DEF Deliver
<1>2. ASSUME NEW c \in Calls, NEW e \in Journalled \cup Orphans,
             GateBlocks(c, e)
      PROVE  RowShape'
  BY <1>2 DEF GateBlocks
<1>3. ASSUME NEW c \in Calls, NEW e \in Journalled \cup Orphans,
             QuarantineOrphan(c, e)
      PROVE  RowShape'
  BY <1>3 DEF QuarantineOrphan
<1>4. ASSUME NEW c \in Calls,
             MarkDeferred(c)
      PROVE  RowShape'
  BY <1>4 DEF MarkDeferred
<1>5. ASSUME NEW c \in Calls,
             InsertMisses(c)
      PROVE  RowShape'
  BY <1>5 DEF InsertMisses, ClaimInsert
<1>6. ASSUME NEW c \in Calls,
             ClaimFind(c)
      PROVE  RowShape'
  BY <1>6 DEF ClaimFind
<1>7. ASSUME NEW c \in Calls,
             UpdateMisses(c)
      PROVE  RowShape'
  BY <1>7 DEF UpdateMisses
<1>8. ASSUME NEW c \in Calls,
             HandlerReturns(c)
      PROVE  RowShape'
  BY <1>8 DEF HandlerReturns
<1>9. ASSUME NEW c \in Calls,
             HandlerRaises(c)
      PROVE  RowShape'
  BY <1>9 DEF HandlerRaises
<1>10. ASSUME NEW c \in Calls,
             Complete(c)
      PROVE  RowShape'
  BY <1>10 DEF Complete
<1>11. ASSUME NEW c \in Calls,
             FailAttempt(c)
      PROVE  RowShape'
  BY SMTT(30), <1>11 DEF FailAttempt, FailureState
<1>12. ASSUME NEW e \in Events,
             QuarantinePoison(e)
      PROVE  RowShape'
  BY <1>12 DEF QuarantinePoison
<1>13. ASSUME NEW c \in Calls,
             LoseCall(c)
      PROVE  RowShape'
  BY <1>13 DEF LoseCall
<1>14. ASSUME NEW c \in Calls,
             LeaseOverrun(c)
      PROVE  RowShape'
  BY <1>14 DEF LeaseOverrun
<1>15. ASSUME NEW e \in Events,
             AbandonedLeaseExpires(e)
      PROVE  RowShape'
  BY <1>15 DEF AbandonedLeaseExpires
<1>16. CASE UNCHANGED vars
  BY <1>16 DEF vars
<1> QED
  BY <1>1, <1>2, <1>3, <1>4, <1>5, <1>6, <1>7, <1>8, <1>9, <1>10, <1>11, <1>12, <1>13, <1>14, <1>15, <1>16 DEF OtherStep

(* Nobody takes a row away from a call whose lease is not over. *)
LEMMA LiveLeaseStep ==
    ASSUME LiveLeaseOwnsRow, TypeOK, TokensBounded, TokensUnique, CallShape, [OtherStep]_vars
    PROVE  LiveLeaseOwnsRow'
<1> USE DisjointKinds, MaxDeliverPositive
<1> USE DEF Events, TypeOK, Row, NoRow, States, Claimable, Terminal, PCs, Idle,
            Local, NoToken, Goto, Return, BoundsUnchanged, LiveLeaseOwnsRow, TokensBounded, TokensUnique, CallShape, Busy, Attempting, HoldsLease
<1>1. ASSUME NEW c \in Calls, NEW e \in Journalled \cup Orphans,
             Deliver(c, e)
      PROVE  LiveLeaseOwnsRow'
  BY <1>1 DEF Deliver
<1>2. ASSUME NEW c \in Calls, NEW e \in Journalled \cup Orphans,
             GateBlocks(c, e)
      PROVE  LiveLeaseOwnsRow'
  BY <1>2 DEF GateBlocks
<1>3. ASSUME NEW c \in Calls, NEW e \in Journalled \cup Orphans,
             QuarantineOrphan(c, e)
      PROVE  LiveLeaseOwnsRow'
  BY <1>3 DEF QuarantineOrphan
<1>4. ASSUME NEW c \in Calls,
             MarkDeferred(c)
      PROVE  LiveLeaseOwnsRow'
  BY <1>4 DEF MarkDeferred
<1>5. ASSUME NEW c \in Calls,
             InsertMisses(c)
      PROVE  LiveLeaseOwnsRow'
  BY <1>5 DEF InsertMisses, ClaimInsert
<1>6. ASSUME NEW c \in Calls,
             ClaimFind(c)
      PROVE  LiveLeaseOwnsRow'
  BY SMTT(30), <1>6 DEF ClaimFind
<1>7. ASSUME NEW c \in Calls,
             UpdateMisses(c)
      PROVE  LiveLeaseOwnsRow'
  BY <1>7 DEF UpdateMisses
<1>8. ASSUME NEW c \in Calls,
             HandlerReturns(c)
      PROVE  LiveLeaseOwnsRow'
  BY <1>8 DEF HandlerReturns
<1>9. ASSUME NEW c \in Calls,
             HandlerRaises(c)
      PROVE  LiveLeaseOwnsRow'
  BY <1>9 DEF HandlerRaises
<1>10. ASSUME NEW c \in Calls,
             Complete(c)
      PROVE  LiveLeaseOwnsRow'
  BY <1>10 DEF Complete
<1>11. ASSUME NEW c \in Calls,
             FailAttempt(c)
      PROVE  LiveLeaseOwnsRow'
  BY SMTT(30), <1>11 DEF FailAttempt, FailureState
<1>12. ASSUME NEW e \in Events,
             QuarantinePoison(e)
      PROVE  LiveLeaseOwnsRow'
  BY <1>12 DEF QuarantinePoison
<1>13. ASSUME NEW c \in Calls,
             LoseCall(c)
      PROVE  LiveLeaseOwnsRow'
  BY <1>13 DEF LoseCall
<1>14. ASSUME NEW c \in Calls,
             LeaseOverrun(c)
      PROVE  LiveLeaseOwnsRow'
  BY <1>14 DEF LeaseOverrun
<1>15. ASSUME NEW e \in Events,
             AbandonedLeaseExpires(e)
      PROVE  LiveLeaseOwnsRow'
  BY <1>15 DEF AbandonedLeaseExpires
<1>16. CASE UNCHANGED vars
  BY <1>16 DEF vars
<1> QED
  BY <1>1, <1>2, <1>3, <1>4, <1>5, <1>6, <1>7, <1>8, <1>9, <1>10, <1>11, <1>12, <1>13, <1>14, <1>15, <1>16 DEF OtherStep

(* Only granting a claim counts as an attempt. *)
LEMMA CountingStep ==
    ASSUME Counting, TypeOK, CallShape, [OtherStep]_vars
    PROVE  Counting'
<1> USE DisjointKinds, MaxDeliverPositive
<1> USE DEF Events, TypeOK, Row, NoRow, States, Claimable, Terminal, PCs, Idle,
            Local, NoToken, Goto, Return, BoundsUnchanged, Counting, QuarantinedOnlyWhenSpent, CallShape, Busy, Attempting, HoldsLease
<1>1. ASSUME NEW c \in Calls, NEW e \in Journalled \cup Orphans,
             Deliver(c, e)
      PROVE  Counting'
  BY <1>1 DEF Deliver
<1>2. ASSUME NEW c \in Calls, NEW e \in Journalled \cup Orphans,
             GateBlocks(c, e)
      PROVE  Counting'
  BY <1>2 DEF GateBlocks
<1>3. ASSUME NEW c \in Calls, NEW e \in Journalled \cup Orphans,
             QuarantineOrphan(c, e)
      PROVE  Counting'
  BY <1>3 DEF QuarantineOrphan
<1>4. ASSUME NEW c \in Calls,
             MarkDeferred(c)
      PROVE  Counting'
  BY <1>4 DEF MarkDeferred
<1>5. ASSUME NEW c \in Calls,
             InsertMisses(c)
      PROVE  Counting'
  BY <1>5 DEF InsertMisses, ClaimInsert
<1>6. ASSUME NEW c \in Calls,
             ClaimFind(c)
      PROVE  Counting'
  BY SMTT(30), <1>6 DEF ClaimFind
<1>7. ASSUME NEW c \in Calls,
             UpdateMisses(c)
      PROVE  Counting'
  BY <1>7 DEF UpdateMisses
<1>8. ASSUME NEW c \in Calls,
             HandlerReturns(c)
      PROVE  Counting'
  BY <1>8 DEF HandlerReturns
<1>9. ASSUME NEW c \in Calls,
             HandlerRaises(c)
      PROVE  Counting'
  BY <1>9 DEF HandlerRaises
<1>10. ASSUME NEW c \in Calls,
             Complete(c)
      PROVE  Counting'
  BY <1>10 DEF Complete
<1>11. ASSUME NEW c \in Calls,
             FailAttempt(c)
      PROVE  Counting'
  BY SMTT(30), <1>11 DEF FailAttempt, FailureState
<1>12. ASSUME NEW e \in Events,
             QuarantinePoison(e)
      PROVE  Counting'
  BY <1>12 DEF QuarantinePoison
<1>13. ASSUME NEW c \in Calls,
             LoseCall(c)
      PROVE  Counting'
  BY <1>13 DEF LoseCall
<1>14. ASSUME NEW c \in Calls,
             LeaseOverrun(c)
      PROVE  Counting'
  BY <1>14 DEF LeaseOverrun
<1>15. ASSUME NEW e \in Events,
             AbandonedLeaseExpires(e)
      PROVE  Counting'
  BY <1>15 DEF AbandonedLeaseExpires
<1>16. CASE UNCHANGED vars
  BY <1>16 DEF vars
<1> QED
  BY <1>1, <1>2, <1>3, <1>4, <1>5, <1>6, <1>7, <1>8, <1>9, <1>10, <1>11, <1>12, <1>13, <1>14, <1>15, <1>16 DEF OtherStep

-----------------------------------------------------------------------------

(* The two operations that grant a claim. *)
LEMMA ClaimInsertIInv ==
    ASSUME IInv, NEW c \in Calls, ClaimInsert(c),
           inbox[call[c].event].state = "absent"
    PROVE  IInv'
<1> DEFINE e == call[c].event
<1>1. e \in Journalled \cup Orphans /\ e \in Events
  BY DEF ClaimInsert, IInv, CallShape, Busy, Events
<1>2. Grant(c, e, 1, 1)
  BY DEF ClaimInsert
<1>3. GrantPre(c, e, claims[e] + 1, 1)
  BY <1>1 DEF ClaimInsert, GrantPre, Attempting, Terminal, BoundsUnchanged,
              IInv, TypeOK, Counting
<1>4. claims[e] = 0
  BY <1>1 DEF IInv, Counting
<1> QED
  BY <1>1, <1>2, <1>3, <1>4, GrantIInv

LEMMA ClaimUpdateIInv ==
    ASSUME IInv, NEW c \in Calls, ClaimUpdate(c), ~UpdateMisses(c)
    PROVE  IInv'
<1> DEFINE e == call[c].event
<1>1. e \in Journalled \cup Orphans /\ e \in Events
  BY DEF ClaimUpdate, IInv, CallShape, Busy, Events
<1>2. /\ Grant(c, e, inbox[e].attempts + 1, call[c].attempts + 1)
      /\ IF call[c].pc = "takeover" THEN TakeoverMatches(c) ELSE ReclaimMatches(c)
  BY DEF ClaimUpdate, UpdateMisses
<1>3. /\ inbox[e].attempts = claims[e] /\ claims[e] \in Nat
      /\ call[c].attempts \in Nat /\ call[c].attempts <= claims[e]
  BY <1>1 DEF ClaimUpdate, IInv, TypeOK, Counting
<1>4. GrantPre(c, e, inbox[e].attempts + 1, call[c].attempts + 1)
  BY <1>1, <1>2, <1>3 DEF ClaimUpdate, TakeoverMatches, ReclaimMatches, GrantPre,
              Attempting, Terminal, Claimable, BoundsUnchanged, IInv, CallShape
<1> QED
  BY <1>1, <1>2, <1>3, <1>4, GrantIInv

LEMMA NextIInv == IInv /\ [Next]_vars => IInv'
<1> SUFFICES ASSUME IInv, [Next]_vars PROVE IInv'
  OBVIOUS
<1>1. CASE [OtherStep]_vars
  BY <1>1, TypeOKStep, TokensBoundedStep, TokensUniqueStep, CallShapeStep,
     RowShapeStep, LiveLeaseStep, CountingStep DEF IInv
<1>2. ASSUME NEW c \in Calls, ClaimInsert(c), inbox[call[c].event].state = "absent"
      PROVE  IInv'
  BY <1>2, ClaimInsertIInv
<1>3. ASSUME NEW c \in Calls, ClaimUpdate(c), ~UpdateMisses(c)
      PROVE  IInv'
  BY <1>3, ClaimUpdateIInv
<1> QED
  BY <1>1, <1>2, <1>3 DEF Next, CallStep, OtherStep, InsertMisses

(* In every reachable state tokens, leases and counters fit together. *)
THEOREM InductiveInvariant == Spec => []IInv
  BY InitIInv, NextIInv, PTL DEF Spec

(* Rows and calls are well formed, for any number of events and calls. *)
THEOREM TypeCorrect == Spec => []TypeOK
<1>1. IInv => TypeOK
  BY DEF IInv
<1> QED
  BY <1>1, InductiveInvariant, PTL

(* Mutual exclusion by lease: two attempts on one event overlap only after  *)
(* a lease ran out (claim, eventlog.py).                                    *)
THEOREM LeaseExcludes == Spec => []OneAttemptPerLiveLease
<1>1. IInv => OneAttemptPerLiveLease
  BY DEF IInv, OneAttemptPerLiveLease, LiveLeaseOwnsRow, HoldsLease, TokensUnique
<1> QED
  BY <1>1, InductiveInvariant, PTL

(* A call with a live lease owns its row, so its settlement is accepted.    *)
THEOREM LiveLeaseOwns == Spec => []LiveLeaseOwnsRow
<1>1. IInv => LiveLeaseOwnsRow
  BY DEF IInv
<1> QED
  BY <1>1, InductiveInvariant, PTL

(* No event is acknowledged on behalf of another attempt (complete).        *)
THEOREM AckIsFenced == Spec => []CompletedByItsHolder
<1>1. IInv => CompletedByItsHolder
  BY DEF IInv, RowShape
<1> QED
  BY <1>1, InductiveInvariant, PTL

(* No event is quarantined with claims left (_mark_deferred_sync).          *)
THEOREM InnocentSpared == Spec => []QuarantinedOnlyWhenSpent
<1>1. IInv => QuarantinedOnlyWhenSpent
  BY DEF IInv, Counting
<1> QED
  BY <1>1, InductiveInvariant, PTL

(* A settled row is never touched again: by any call, fresh or stale.       *)
THEOREM SettledForever == Spec => TerminalForever
<1>1. ASSUME IInv, [Next]_vars
      PROVE  [\A e \in Events : inbox[e].state \in Terminal => inbox'[e] = inbox[e]]_vars
  <2> SUFFICES ASSUME NEW e \in Events, inbox[e].state \in Terminal
               PROVE  inbox'[e] = inbox[e]
    OBVIOUS
  <2> QED
    BY ZenonT(40), <1>1 DEF IInv, TypeOK, Row, Next, CallStep, vars, Terminal, Claimable, Grant,
       Deliver, GateBlocks, QuarantineOrphan, MarkDeferred, ClaimInsert,
       ClaimFind, ClaimUpdate, TakeoverMatches, ReclaimMatches,
       HandlerReturns, HandlerRaises, Complete, FailAttempt, HoldsLease,
       QuarantinePoison, LoseCall, LeaseOverrun, AbandonedLeaseExpires
<1> QED
  BY <1>1, InductiveInvariant, PTL DEF Spec, TerminalForever

-----------------------------------------------------------------------------
(* Every step of the inbox is a step of AtLeastOnce or leaves it alone. *)

status == [e \in Events |-> Outcome(e)]
applied == {e \in Events : handled[e] # {}}

(* Granting a claim is a try. *)
LEMMA GrantTries ==
    ASSUME IInv, NEW c \in Calls, NEW e \in Journalled \cup Orphans,
           NEW attempts, NEW claimed,
           inbox[e].state \notin Terminal,
           Grant(c, e, attempts, claimed), handled' = handled
    PROVE  Promise!Try(e)
<1>1. e \in Events
  BY DEF Events
<1>2. \A f \in Events : Outcome(f)' = Outcome(f)
  BY <1>1 DEF Grant, IInv, TypeOK, Outcome, Terminal
<1>3. Outcome(e) = "open"
  BY DEF Outcome, Terminal
<1> QED
  BY <1>1, <1>2, <1>3 DEF Promise!Try, Grant

LEMMA StepImplements == IInv /\ [Next]_vars => [Promise!Next]_(Promise!vars)
<1> SUFFICES ASSUME IInv, [Next]_vars
             PROVE  [Promise!Next]_(Promise!vars)
  OBVIOUS
<1> DEFINE Quiet == UNCHANGED <<status, claims, applied>>
<1> USE DEF Promise!vars, Promise!Next, status, applied
<1>1. ASSUME NEW c \in Calls, ClaimInsert(c) PROVE Quiet \/ Promise!Next
  <2>1. call[c].event \in Journalled \cup Orphans
    BY <1>1 DEF ClaimInsert, IInv, CallShape, Busy
  <2>2. CASE inbox[call[c].event].state = "absent"
    <3>1. Promise!Try(call[c].event)
      BY <1>1, <2>1, <2>2, GrantTries DEF ClaimInsert, Terminal
    <3> QED
      BY <2>1, <3>1 DEF Events
  <2>3. CASE inbox[call[c].event].state # "absent"
    BY <1>1, <2>3 DEF ClaimInsert, Outcome
  <2> QED
    BY <2>2, <2>3
<1>2. ASSUME NEW c \in Calls, ClaimUpdate(c) PROVE Quiet \/ Promise!Next
  <2>1. call[c].event \in Journalled \cup Orphans
    BY <1>2 DEF ClaimUpdate, IInv, CallShape, Busy
  <2>2. CASE IF call[c].pc = "takeover" THEN TakeoverMatches(c) ELSE ReclaimMatches(c)
    <3>1. Promise!Try(call[c].event)
      BY <1>2, <2>1, <2>2, GrantTries
         DEF ClaimUpdate, TakeoverMatches, ReclaimMatches, Terminal, Claimable
    <3> QED
      BY <2>1, <3>1 DEF Events
  <2>3. CASE ~ IF call[c].pc = "takeover" THEN TakeoverMatches(c) ELSE ReclaimMatches(c)
    BY <1>2, <2>3 DEF ClaimUpdate, Outcome
  <2> QED
    BY <2>2, <2>3
<1>3. ASSUME NEW c \in Calls, HandlerReturns(c) PROVE Quiet \/ Promise!Next
  <2>1. PICK e \in Events : e = call[c].event /\ claims[e] > 0
    BY <1>3 DEF HandlerReturns, IInv, CallShape, Counting, Busy, Attempting, Events
  <2>2. applied' = applied \cup {e}
    BY <1>3, <2>1 DEF HandlerReturns, IInv, TypeOK
  <2>3. Promise!Apply(e)
    BY <1>3, <2>1, <2>2 DEF HandlerReturns, Promise!Apply, Outcome
  <2> QED
    BY <2>3
<1>4. ASSUME NEW c \in Calls, Complete(c) PROVE Quiet \/ Promise!Next
  <2> DEFINE e == call[c].event
  <2>1. e \in Events /\ e \in applied
    BY <1>4 DEF Complete, IInv, CallShape, Busy, Events
  <2>2. CASE HoldsLease(c)
    <3>1. Outcome(e) = "open" /\ status' = [status EXCEPT ![e] = "done"]
      BY <1>4, <2>1, <2>2 DEF Complete, HoldsLease, Outcome, IInv, TypeOK, Row
    <3>2. Promise!Acknowledge(e)
      BY <1>4, <2>1, <3>1 DEF Complete, Promise!Acknowledge
    <3> QED
      BY <2>1, <3>2
  <2>3. CASE ~HoldsLease(c)
    BY <1>4, <2>3 DEF Complete, Outcome
  <2> QED
    BY <2>2, <2>3
<1>5. ASSUME NEW c \in Calls, FailAttempt(c) PROVE Quiet \/ Promise!Next
  <2> DEFINE e == call[c].event
  <2>1. e \in Events /\ (e \in Journalled => call[c].pc # "poison")
    BY <1>5, DisjointKinds DEF FailAttempt, IInv, CallShape, Busy, Events
  <2>2. CASE HoldsLease(c) /\ FailureState(c) = "quarantined"
    <3>1. Outcome(e) = "open" /\ status' = [status EXCEPT ![e] = "dead"]
      BY <1>5, <2>1, <2>2 DEF FailAttempt, HoldsLease, Outcome, IInv, TypeOK, Row
    <3>2. e \in Journalled => claims[e] >= MaxDeliver
      BY <1>5, <2>1, <2>2, MaxDeliverPositive
         DEF FailAttempt, FailureState, IInv, TypeOK, Counting, Attempting
    <3>3. Promise!GiveUp(e)
      BY <1>5, <2>1, <3>1, <3>2 DEF FailAttempt, Promise!GiveUp
    <3> QED
      BY <2>1, <3>3
  <2>3. CASE HoldsLease(c) /\ FailureState(c) = "received"
    <3>1. \A f \in Events : Outcome(f)' = Outcome(f)
      BY <1>5, <2>1, <2>3 DEF FailAttempt, HoldsLease, Outcome, IInv, TypeOK, Row
    <3> QED
      BY <1>5, <3>1 DEF FailAttempt
  <2>4. CASE ~HoldsLease(c)
    BY <1>5, <2>4 DEF FailAttempt, Outcome
  <2> QED
    BY <2>2, <2>3, <2>4 DEF FailureState
<1>6. ASSUME NEW e \in Events, QuarantinePoison(e) PROVE Quiet \/ Promise!Next
  <2>1. Outcome(e) = "open" /\ status' = [status EXCEPT ![e] = "dead"]
    BY <1>6 DEF QuarantinePoison, Outcome, IInv, TypeOK, Row
  <2>2. Promise!GiveUp(e)
    BY <1>6, <2>1, DisjointKinds DEF QuarantinePoison, Promise!GiveUp
  <2> QED
    BY <2>2
<1>7. ASSUME NEW c \in Calls, MarkDeferred(c) PROVE Quiet
  <2>1. \A f \in Events : Outcome(f)' = Outcome(f)
    BY <1>7 DEF MarkDeferred, Outcome, Claimable, IInv, TypeOK, Row
  <2> QED
    BY <1>7, <2>1 DEF MarkDeferred
<1>8. ASSUME NEW c \in Calls,
             ClaimFind(c) \/ HandlerRaises(c) \/ LoseCall(c) \/ LeaseOverrun(c)
      PROVE  Quiet
  BY <1>8 DEF ClaimFind, HandlerRaises, LoseCall, LeaseOverrun, Outcome
<1>9. ASSUME NEW c \in Calls, NEW e \in Journalled \cup Orphans,
             Deliver(c, e) \/ GateBlocks(c, e) \/ QuarantineOrphan(c, e)
      PROVE  Quiet
  BY <1>9 DEF Deliver, GateBlocks, QuarantineOrphan, Outcome
<1>10. ASSUME NEW e \in Events, AbandonedLeaseExpires(e) PROVE Quiet
  BY <1>10 DEF AbandonedLeaseExpires, Outcome
<1>11. CASE UNCHANGED vars
  BY <1>11 DEF vars, Outcome
<1> QED
  BY <1>1, <1>2, <1>3, <1>4, <1>5, <1>6, <1>7, <1>8, <1>9, <1>10, <1>11
     DEF Next, CallStep

(* The inbox implements at-least-once delivery: an event is acknowledged    *)
(* only after its effect, and given up only when its tries are used up.     *)
THEOREM Refinement == Spec => ImplementsAtLeastOnce
<1>1. Init => Promise!Init
  BY DEF Init, Promise!Init, Outcome, NoRow
<1> QED
  BY <1>1, InductiveInvariant, StepImplements, PTL
     DEF Spec, Promise!Spec, ImplementsAtLeastOnce
=============================================================================
