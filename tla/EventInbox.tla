---------------------------- MODULE EventInbox ----------------------------
(* The inbox of one consumer: voice_tracker/eventlog.py, claim, complete,   *)
(* fail_attempt, quarantine_poison, _mark_deferred_sync and deliver.  Wire  *)
(* callbacks and sweep ticks are concurrent calls of deliver; every Mongo   *)
(* operation of a call is one atomic step.  Whether the order gate lets a   *)
(* call through is an input here (module OrderedDelivery models the gate).  *)
EXTENDS Naturals, FiniteSets

CONSTANTS
    Journalled,   \* events with a row in event_log
    Orphans,      \* events that reached the consumer with no row in event_log
    Poison,       \* raw messages that decode_envelope rejects
    NoEvent,      \* the event of a call that is not running
    Calls,        \* concurrent executions of deliver / _quarantine_orphan
    MaxDeliver,   \* max_deliver
    MaxCrashes,   \* bound: calls lost to a crash or a database error
    MaxSlow,      \* bound: leases that run out under a call still working
    MaxBlocks     \* bound: times the order gate holds an event back

Events == Journalled \cup Orphans \cup Poison

ASSUME DisjointKinds ==
    /\ Journalled \cap Orphans = {}
    /\ Journalled \cap Poison = {}
    /\ Orphans \cap Poison = {}
    /\ NoEvent \notin Events

ASSUME MaxDeliverPositive == MaxDeliver \in Nat \ {0}

ASSUME BoundsAreNaturals ==
    MaxCrashes \in Nat /\ MaxSlow \in Nat /\ MaxBlocks \in Nat

VARIABLES
    inbox,     \* event_inbox: row of each event
    expired,   \* leases whose leaseExpiresAt has passed
    call,      \* program counter and locals of each call
    lastToken, \* uuid4 lease tokens, numbered in the order they are written
    handled,   \* history: tokens whose handler returned normally, per event
    claims,    \* history: claims granted, per event
    crashes, slow, blocks  \* how much of each bound is used

vars == <<inbox, expired, call, lastToken, handled, claims,
          crashes, slow, blocks>>

NoToken == 0

ClaimableWithoutDeferred == {"received"}
Claimable == {"received", "deferred"}
Terminal == {"completed", "quarantined"}
States == {"absent", "processing"} \cup Claimable \cup Terminal

Row == [state : States, attempts : Nat, token : Nat]
NoRow == [state |-> "absent", attempts |-> 0, token |-> NoToken]

(* The locals of a call: "token" is the lease it holds or read, "attempts"  *)
(* the count it read or, once granted, the attempts of its Claim.           *)
Local(pc, e, orphan, token, attempts) ==
    [pc |-> pc, event |-> e, orphan |-> orphan,
     token |-> token, attempts |-> attempts]

Idle == Local("idle", NoEvent, FALSE, NoToken, 0)

Init ==
    /\ inbox = [e \in Events |-> NoRow]
    /\ expired = {}
    /\ call = [c \in Calls |-> Idle]
    /\ lastToken = NoToken
    /\ handled = [e \in Events |-> {}]
    /\ claims = [e \in Events |-> 0]
    /\ crashes = 0 /\ slow = 0 /\ blocks = 0

-----------------------------------------------------------------------------
(* Operators shared by the steps. *)

Busy(c) == call[c].pc # "idle"

Goto(c, pc) == call' = [call EXCEPT ![c].pc = pc]

Return(c) == call' = [call EXCEPT ![c] = Idle]

(* The slips a change of this code could make have names of their own,      *)
(* before the definition they would replace: here the fence is left out.    *)
HoldsLeaseUnfenced(c) == inbox[call[c].event].state = "processing"

(* The fenced write of complete and fail_attempt matches the row. *)
HoldsLease(c) ==
    LET row == inbox[call[c].event] IN
    row.state = "processing" /\ row.token = call[c].token

(* The row is handed to call c under a new token. *)
Grant(c, e, attempts, claimed) ==
    LET t == lastToken + 1 IN
    /\ inbox' = [inbox EXCEPT ![e] =
         [state |-> "processing", attempts |-> attempts, token |-> t]]
    /\ lastToken' = t
    /\ claims' = [claims EXCEPT ![e] = @ + 1]
    /\ call' = [call EXCEPT ![c] =
         Local(IF @.orphan THEN "poison" ELSE "handler", e, @.orphan, t, claimed)]

BoundsUnchanged == UNCHANGED <<crashes, slow, blocks>>

-----------------------------------------------------------------------------
(* deliver *)

(* A wire callback or a sweep tick calls deliver and the gate lets it pass. *)
Deliver(c, e) ==
    /\ ~Busy(c)
    /\ call' = [call EXCEPT ![c] = Local("claim", e, FALSE, NoToken, 0)]
    /\ UNCHANGED <<inbox, expired, lastToken, handled, claims>> /\ BoundsUnchanged

(* The gate holds the event back: an unfinished predecessor.  A message     *)
(* without a journal row passes the gate.                                   *)
GateBlocks(c, e) ==
    /\ ~Busy(c)
    /\ e \in Journalled
    /\ blocks < MaxBlocks
    /\ blocks' = blocks + 1
    /\ call' = [call EXCEPT ![c] = Local("defer", e, FALSE, NoToken, 0)]
    /\ UNCHANGED <<inbox, expired, lastToken, handled, claims, crashes, slow>>

MarkDeferredUnfiltered(c) ==
    /\ call[c].pc = "defer"
    /\ inbox' = [inbox EXCEPT ![call[c].event].state = "deferred"]
    /\ Return(c)
    /\ UNCHANGED <<expired, lastToken, handled, claims>> /\ BoundsUnchanged

(* _mark_deferred_sync: no lease, no attempt.  When the row is in another   *)
(* state the upsert hits the unique _id and the call ends with the error.   *)
MarkDeferred(c) ==
    LET e == call[c].event IN
    /\ call[c].pc = "defer"
    /\ inbox' = IF inbox[e].state \in Claimable \cup {"absent"}
                THEN [inbox EXCEPT ![e].state = "deferred"]
                ELSE inbox
    /\ Return(c)
    /\ UNCHANGED <<expired, lastToken, handled, claims>> /\ BoundsUnchanged

(* The retry pass meets an inbox row whose event is not in the journal. *)
QuarantineOrphan(c, e) ==
    /\ ~Busy(c)
    /\ e \in Orphans
    /\ \/ inbox[e].state \in Claimable
       \/ inbox[e].state = "processing" /\ inbox[e].token \in expired
    /\ call' = [call EXCEPT ![c] = Local("claim", e, TRUE, NoToken, 0)]
    /\ UNCHANGED <<inbox, expired, lastToken, handled, claims>> /\ BoundsUnchanged

-----------------------------------------------------------------------------
(* claim: insert_one, find_one, update_one *)

(* insert_one of a new row; a duplicate _id sends the call to find_one.     *)
(* "now" is read before the insert, so only a lease that is over by this    *)
(* step counts as expired later on.                                         *)
ClaimInsert(c) ==
    LET e == call[c].event IN
    /\ call[c].pc = "claim"
    /\ \/ /\ inbox[e].state = "absent"
          /\ Grant(c, e, 1, 1)
       \/ /\ inbox[e].state # "absent"
          /\ call' = [call EXCEPT ![c] =
               Local("find", e, @.orphan,
                     IF inbox[e].token \in expired THEN inbox[e].token ELSE NoToken,
                     0)]
          /\ UNCHANGED <<inbox, lastToken, claims>>
    /\ UNCHANGED <<expired, handled>> /\ BoundsUnchanged

(* find_one: settled rows and live leases end the call ("skipped"). *)
ClaimFind(c) ==
    LET row == inbox[call[c].event]
        takeover == row.state = "processing" /\ row.token = call[c].token
    IN
    /\ call[c].pc = "find"
    /\ call' = [call EXCEPT ![c] =
         IF takeover \/ row.state \in Claimable
         THEN Local(IF takeover THEN "takeover" ELSE "reclaim",
                    @.event, @.orphan, row.token, row.attempts)
         ELSE Idle]
    /\ UNCHANGED <<inbox, expired, lastToken, handled, claims>> /\ BoundsUnchanged

TakeoverUnfenced(c) == inbox[call[c].event].state = "processing"

ReclaimAnyIdle(c) == inbox[call[c].event].state # "processing"

(* The filters of the two update_one calls of claim. *)
TakeoverMatches(c) ==
    LET row == inbox[call[c].event] IN
    row.state = "processing" /\ row.token = call[c].token

ReclaimMatches(c) == inbox[call[c].event].state \in Claimable

(* update_one: $inc works on the row, the attempts of the Claim come from   *)
(* the earlier find_one.                                                    *)
ClaimUpdate(c) ==
    LET e == call[c].event IN
    /\ call[c].pc \in {"takeover", "reclaim"}
    /\ IF IF call[c].pc = "takeover" THEN TakeoverMatches(c) ELSE ReclaimMatches(c)
       THEN Grant(c, e, inbox[e].attempts + 1, call[c].attempts + 1)
       ELSE Return(c) /\ UNCHANGED <<inbox, lastToken, claims>>
    /\ UNCHANGED <<expired, handled>> /\ BoundsUnchanged

-----------------------------------------------------------------------------
(* The handler and the two ends of an attempt *)

HandlerReturns(c) ==
    /\ call[c].pc = "handler"
    /\ handled' = [handled EXCEPT ![call[c].event] = @ \cup {call[c].token}]
    /\ Goto(c, "complete")
    /\ UNCHANGED <<inbox, expired, lastToken, claims>> /\ BoundsUnchanged

HandlerRaises(c) ==
    /\ call[c].pc = "handler"
    /\ Goto(c, "fail")
    /\ UNCHANGED <<inbox, expired, lastToken, handled, claims>> /\ BoundsUnchanged

(* complete: the token stays on the completed row. *)
Complete(c) ==
    /\ call[c].pc = "complete"
    /\ inbox' = IF HoldsLease(c)
                THEN [inbox EXCEPT ![call[c].event].state = "completed"]
                ELSE inbox
    /\ Return(c)
    /\ UNCHANGED <<expired, lastToken, handled, claims>> /\ BoundsUnchanged

FailureStateUnknown(c) ==
    IF call[c].pc = "poison" \/ call[c].attempts >= MaxDeliver
    THEN "quarantined" ELSE "failed"

FailureStateEarly(c) ==
    IF call[c].pc = "poison" \/ call[c].attempts + 1 >= MaxDeliver
    THEN "quarantined" ELSE "received"

FailureState(c) ==
    IF call[c].pc = "poison" \/ call[c].attempts >= MaxDeliver
    THEN "quarantined" ELSE "received"

FailAttempt(c) ==
    /\ call[c].pc \in {"fail", "poison"}
    /\ inbox' = IF HoldsLease(c)
                THEN [inbox EXCEPT ![call[c].event].state = FailureState(c),
                                   ![call[c].event].token = NoToken]
                ELSE inbox
    /\ Return(c)
    /\ UNCHANGED <<expired, lastToken, handled, claims>> /\ BoundsUnchanged

(* quarantine_poison: the row is keyed by the bytes of the message. *)
QuarantinePoison(e) ==
    /\ e \in Poison
    /\ inbox[e].state = "absent"
    /\ inbox' = [inbox EXCEPT ![e].state = "quarantined"]
    /\ UNCHANGED <<expired, call, lastToken, handled, claims>> /\ BoundsUnchanged

-----------------------------------------------------------------------------
(* Environment *)

(* A crash of the process, or an exception of the database driver. *)
LoseCall(c) ==
    /\ Busy(c)
    /\ crashes < MaxCrashes
    /\ crashes' = crashes + 1
    /\ Return(c)
    /\ UNCHANGED <<inbox, expired, lastToken, handled, claims, slow, blocks>>

Attempting(c) == call[c].pc \in {"handler", "complete", "fail", "poison"}

(* 120 s pass under a call that is still working. *)
LeaseOverrun(c) ==
    /\ Attempting(c)
    /\ call[c].token \notin expired
    /\ slow < MaxSlow
    /\ slow' = slow + 1
    /\ expired' = expired \cup {call[c].token}
    /\ UNCHANGED <<inbox, call, lastToken, handled, claims, crashes, blocks>>

(* 120 s pass and the call that held the lease is gone. *)
AbandonedLeaseExpires(e) ==
    /\ inbox[e].state = "processing"
    /\ inbox[e].token \notin expired
    /\ ~ \E c \in Calls : Attempting(c) /\ call[c].token = inbox[e].token
    /\ expired' = expired \cup {inbox[e].token}
    /\ UNCHANGED <<inbox, call, lastToken, handled, claims>> /\ BoundsUnchanged

CallStep(c) ==
    \/ MarkDeferred(c)
    \/ ClaimInsert(c) \/ ClaimFind(c) \/ ClaimUpdate(c)
    \/ HandlerReturns(c) \/ HandlerRaises(c)
    \/ Complete(c) \/ FailAttempt(c)

Next ==
    \/ \E c \in Calls : CallStep(c) \/ LoseCall(c) \/ LeaseOverrun(c)
    \/ \E c \in Calls, e \in Journalled \cup Orphans :
         Deliver(c, e) \/ GateBlocks(c, e) \/ QuarantineOrphan(c, e)
    \/ \E e \in Events : QuarantinePoison(e) \/ AbandonedLeaseExpires(e)

Spec == Init /\ [][Next]_vars

(* A call runs on unless it crashes, time passes, and the sweep of a live   *)
(* consumer comes back to every journalled event (module EventSweep).       *)
Fairness ==
    /\ \A c \in Calls : WF_vars(CallStep(c))
    /\ \A e \in Events : WF_vars(AbandonedLeaseExpires(e))
    /\ \A e \in Journalled : WF_vars(\E c \in Calls : Deliver(c, e))

FairSpec == Spec /\ Fairness

-----------------------------------------------------------------------------
(* Properties *)

PCs == {"idle", "claim", "defer", "find", "takeover", "reclaim",
        "handler", "complete", "fail", "poison"}

(* Every row and every call is well formed. *)
TypeOK ==
    /\ inbox \in [Events -> Row]
    /\ \A e \in Events : inbox[e].state \in States
    /\ expired \subseteq Nat
    /\ call \in [Calls -> [pc : PCs, event : Events \cup {NoEvent},
                          orphan : BOOLEAN, token : Nat, attempts : Nat]]
    /\ lastToken \in Nat
    /\ handled \in [Events -> SUBSET Nat]
    /\ claims \in [Events -> Nat]
    /\ crashes \in Nat /\ slow \in Nat /\ blocks \in Nat

(* Two calls work on one event at the same time only if a lease of theirs   *)
(* ran out: claim and takeover together are a lock with expiry, whatever    *)
(* the interleaving of insert_one, find_one and update_one.                 *)
OneAttemptPerLiveLease ==
    \A c, d \in Calls :
        /\ c # d
        /\ Attempting(c) /\ Attempting(d)
        /\ call[c].event = call[d].event
        => call[c].token \in expired \/ call[d].token \in expired

(* A call whose lease is not over still owns the row, so its complete or    *)
(* fail_attempt will not be refused.                                        *)
LiveLeaseOwnsRow ==
    \A c \in Calls :
        Attempting(c) /\ call[c].token \notin expired => HoldsLease(c)

(* complete is an Ack after the effect of the attempt that holds the row: a *)
(* late call whose lease was taken over never acknowledges for its          *)
(* successor (eventlog.py, complete).                                       *)
CompletedByItsHolder ==
    \A e \in Events :
        inbox[e].state = "completed" => inbox[e].token \in handled[e]

(* An event is not quarantined before max_deliver claims were granted for   *)
(* it: waiting behind a predecessor costs no attempt (_mark_deferred_sync:  *)
(* an innocent event must not end in quarantine).                           *)
QuarantinedOnlyWhenSpent ==
    \A e \in Journalled :
        inbox[e].state = "quarantined" => claims[e] >= MaxDeliver

(* completed and quarantined rows never change again. *)
TerminalForever ==
    [][\A e \in Events :
         inbox[e].state \in Terminal => inbox'[e] = inbox[e]]_vars

(* What the inbox promises, without leases and calls. *)
Outcome(e) ==
    IF inbox[e].state = "completed" THEN "done"
    ELSE IF inbox[e].state = "quarantined" THEN "dead"
    ELSE "open"

Promise == INSTANCE AtLeastOnce WITH
    Budget <- MaxDeliver,
    status <- [e \in Events |-> Outcome(e)],
    tries <- claims,
    applied <- {e \in Events : handled[e] # {}}

(* The inbox implements at-least-once delivery with a bounded surrender. *)
ImplementsAtLeastOnce == Promise!Spec

(* Every journalled event is settled in the end although calls crash,       *)
(* outlive their leases and are held back by the gate for a while.          *)
EventuallySettled ==
    \A e \in Journalled : []<>(inbox[e].state \in Terminal)
=============================================================================
