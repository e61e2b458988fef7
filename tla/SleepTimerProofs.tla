------------------------- MODULE SleepTimerProofs -------------------------
(* Proofs about SleepTimer, for any number of gateways, calls and requests, *)
(* any limits, fences and troubles.                                         *)
EXTENDS SleepTimer, TLAPS

Docs == [rev : Nat, status : Final \cup {"none", "pending", "executing", "cancelled"},
         timer : Requests \cup {Nothing}, fence : Nat,
         seen : SUBSET [req : Requests, act : {"set", "cancel"}], pending : SUBSET Events]

CallPCs == {"reading", "writing", "done", "conflict", "replayed", "rejected", "busy", "full"}

GatePCs == {"off", "boot", "recovering", "marking", "idle", "claiming", "deciding",
            "cleared", "decided", "finishing", "projecting", "pulling"}

CallRecs == [pc : CallPCs, snap : Docs, left : 0 .. MaxCas]

GateRecs == [pc : GatePCs, fence : Nat, snap : Docs, status : Final, events : SUBSET Events]

Typed ==
    /\ doc \in Docs
    /\ ripe \in BOOLEAN /\ audit \subseteq Events /\ lease \in Nat /\ troubles \in Nat
    /\ call \in [Calls -> CallRecs]
    /\ phase \in [Requests -> {"new", "armed", "off", "taken", "closed"}]
    /\ patched \in [Requests -> Nat] /\ changes \in [Requests -> Nat]
    /\ landed \subseteq Requests /\ issued \subseteq Events

(* The document tells the fate of its timer, and every other timer is over  *)
(* or has not been set.                                                     *)
FateTold ==
    /\ doc.status \in Final \cup {"pending", "executing"} => doc.timer \in Requests
    /\ doc.status = "pending" => phase[doc.timer] = "armed"
    /\ doc.status = "executing" => phase[doc.timer] = "taken"
    /\ doc.status \in Final => phase[doc.timer] = "closed"
    /\ \A r \in Requests :
          /\ phase[r] = "armed" => doc.status = "pending" /\ doc.timer = r
          /\ phase[r] = "taken" => doc.status = "executing" /\ doc.timer = r

Heard(r, d) == \E e \in d.seen : e.req = r

(* The document remembers the requests that changed it, and a timer is set  *)
(* by a request that it remembers.                                          *)
ChangesHeard ==
    \A r \in Requests :
        /\ changes[r] = IF Heard(r, doc) THEN 1 ELSE 0
        /\ phase[r] # "new" => Heard(r, doc)

(* Only a timer that was taken is PATCHed, and only a PATCH lands. *)
LandedByPatch ==
    \A r \in Requests :
        /\ patched[r] # 0 => phase[r] \in {"taken", "closed"}
        /\ r \in landed => patched[r] # 0

(* A snapshot of the present revision differs from the document in what was *)
(* projected since.                                                         *)
Snapshots ==
    {s \in Docs :
        /\ s.rev <= doc.rev
        /\ s.rev = doc.rev => /\ s = [doc EXCEPT !.pending = s.pending]
                              /\ doc.pending \subseteq s.pending}

(* What a call relies on when it writes. *)
GoodCall(c) ==
    /\ call[c].pc \in {"reading", "writing"} => call[c].left # 0
    /\ call[c].pc = "writing" =>
          /\ call[c].snap \in Snapshots
          /\ call[c].snap.status # "executing"
          /\ ~Heard(ReqOf[c], call[c].snap)

Certain == {"disconnected", "skipped", "failed"}

Holds(x) == x.pc \in {"deciding", "cleared", "decided", "finishing"}

(* A snapshot of a claim, this process's or one that it may recover. *)
KnowsClaim(x) ==
    Holds(x) \/ x.pc = "marking" =>
        /\ x.snap \in Snapshots
        /\ x.snap.status = "executing" /\ x.snap.timer \in Requests
        /\ x.snap.fence <= x.fence

(* A claim in the hands of the process that made it: while that process is  *)
(* not superseded the document shows the claim, and nobody but it gives the *)
(* timer an end that is certain.                                            *)
KeepsClaim(x) ==
    Holds(x) =>
        /\ x.snap.fence = x.fence
        /\ phase[x.snap.timer] \in {"taken", "closed"}
        /\ x.fence = lease => doc.rev = x.snap.rev
        /\ doc.status \in Certain => doc.timer # x.snap.timer

(* Before the PATCH there was none; after it the verdict is true. *)
KnowsOutcome(x) ==
    /\ x.pc \in {"deciding", "cleared"} => patched[x.snap.timer] = 0
    /\ x.pc \in {"decided", "finishing"} =>
          /\ x.status = "disconnected" => x.snap.timer \in landed
          /\ x.status \in {"skipped", "failed"} => x.snap.timer \notin landed

GoodGates ==
    {x \in GateRecs :
        /\ KnowsClaim(x) /\ KeepsClaim(x) /\ KnowsOutcome(x)
        /\ x.pc = "pulling" => x.snap.pending \subseteq audit
        /\ x.fence <= lease}

(* No two processes hold a claim of the same timer, or the same fence. *)
Apart(x, y) ==
    /\ Holds(x) /\ Holds(y) => x.snap.timer # y.snap.timer
    /\ x.pc # "off" /\ y.pc # "off" => x.fence # y.fence

DocInv ==
    /\ FateTold /\ ChangesHeard /\ LandedByPatch
    /\ OnePatchPerTimer /\ FinalIsTruthful /\ NothingUnaudited

CallsGood == \A c \in Calls : GoodCall(c)

GatesGood ==
    /\ gate \in [Gateways -> GoodGates]
    /\ \A g, h \in Gateways : g # h => Apart(gate[g], gate[h])

TimerInv == Typed /\ DocInv /\ CallsGood /\ GatesGood

-----------------------------------------------------------------------------
(* What stays true while others act *)

(* The records of the specification are of their kinds. *)
LEMMA Records ==
    /\ NoTimer \in Docs
    /\ \A pc \in GatePCs, n \in Nat : Fresh(pc, n) \in GateRecs
<1>1. NoTimer \in Docs
  BY DEF NoTimer, Docs
<1> QED
  BY <1>1 DEF Fresh, GateRecs, Final

(* Snapshots grow old when the document gets a new revision, and stay what  *)
(* they are when an event is pulled.                                        *)
LEMMA SnapshotsAge ==
    ASSUME doc \in Docs, doc' \in Docs,
           \/ doc' = doc
           \/ doc'.rev = doc.rev + 1
           \/ \E P \in SUBSET doc.pending : doc' = [doc EXCEPT !.pending = P]
    PROVE  Snapshots \subseteq Snapshots'
<1> SUFFICES ASSUME NEW s \in Snapshots PROVE s \in Snapshots'
  OBVIOUS
<1>1. CASE doc' = doc
  BY <1>1 DEF Snapshots
<1>2. CASE doc'.rev = doc.rev + 1
  BY <1>2 DEF Snapshots, Docs
<1>3. ASSUME NEW P \in SUBSET doc.pending, doc' = [doc EXCEPT !.pending = P]
      PROVE  s \in Snapshots'
  <2>1. doc'.rev = doc.rev /\ doc'.pending = P
    BY <1>3 DEF Docs
  <2>2. [doc' EXCEPT !.pending = s.pending] = [doc EXCEPT !.pending = s.pending]
    BY <1>3 DEF Docs
  <2> QED
    BY <2>1, <2>2 DEF Snapshots
<1> QED
  BY <1>1, <1>2, <1>3

(* Calls that do not act go on relying on what they rely on. *)
LEMMA CallsStay ==
    ASSUME CallsGood, UNCHANGED call, Snapshots \subseteq Snapshots'
    PROVE  CallsGood'
BY DEF CallsGood, GoodCall

(* One gateway moves while the others keep what they rely on. *)
LEMMA GateMoves ==
    ASSUME GatesGood, NEW g \in Gateways, NEW y,
           gate' = [gate EXCEPT ![g] = y], y \in GoodGates',
           \A h \in Gateways : h # g => gate[h] \in GoodGates',
           \A h \in Gateways : h # g => Apart(y, gate[h]) /\ Apart(gate[h], y)
    PROVE  GatesGood'
<1>1. gate' \in [Gateways -> GoodGates']
  BY DEF GatesGood
<1>2. ASSUME NEW h \in Gateways, NEW k \in Gateways, h # k
      PROVE  Apart(gate'[h], gate'[k])
  BY <1>2 DEF GatesGood
<1> QED
  BY <1>1, <1>2 DEF GatesGood

(* A step of one gateway that touches nothing else. *)
LEMMA QuietMove ==
    ASSUME TimerInv, NEW g \in Gateways, NEW y \in GoodGates,
           gate' = [gate EXCEPT ![g] = y],
           UNCHANGED <<doc, ripe, audit, call, lease, history>>, troubles' \in Nat,
           Holds(y) => Holds(gate[g]) /\ y.snap = gate[g].snap,
           y.pc # "off" => gate[g].pc # "off" /\ y.fence = gate[g].fence
    PROVE  TimerInv'
<1>1. Typed' /\ DocInv'
  BY DEF TimerInv, Typed, DocInv, history, FateTold, ChangesHeard, LandedByPatch,
         OnePatchPerTimer, FinalIsTruthful, NothingUnaudited, Heard
<1>2. Snapshots' = Snapshots
  BY DEF Snapshots
<1>3. CallsGood'
  BY <1>2, CallsStay DEF TimerInv
<1>4. GoodGates' = GoodGates
  BY <1>2 DEF GoodGates, KnowsClaim, KeepsClaim, KnowsOutcome, history
<1>5. \A h \in Gateways : h # g => Apart(y, gate[h]) /\ Apart(gate[h], y)
  BY DEF Apart, TimerInv, GatesGood
<1>6. GatesGood'
  BY <1>4, <1>5, GateMoves DEF TimerInv, GatesGood
<1> QED
  BY <1>1, <1>3, <1>6 DEF TimerInv

(* A loop that holds nothing relies on nothing but its fence. *)
LEMMA FreshGood ==
    ASSUME NEW pc \in {"off", "boot", "idle"}, NEW n \in Nat, n <= lease
    PROVE  Fresh(pc, n) \in GoodGates /\ ~Holds(Fresh(pc, n))
           /\ Fresh(pc, n).pc = pc /\ Fresh(pc, n).fence = n
<1>1. Fresh(pc, n) \in GateRecs
  BY Records DEF GatePCs
<1>2. Fresh(pc, n).pc = pc /\ Fresh(pc, n).fence = n
  BY DEF Fresh
<1> QED
  BY <1>1, <1>2 DEF GoodGates, Holds, KnowsClaim, KeepsClaim, KnowsOutcome

-----------------------------------------------------------------------------
(* Steps of a gateway that move only itself *)

(* A loop that starts over, or turns to nothing. *)
LEMMA FreshMove ==
    ASSUME TimerInv, NEW g \in Gateways, NEW pc \in {"boot", "idle"},
           gate' = [gate EXCEPT ![g] = Fresh(pc, gate[g].fence)],
           gate[g].pc # "off",
           UNCHANGED <<doc, ripe, audit, call, lease, history>>, troubles' \in Nat
    PROVE  TimerInv'
<1>1. gate[g] \in GoodGates /\ gate[g].fence \in Nat /\ gate[g].fence <= lease
  BY DEF TimerInv, GatesGood, GoodGates, GateRecs
<1>2. /\ Fresh(pc, gate[g].fence) \in GoodGates /\ ~Holds(Fresh(pc, gate[g].fence))
      /\ Fresh(pc, gate[g].fence).fence = gate[g].fence
  BY <1>1, FreshGood
<1> QED
  BY <1>2, QuietMove

(* A look at the lease: whoever goes on may rely on holding it. *)
LEMMA CheckedMove ==
    ASSUME TimerInv, NEW g \in Gateways, NEW pc \in GatePCs, Checked(g, pc),
           gate[g].pc # "off",
           LET y == [gate[g] EXCEPT !.pc = pc] IN
               y \in GoodGates /\ (Holds(y) => Holds(gate[g])),
           pc # "off",
           UNCHANGED <<doc, ripe, audit, call, lease, history, troubles>>
    PROVE  TimerInv'
<1>1. gate[g] \in GateRecs /\ troubles' \in Nat
  BY DEF TimerInv, GatesGood, GoodGates, Typed
<1>2. CASE Current(g)
  <2> DEFINE y == [gate[g] EXCEPT !.pc = pc]
  <2>1. y.snap = gate[g].snap /\ y.fence = gate[g].fence
    BY <1>1 DEF GateRecs
  <2>2. gate' = [gate EXCEPT ![g] = y]
    BY <1>2 DEF Checked
  <2> QED
    BY <1>1, <2>1, <2>2, QuietMove
<1>3. CASE ~Current(g)
  <2>1. gate' = [gate EXCEPT ![g] = Fresh("boot", gate[g].fence)]
    BY <1>3 DEF Checked
  <2> QED
    BY <1>1, <2>1, FreshMove
<1> QED
  BY <1>2, <1>3

(* The lease checks of recovery, claim, PATCH and finish. *)
LEMMA ChecksKeep ==
    ASSUME TimerInv, NEW g \in Gateways,
           RecoverCheck(g) \/ ClaimCheck(g) \/ DecideFor(g) \/ FinishCheck(g)
    PROVE  TimerInv'
<1> DEFINE y(pc) == [gate[g] EXCEPT !.pc = pc]
<1>1. gate[g] \in GoodGates /\ gate[g] \in GateRecs
  BY DEF TimerInv, GatesGood, GoodGates
<1>2. \A pc \in GatePCs : /\ y(pc) \in GateRecs /\ y(pc).pc = pc
                          /\ y(pc).snap = gate[g].snap /\ y(pc).fence = gate[g].fence
                          /\ y(pc).status = gate[g].status
  BY <1>1 DEF GateRecs
<1>3. CASE RecoverCheck(g)
  <2>1. y("recovering") \in GoodGates /\ ~Holds(y("recovering"))
    BY <1>1, <1>2, <1>3 DEF GoodGates, Holds, KnowsClaim, KeepsClaim, KnowsOutcome, GatePCs
  <2> QED
    BY <2>1, <1>3, CheckedMove DEF RecoverCheck, GatePCs
<1>4. CASE ClaimCheck(g)
  <2>1. y("claiming") \in GoodGates /\ ~Holds(y("claiming"))
    BY <1>1, <1>2, <1>4 DEF GoodGates, Holds, KnowsClaim, KeepsClaim, KnowsOutcome, GatePCs
  <2> QED
    BY <2>1, <1>4, CheckedMove DEF ClaimCheck, GatePCs
<1>5. CASE DecideFor(g)
  <2>1. y("cleared") \in GoodGates /\ Holds(gate[g])
    BY ZenonT(40), <1>1, <1>2, <1>5
       DEF GoodGates, Holds, KnowsClaim, KeepsClaim, KnowsOutcome, GatePCs, DecideFor
  <2> QED
    BY <2>1, <1>5, CheckedMove DEF DecideFor, GatePCs
<1>6. CASE FinishCheck(g)
  <2>1. y("finishing") \in GoodGates /\ Holds(gate[g])
    BY ZenonT(40), <1>1, <1>2, <1>6
       DEF GoodGates, Holds, KnowsClaim, KeepsClaim, KnowsOutcome, GatePCs, FinishCheck
  <2> QED
    BY <2>1, <1>6, CheckedMove DEF FinishCheck, GatePCs
<1> QED
  BY <1>3, <1>4, <1>5, <1>6

(* A list of the claims that may be recovered takes them as they are. *)
LEMMA RecoverListKeeps ==
    ASSUME TimerInv, NEW g \in Gateways, RecoverList(g)
    PROVE  TimerInv'
<1> DEFINE y == [gate[g] EXCEPT !.pc = "marking", !.snap = doc]
<1>1. gate[g] \in GoodGates /\ gate[g] \in GateRecs /\ doc \in Docs /\ troubles \in Nat
  BY DEF TimerInv, GatesGood, GoodGates, Typed
<1>2. CASE Orphaned(g)
  <2>1. /\ y \in GateRecs /\ y.pc = "marking" /\ y.snap = doc /\ y.fence = gate[g].fence
    BY <1>1 DEF GateRecs, GatePCs
  <2>2. doc \in Snapshots
    BY <1>1 DEF Snapshots, Docs
  <2>3. doc.timer \in Requests
    BY <1>2 DEF Orphaned, TimerInv, DocInv, FateTold
  <2>4. y \in GoodGates /\ ~Holds(y)
    BY <1>1, <1>2, <2>1, <2>2, <2>3
       DEF GoodGates, Holds, KnowsClaim, KeepsClaim, KnowsOutcome, Orphaned
  <2>5. gate' = [gate EXCEPT ![g] = y] /\ gate[g].pc # "off"
    BY <1>2 DEF RecoverList
  <2> HIDE DEF y
  <2> QED
    BY <1>1, <2>1, <2>4, <2>5, QuietMove DEF RecoverList
<1>3. CASE ~Orphaned(g)
  BY <1>1, <1>3, FreshMove DEF RecoverList
<1> QED
  BY <1>2, <1>3

(* A verdict without a PATCH is true: nothing has landed. *)
LEMMA DecideAgainstKeeps ==
    ASSUME TimerInv, NEW g \in Gateways, DecideAgainst(g)
    PROVE  TimerInv'
<1>1. gate[g] \in GoodGates /\ gate[g] \in GateRecs /\ troubles \in Nat
  BY DEF TimerInv, GatesGood, GoodGates, Typed
<1>2. PICK status \in Final \ {"disconnected"} :
          gate' = [gate EXCEPT ![g] = [gate[g] EXCEPT !.pc = "decided", !.status = status]]
  BY DEF DecideAgainst
<1> DEFINE y == [gate[g] EXCEPT !.pc = "decided", !.status = status]
<1>3. /\ y \in GateRecs /\ y.pc = "decided" /\ y.snap = gate[g].snap
      /\ y.fence = gate[g].fence /\ y.status = status
  BY <1>1 DEF GateRecs, GatePCs
<1>4. gate[g].snap.timer \notin landed
  BY <1>1 DEF GoodGates, KnowsClaim, KnowsOutcome, Holds, DecideAgainst, TimerInv, DocInv,
              LandedByPatch
<1>5. y \in GoodGates /\ Holds(gate[g])
  BY <1>1, <1>3, <1>4
     DEF GoodGates, Holds, KnowsClaim, KeepsClaim, KnowsOutcome, DecideAgainst
<1> HIDE DEF y
<1> QED
  BY <1>1, <1>2, <1>3, <1>5, QuietMove DEF y, DecideAgainst

(* A projector reads what is to be projected. *)
LEMMA ProjectReadKeeps ==
    ASSUME TimerInv, NEW g \in Gateways, ProjectRead(g)
    PROVE  TimerInv'
<1> DEFINE y == [gate[g] EXCEPT !.pc = "projecting", !.events = doc.pending]
<1>1. gate[g] \in GoodGates /\ gate[g] \in GateRecs /\ troubles \in Nat /\ doc \in Docs
  BY DEF TimerInv, GatesGood, GoodGates, Typed
<1>2. /\ y \in GateRecs /\ y.pc = "projecting" /\ y.snap = gate[g].snap
      /\ y.fence = gate[g].fence
  BY <1>1 DEF GateRecs, GatePCs, Docs
<1>3. y \in GoodGates /\ ~Holds(y)
  BY <1>1, <1>2 DEF GoodGates, Holds, KnowsClaim, KeepsClaim, KnowsOutcome
<1>4. gate' = [gate EXCEPT ![g] = y] /\ gate[g].pc # "off"
  BY DEF ProjectRead
<1> HIDE DEF y
<1> QED
  BY <1>1, <1>2, <1>3, <1>4, QuietMove DEF ProjectRead

(* A loop that fails starts over; a process that is killed holds nothing. *)
LEMMA TroublesKeep ==
    ASSUME TimerInv, NEW g \in Gateways, Fails(g) \/ Crash(g)
    PROVE  TimerInv'
<1>1. troubles' \in Nat /\ lease \in Nat
  BY DEF TimerInv, Typed, Fails, Crash
<1>2. CASE Fails(g)
  BY <1>1, <1>2, FreshMove DEF Fails
<1>3. CASE Crash(g)
  <2>1. Fresh("off", 0) \in GoodGates /\ ~Holds(Fresh("off", 0)) /\ Fresh("off", 0).pc = "off"
    BY <1>1, FreshGood
  <2> QED
    BY <1>1, <1>3, <2>1, QuietMove DEF Crash
<1> QED
  BY <1>2, <1>3

-----------------------------------------------------------------------------
(* Set and cancel *)

(* Steps that leave the document, the gateways and the timers alone. *)
LEMMA CallMoves ==
    ASSUME TimerInv, call' \in [Calls -> CallRecs], ripe' \in BOOLEAN, CallsGood',
           UNCHANGED <<doc, audit, gate, lease, history, troubles>>
    PROVE  TimerInv'
<1>1. Typed' /\ DocInv'
  BY DEF TimerInv, Typed, DocInv, history, FateTold, ChangesHeard, LandedByPatch,
         OnePatchPerTimer, FinalIsTruthful, NothingUnaudited, Heard
<1>2. GoodGates' = GoodGates
  BY DEF GoodGates, KnowsClaim, KeepsClaim, KnowsOutcome, history, Snapshots
<1> QED
  BY <1>1, <1>2 DEF TimerInv, GatesGood

(* A call reads the document and decides: what it relies on is so now. *)
LEMMA ReadKeeps ==
    ASSUME TimerInv, NEW c \in Calls, Read(c)
    PROVE  TimerInv'
<1> DEFINE pc == Verdict(c, doc)
           s == IF pc = "writing" THEN doc ELSE NoTimer
           y == [call[c] EXCEPT !.pc = pc, !.snap = s]
<1>1. call[c] \in CallRecs /\ doc \in Docs /\ call[c].left # 0 /\ ripe \in BOOLEAN
  BY DEF TimerInv, Typed, CallsGood, GoodCall, Read
<1>2. pc \in CallPCs \ {"reading"} /\ s \in Docs
  BY <1>1, Records DEF Verdict, CallPCs
<1>3. y \in CallRecs /\ y.pc = pc /\ y.snap = s /\ y.left = call[c].left
  BY <1>1, <1>2 DEF CallRecs
<1>4. call' = [call EXCEPT ![c] = y] /\ doc' = doc /\ ripe' = ripe
  BY <1>1 DEF Read, CallRecs
<1>5. pc = "writing" => s = doc /\ doc.status # "executing" /\ ~Heard(ReqOf[c], doc)
  BY DEF Verdict, Heard, Known
<1>6. doc \in Snapshots /\ Snapshots' = Snapshots
  BY <1>1, <1>4 DEF Snapshots, Docs
<1> HIDE DEF pc, s, y
<1>7. call' \in [Calls -> CallRecs] /\ call'[c] = y /\ \A d \in Calls \ {c} : call'[d] = call[d]
  BY <1>3, <1>4 DEF TimerInv, Typed
<1>8. CallsGood'
  BY <1>1, <1>2, <1>3, <1>5, <1>6, <1>7 DEF CallsGood, GoodCall, TimerInv, Heard
<1> QED
  BY <1>1, <1>4, <1>7, <1>8, CallMoves DEF Read

(* A write that finds another revision begins anew or gives up. *)
LEMMA WriteMissedKeeps ==
    ASSUME TimerInv, NEW c \in Calls, Write(c), ~UnchangedSince(call[c].snap)
    PROVE  TimerInv'
<1> DEFINE pc == IF call[c].left = 1 THEN "conflict" ELSE "reading"
           y == [call[c] EXCEPT !.pc = pc, !.snap = NoTimer, !.left = call[c].left - 1]
<1>1. /\ call[c] \in CallRecs /\ call[c].left # 0 /\ ripe \in BOOLEAN /\ NoTimer \in Docs
      /\ call[c].left \in 0 .. MaxCas /\ MaxCas \in Nat
  BY Records, SleepConstants DEF TimerInv, Typed, CallsGood, GoodCall, Write, CallRecs
<1>2. call[c].left - 1 \in 0 .. MaxCas /\ (pc = "reading" => call[c].left - 1 # 0)
  BY <1>1
<1>3. y \in CallRecs /\ y.pc = pc /\ y.left = call[c].left - 1
  BY <1>1, <1>2 DEF CallRecs, CallPCs
<1>4. call' = [call EXCEPT ![c] = y] /\ ripe' = ripe
  BY <1>1 DEF Write, CallRecs
<1>5. UNCHANGED <<doc, audit, gate, lease, history, troubles>>
  BY DEF Write, history
<1>6. Snapshots' = Snapshots
  BY <1>5 DEF Snapshots
<1>7. pc \in {"conflict", "reading"}
  OBVIOUS
<1> HIDE DEF pc, y
<1>8. call' \in [Calls -> CallRecs] /\ call'[c] = y /\ \A d \in Calls \ {c} : call'[d] = call[d]
  BY <1>3, <1>4 DEF TimerInv, Typed
<1>9. CallsGood'
  BY <1>2, <1>3, <1>6, <1>7, <1>8 DEF CallsGood, GoodCall, TimerInv, Heard
<1> QED
  BY <1>1, <1>4, <1>5, <1>8, <1>9, CallMoves

(* The document a successful write replaces is the one that was read, but   *)
(* for the audit events that were projected meanwhile.                      *)
LEMMA WriteReplaces ==
    ASSUME TimerInv, NEW c \in Calls, Write(c), UnchangedSince(call[c].snap)
    PROVE  LET s == call[c].snap IN
           /\ s \in Docs /\ doc \in Docs /\ s.rev = doc.rev /\ s.status = doc.status
           /\ s.timer = doc.timer /\ s.seen = doc.seen /\ s.fence = doc.fence
           /\ doc.pending \subseteq s.pending
           /\ doc.status # "executing" /\ ~Heard(ReqOf[c], doc)
           /\ ReqOf[c] \in Requests /\ ActOf[c] \in {"set", "cancel"}
           /\ changes[ReqOf[c]] = 0 /\ phase[ReqOf[c]] = "new"
<1> DEFINE s == call[c].snap
<1>1. s \in Snapshots /\ s.status # "executing" /\ ~Heard(ReqOf[c], s)
  BY DEF Write, TimerInv, CallsGood, GoodCall
<1>2. /\ s \in Docs /\ doc \in Docs /\ s.rev = doc.rev /\ s.status = doc.status
      /\ s = [doc EXCEPT !.pending = s.pending] /\ doc.pending \subseteq s.pending
  BY <1>1 DEF UnchangedSince, Snapshots, TimerInv, Typed
<1>3. s.timer = doc.timer /\ s.seen = doc.seen /\ s.fence = doc.fence
  <2> HIDE DEF s
  <2> QED
    BY <1>2 DEF Docs
<1>4. ~Heard(ReqOf[c], doc)
  BY <1>1, <1>3 DEF Heard
<1>5. ReqOf[c] \in Requests /\ ActOf[c] \in {"set", "cancel"}
  BY SleepConstants
<1>6. changes[ReqOf[c]] = 0 /\ phase[ReqOf[c]] = "new"
  BY <1>4, <1>5 DEF TimerInv, DocInv, ChangesHeard
<1> QED
  BY <1>1, <1>2, <1>3, <1>4, <1>5, <1>6

(* A claim that is of the present revision is what the document shows. *)
LEMMA ClaimShows ==
    ASSUME doc \in Docs, NEW x \in GoodGates, Holds(x) \/ x.pc = "marking",
           doc.rev = x.snap.rev
    PROVE  /\ doc.status = "executing" /\ doc.timer = x.snap.timer
           /\ doc.fence = x.snap.fence /\ doc.seen = x.snap.seen
           /\ doc = [x.snap EXCEPT !.pending = doc.pending]
<1> DEFINE s == x.snap
<1>1. s \in Snapshots /\ s.status = "executing"
  BY DEF GoodGates, KnowsClaim
<1>2. s \in Docs /\ s = [doc EXCEPT !.pending = s.pending]
  BY <1>1 DEF Snapshots
<1> HIDE DEF s
<1>3. /\ doc.status = s.status /\ doc.timer = s.timer /\ doc.fence = s.fence
      /\ doc.seen = s.seen /\ doc = [s EXCEPT !.pending = doc.pending]
  BY <1>2 DEF Docs
<1> QED
  BY <1>1, <1>3 DEF s

(* A gateway that does not act goes on relying on what it relies on. *)
LEMMA GateStays ==
    ASSUME NEW x \in GoodGates, Snapshots \subseteq Snapshots', audit \subseteq audit',
           lease \in Nat, lease' \in Nat, lease <= lease',
           Holds(x) => /\ phase'[x.snap.timer] \in {"taken", "closed"}
                       /\ x.fence = lease' => doc'.rev = x.snap.rev
                       /\ doc'.status \in Certain => doc'.timer # x.snap.timer
                       /\ patched'[x.snap.timer] = patched[x.snap.timer]
                       /\ x.snap.timer \in landed' <=> x.snap.timer \in landed
    PROVE  x \in GoodGates'
<1>1. x \in GateRecs /\ x.fence <= lease' /\ KnowsClaim(x) /\ KeepsClaim(x) /\ KnowsOutcome(x)
  BY DEF GoodGates, GateRecs
<1>2. x \in GateRecs' /\ x.pc = "pulling" => x.snap.pending \subseteq audit'
  BY DEF GoodGates, GateRecs
<1>3. \A s \in Snapshots : s \in Snapshots'
  OBVIOUS
<1>4. Holds(x) \/ x.pc = "marking" => x.snap \in Snapshots'
  BY <1>1, <1>3 DEF KnowsClaim
<1> QED
  BY <1>1, <1>2, <1>4 DEF GoodGates, KnowsClaim, KeepsClaim, KnowsOutcome, Holds

(* What the timers and the requests are after a successful write. *)
LEMMA WriteFates ==
    ASSUME TimerInv, NEW c \in Calls, Write(c), UnchangedSince(call[c].snap)
    PROVE  /\ doc' \in Docs /\ doc'.rev = doc.rev + 1 /\ DocInv'
           /\ doc'.status \in Certain => doc.status \in Certain /\ doc'.timer = doc.timer
           /\ phase' \in [Requests -> {"new", "armed", "off", "taken", "closed"}]
           /\ changes' \in [Requests -> Nat]
           /\ \A r \in Requests : phase[r] \in {"taken", "closed"} => phase'[r] = phase[r]
<1> DEFINE s == call[c].snap
           q == ReqOf[c]
<1>1. /\ s \in Docs /\ doc \in Docs /\ s.rev = doc.rev /\ s.status = doc.status
      /\ s.timer = doc.timer /\ s.seen = doc.seen /\ s.fence = doc.fence
      /\ doc.pending \subseteq s.pending
      /\ doc.status # "executing" /\ ~Heard(q, doc)
      /\ q \in Requests /\ ActOf[c] \in {"set", "cancel"}
      /\ changes[q] = 0 /\ phase[q] = "new"
  BY WriteReplaces
<1>2. /\ doc' = Mutated(c, s) /\ phase' = Fates(c, s)
      /\ changes' = [changes EXCEPT ![q] = changes[q] + 1]
      /\ issued' = issued \cup {<<"request", q>>}
      /\ UNCHANGED <<audit, patched, landed>>
  BY DEF Write
<1>3. /\ doc.timer \in Requests \cup {Nothing} /\ Nothing \notin Requests
      /\ phase \in [Requests -> {"new", "armed", "off", "taken", "closed"}]
      /\ changes \in [Requests -> Nat]
  BY <1>1, SleepConstants DEF Docs, TimerInv, Typed
<1> HIDE DEF s, q
<1>4. /\ doc'.rev = doc.rev + 1 /\ doc'.seen = doc.seen \cup {[req |-> q, act |-> ActOf[c]]}
      /\ doc'.pending = s.pending \cup {<<"request", q>>}
      /\ doc'.status = IF ActOf[c] = "set" THEN "pending"
                       ELSE IF doc.status \in {"none", "pending"} THEN "cancelled" ELSE doc.status
      /\ doc'.timer = IF ActOf[c] = "set" THEN q ELSE doc.timer
  BY <1>1, <1>2 DEF Mutated, Entry, q
<1>5. <<"request", q>> \in Events /\ [req |-> q, act |-> ActOf[c]] \in [req : Requests, act : {"set", "cancel"}]
  BY <1>1 DEF Events
<1>6. doc' \in Docs
  <2>1. /\ (IF ActOf[c] = "set" THEN 0 ELSE s.fence) \in Nat
        /\ s.rev + 1 \in Nat /\ s.pending \subseteq Events /\ s.status \in Final \cup {"none", "pending", "executing", "cancelled"}
        /\ s.seen \subseteq [req : Requests, act : {"set", "cancel"}]
        /\ s.timer \in Requests \cup {Nothing}
    BY <1>1 DEF Docs
  <2> QED
    BY <1>1, <1>2, <1>5, <2>1 DEF Docs, Mutated, Entry, q
<1>7. \A r \in Requests :
          phase'[r] = IF ActOf[c] = "set" /\ r = q THEN "armed"
                      ELSE IF doc.status = "pending" /\ r = doc.timer THEN "off" ELSE phase[r]
  BY <1>1, <1>2 DEF Fates, q
<1>8. phase' \in [Requests -> {"new", "armed", "off", "taken", "closed"}]
  BY <1>2, <1>3, <1>7 DEF Fates
<1>9. doc'.status \in Certain => doc.status \in Certain /\ doc'.timer = doc.timer
  BY <1>1, <1>4 DEF Certain
<1>10. \A r \in Requests : phase[r] \in {"taken", "closed"} => phase'[r] = phase[r]
  BY <1>1, <1>7 DEF TimerInv, DocInv, FateTold
<1>11. FateTold'
  BY <1>1, <1>3, <1>4, <1>7 DEF TimerInv, DocInv, FateTold, Final
<1>12. \A r \in Requests : Heard(r, doc') <=> r = q \/ Heard(r, doc)
  <2> DEFINE n == [req |-> q, act |-> ActOf[c]]
  <2>1. n.req = q /\ doc'.seen = doc.seen \cup {n}
    BY <1>4
  <2> HIDE DEF n
  <2> QED
    BY <2>1 DEF Heard
<1>13. ChangesHeard'
  <2> SUFFICES ASSUME NEW r \in Requests
               PROVE  /\ changes'[r] = IF Heard(r, doc') THEN 1 ELSE 0
                      /\ phase'[r] # "new" => Heard(r, doc')
    BY DEF ChangesHeard
  <2>1. changes[r] = (IF Heard(r, doc) THEN 1 ELSE 0) /\ (phase[r] # "new" => Heard(r, doc))
    BY DEF TimerInv, DocInv, ChangesHeard
  <2>2. changes'[r] = IF r = q THEN 1 ELSE changes[r]
    BY <1>1, <1>2, <1>3
  <2>3. changes'[r] = IF Heard(r, doc') THEN 1 ELSE 0
    BY <1>1, <1>12, <2>1, <2>2
  <2>4. phase'[r] # "new" => Heard(r, doc')
    BY <1>1, <1>3, <1>7, <1>12, <2>1 DEF TimerInv, DocInv, FateTold
  <2> QED
    BY <2>3, <2>4
<1>14. LandedByPatch' /\ OnePatchPerTimer'
  BY <1>2, <1>10 DEF TimerInv, DocInv, LandedByPatch, OnePatchPerTimer
<1>15. FinalIsTruthful'
  BY <1>2, <1>4, <1>9 DEF TimerInv, DocInv, FinalIsTruthful, Certain
<1>16. NothingUnaudited'
  BY <1>1, <1>2, <1>4 DEF TimerInv, DocInv, NothingUnaudited
<1>17. changes' \in [Requests -> Nat]
  BY <1>1, <1>2, <1>3
<1> QED
  BY <1>4, <1>6, <1>8, <1>9, <1>10, <1>11, <1>13, <1>14, <1>15, <1>16, <1>17 DEF DocInv

(* A write gives the document a new revision, which takes nothing from a    *)
(* process that holds a claim: it holds an old one.                         *)
LEMMA WriteKeeps ==
    ASSUME TimerInv, NEW c \in Calls, Write(c)
    PROVE  TimerInv'
<1>1. CASE ~UnchangedSince(call[c].snap)
  BY <1>1, WriteMissedKeeps
<1>2. CASE UnchangedSince(call[c].snap)
  <2> DEFINE y == [call[c] EXCEPT !.pc = "done", !.snap = NoTimer]
  <2>1. /\ doc' \in Docs /\ doc'.rev = doc.rev + 1 /\ DocInv'
        /\ doc'.status \in Certain => doc.status \in Certain /\ doc'.timer = doc.timer
        /\ phase' \in [Requests -> {"new", "armed", "off", "taken", "closed"}]
        /\ changes' \in [Requests -> Nat]
        /\ \A r \in Requests : phase[r] \in {"taken", "closed"} => phase'[r] = phase[r]
    BY <1>2, WriteFates
  <2>2. /\ call' = [call EXCEPT ![c] = y] /\ issued' = issued \cup {<<"request", ReqOf[c]>>}
        /\ ripe' = (ripe /\ ActOf[c] = "cancel")
        /\ UNCHANGED <<audit, gate, lease, patched, landed, stray, troubles>>
    BY <1>2 DEF Write, TimerInv, Typed, CallRecs
  <2>3. call[c] \in CallRecs /\ NoTimer \in Docs /\ doc \in Docs /\ lease \in Nat
    BY Records DEF TimerInv, Typed
  <2>4. y \in CallRecs /\ y.pc = "done"
    BY <2>3 DEF CallRecs, CallPCs
  <2>5. Snapshots \subseteq Snapshots'
    BY <2>1, <2>3, SnapshotsAge
  <2> HIDE DEF y
  <2>6. call' \in [Calls -> CallRecs] /\ call'[c] = y /\ \A d \in Calls \ {c} : call'[d] = call[d]
    BY <2>2, <2>4 DEF TimerInv, Typed
  <2>7. CallsGood'
    <3> SUFFICES ASSUME NEW d \in Calls PROVE GoodCall(d)'
      BY DEF CallsGood
    <3>1. \A s \in Snapshots : s \in Snapshots'
      BY <2>5
    <3>2. CASE d = c
      BY <3>2, <2>4, <2>6 DEF GoodCall
    <3>3. CASE d # c
      BY <3>1, <3>3, <2>6 DEF CallsGood, GoodCall, TimerInv
    <3> QED
      BY <3>2, <3>3
  <2>8. ripe' \in BOOLEAN
    BY <2>2
  <2>9. issued' \subseteq Events
    <3>1. <<"request", ReqOf[c]>> \in Events
      BY SleepConstants DEF Events
    <3> QED
      BY <2>2, <3>1 DEF TimerInv, Typed
  <2>10. Typed'
    BY <2>1, <2>2, <2>6, <2>8, <2>9 DEF TimerInv, Typed
  <2>11. \A x \in GoodGates : x \in GoodGates'
    <3> SUFFICES ASSUME NEW x \in GoodGates PROVE x \in GoodGates'
      OBVIOUS
    <3>1. Holds(x) => doc.rev # x.snap.rev
      BY <2>3, <1>2, ClaimShows, WriteReplaces
    <3>2. Holds(x) => /\ phase[x.snap.timer] \in {"taken", "closed"} /\ x.snap.timer \in Requests
                      /\ x.fence # lease /\ (doc.status \in Certain => doc.timer # x.snap.timer)
      BY <3>1 DEF GoodGates, KeepsClaim, KnowsClaim
    <3> QED
      BY <3>2, <2>1, <2>2, <2>3, <2>5, GateStays
  <2>12. GatesGood'
    BY <2>2, <2>11 DEF TimerInv, GatesGood
  <2> QED
    BY <2>1, <2>7, <2>10, <2>12 DEF TimerInv
<1> QED
  BY <1>1, <1>2

(* The clock changes nothing that anybody relies on. *)
LEMMA FallDueKeeps ==
    ASSUME TimerInv, FallDue
    PROVE  TimerInv'
<1>1. call' \in [Calls -> CallRecs] /\ CallsGood'
  BY CallsStay DEF FallDue, TimerInv, Typed, Snapshots
<1> QED
  BY <1>1, CallMoves DEF FallDue

-----------------------------------------------------------------------------
(* Steps of a gateway that the others see *)

(* The lease that is granted anew supersedes every process that holds one. *)
LEMMA StartKeeps ==
    ASSUME TimerInv, NEW g \in Gateways, Start(g)
    PROVE  TimerInv'
<1> DEFINE y == Fresh("boot", lease + 1)
<1>1. /\ lease \in Nat /\ lease' = lease + 1 /\ gate' = [gate EXCEPT ![g] = y]
      /\ UNCHANGED <<doc, ripe, audit, call, history, troubles>>
  BY DEF Start, TimerInv, Typed
<1>2. Typed' /\ DocInv'
  BY <1>1 DEF TimerInv, Typed, DocInv, history, FateTold, ChangesHeard, LandedByPatch,
         OnePatchPerTimer, FinalIsTruthful, NothingUnaudited, Heard
<1>3. Snapshots' = Snapshots
  BY <1>1 DEF Snapshots
<1>4. CallsGood'
  BY <1>1, <1>3, CallsStay DEF TimerInv
<1>5. \A x \in GoodGates : x \in GoodGates' /\ x.fence \in Nat /\ x.fence <= lease
  BY <1>1, <1>3 DEF GoodGates, GateRecs, KnowsClaim, KeepsClaim, KnowsOutcome, history
<1>6. y \in GateRecs /\ y.pc = "boot" /\ y.fence = lease + 1
  BY <1>1, Records DEF GatePCs, Fresh
<1> HIDE DEF y
<1>7. y \in GoodGates' /\ ~Holds(y)
  BY <1>1, <1>6 DEF GoodGates, Holds, KnowsClaim, KeepsClaim, KnowsOutcome, GateRecs
<1>8. \A h \in Gateways : gate[h] \in GoodGates' /\ gate[h].fence # y.fence
  BY <1>1, <1>5, <1>6 DEF TimerInv, GatesGood
<1>9. GatesGood'
  BY <1>1, <1>7, <1>8, GateMoves DEF TimerInv, Apart
<1> QED
  BY <1>2, <1>4, <1>9 DEF TimerInv

(* The timer that is claimed was in nobody's hands. *)
LEMMA ClaimKeeps ==
    ASSUME TimerInv, NEW g \in Gateways, Claim(g)
    PROVE  TimerInv'
<1>1. /\ gate[g] \in GoodGates /\ gate[g] \in GateRecs /\ doc \in Docs /\ lease \in Nat
      /\ troubles \in Nat /\ gate[g].fence <= lease /\ gate[g].pc # "off"
      /\ gate \in [Gateways -> GoodGates]
  BY DEF TimerInv, GatesGood, GoodGates, Typed, Claim
<1>2. CASE ~Claimable(g)
  BY <1>1, <1>2, FreshMove DEF Claim, history
<1>3. CASE Claimable(g)
  <2> DEFINE y == [gate[g] EXCEPT !.pc = "deciding", !.snap = doc']
             t == doc.timer
  <2>1. /\ doc' = [doc EXCEPT !.rev = doc.rev + 1, !.status = "executing", !.fence = gate[g].fence]
        /\ gate' = [gate EXCEPT ![g] = y] /\ phase' = [phase EXCEPT ![t] = "taken"]
        /\ UNCHANGED <<ripe, audit, call, lease, patched, landed, changes, issued, troubles>>
    BY <1>1, <1>3 DEF Claim, Docs
  <2>2. /\ doc' \in Docs /\ doc'.rev = doc.rev + 1 /\ doc'.status = "executing"
        /\ doc'.fence = gate[g].fence /\ doc'.timer = t
        /\ doc'.seen = doc.seen /\ doc'.pending = doc.pending
    <3>1. doc.rev + 1 \in Nat /\ gate[g].fence \in Nat
      BY <1>1 DEF Docs, GateRecs
    <3> QED
      BY <1>1, <2>1, <3>1 DEF Docs
  <2>3. t \in Requests /\ phase[t] = "armed" /\ doc.status = "pending"
    BY <1>3 DEF Claimable, TimerInv, DocInv, FateTold
  <2>4. /\ phase' \in [Requests -> {"new", "armed", "off", "taken", "closed"}] /\ phase'[t] = "taken"
        /\ \A r \in Requests : r # t => phase'[r] = phase[r]
    BY <2>1, <2>3 DEF TimerInv, Typed
  <2>5. patched[t] = 0 /\ t \notin landed
    BY <2>3 DEF TimerInv, DocInv, LandedByPatch
  <2>6. y \in GateRecs /\ y.pc = "deciding" /\ y.snap = doc' /\ y.fence = gate[g].fence
    BY <1>1, <2>2 DEF GateRecs, GatePCs
  <2>7. Snapshots \subseteq Snapshots'
    BY <1>1, <2>2, SnapshotsAge
  <2>8. doc' \in Snapshots'
    BY <2>2 DEF Snapshots, Docs
  <2> HIDE DEF y, t
  <2>9. DocInv'
    <3>1. \A r \in Requests : Heard(r, doc') <=> Heard(r, doc)
      BY <2>2 DEF Heard
    <3>2. FateTold'
      BY <2>2, <2>3, <2>4 DEF TimerInv, DocInv, FateTold, Final
    <3>3. ChangesHeard'
      BY <2>1, <2>3, <2>4, <3>1 DEF TimerInv, DocInv, ChangesHeard
    <3>4. LandedByPatch' /\ OnePatchPerTimer'
      BY <2>1, <2>3, <2>4 DEF TimerInv, DocInv, LandedByPatch, OnePatchPerTimer
    <3>5. FinalIsTruthful' /\ NothingUnaudited'
      BY <2>1, <2>2 DEF TimerInv, DocInv, FinalIsTruthful, NothingUnaudited
    <3> QED
      BY <3>2, <3>3, <3>4, <3>5 DEF DocInv
  <2>10. Typed' /\ CallsGood'
    BY <2>1, <2>2, <2>4, <2>7, CallsStay DEF TimerInv, Typed
  <2>11. y \in GoodGates'
    <3> SUFFICES ASSUME NEW z, z = y PROVE z \in GoodGates'
      OBVIOUS
    <3>1. /\ z \in GateRecs /\ z.pc = "deciding" /\ z.snap \in Snapshots' /\ z.fence <= lease'
          /\ z.snap.status = "executing" /\ z.snap.timer = t /\ z.snap.fence = z.fence
          /\ z.snap.rev = doc'.rev /\ z.fence \in Nat
      BY <1>1, <2>1, <2>2, <2>6, <2>8 DEF GateRecs
    <3>2. KnowsClaim(z)'
      BY <2>3, <3>1 DEF KnowsClaim
    <3>3. KeepsClaim(z)'
      BY <2>2, <2>4, <3>1 DEF KeepsClaim, Certain
    <3>4. KnowsOutcome(z)'
      BY <2>1, <2>5, <3>1 DEF KnowsOutcome
    <3> QED
      BY <3>1, <3>2, <3>3, <3>4 DEF GoodGates, GateRecs
  <2>12. \A x \in GoodGates : Holds(x) =>
             /\ phase[x.snap.timer] \in {"taken", "closed"} /\ x.snap.timer \in Requests
             /\ x.snap.timer # t /\ x.fence # lease
    <3> SUFFICES ASSUME NEW x \in GoodGates, Holds(x)
                 PROVE  /\ phase[x.snap.timer] \in {"taken", "closed"} /\ x.snap.timer \in Requests
                        /\ x.snap.timer # t /\ x.fence # lease
      OBVIOUS
    <3>1. doc.rev # x.snap.rev
      BY <1>1, <2>3, ClaimShows
    <3> QED
      BY <2>3, <3>1 DEF GoodGates, KeepsClaim, KnowsClaim
  <2>13. \A x \in GoodGates : x \in GoodGates'
    BY <1>1, <2>1, <2>2, <2>4, <2>7, <2>12, GateStays DEF Certain
  <2>14. \A h \in Gateways : h # g => Apart(y, gate[h]) /\ Apart(gate[h], y)
    BY <1>1, <2>2, <2>6, <2>12 DEF TimerInv, GatesGood, Apart, t
  <2>15. GatesGood'
    BY <2>1, <2>11, <2>13, <2>14, GateMoves DEF TimerInv, GatesGood
  <2> QED
    BY <2>9, <2>10, <2>15 DEF TimerInv
<1> QED
  BY <1>2, <1>3

(* The claim is closed, truthfully by the process that made it or as        *)
(* unknown by one that may recover it: it was in no other hands that rely   *)
(* on the document.                                                         *)
LEMMA CloseKeeps ==
    ASSUME TimerInv, NEW g \in Gateways, NEW status \in Final,
           StillClaimed(gate[g].snap), CloseAs(gate[g].snap, status),
           Holds(gate[g]) \/ gate[g].pc = "marking",
           status \in Certain => Holds(gate[g]),
           status = "disconnected" => gate[g].snap.timer \in landed,
           status \in {"skipped", "failed"} => gate[g].snap.timer \notin landed,
           gate' = [gate EXCEPT ![g] = Fresh("idle", gate[g].fence)],
           UNCHANGED <<ripe, audit, call, lease, patched, landed, changes, troubles>>
    PROVE  TimerInv'
<1> DEFINE s == gate[g].snap
           y == Fresh("idle", gate[g].fence)
           t == doc.timer
<1>1. /\ gate[g] \in GoodGates /\ gate[g] \in GateRecs /\ doc \in Docs /\ lease \in Nat
      /\ gate[g].fence <= lease /\ gate[g].fence \in Nat /\ gate[g].pc # "off"
  BY DEF TimerInv, GatesGood, GoodGates, Typed, GateRecs, Holds
<1>2. /\ doc.status = "executing" /\ s.timer = t /\ doc.fence = s.fence /\ s.rev = doc.rev
      /\ s.fence <= gate[g].fence
  BY <1>1, ClaimShows DEF StillClaimed, GoodGates, KnowsClaim
<1>3. t \in Requests /\ phase[t] = "taken"
  BY <1>2 DEF TimerInv, DocInv, FateTold
<1>4. /\ doc' \in Docs /\ doc'.rev = doc.rev + 1 /\ doc'.status = status /\ doc'.timer = t
      /\ doc'.seen = doc.seen /\ doc'.pending = doc.pending \cup {<<"revision", s.rev + 1>>}
      /\ issued' = issued \cup {<<"revision", s.rev + 1>>}
      /\ <<"revision", s.rev + 1>> \in Events
  <2>1. <<"revision", s.rev + 1>> \in Events
    BY <1>1, <1>2 DEF Docs, Events
  <2>2. doc.pending \cup {<<"revision", s.rev + 1>>} \subseteq Events
    BY <1>1, <2>1 DEF Docs
  <2>3. s.rev + 1 \in Nat /\ s.rev + 1 = doc.rev + 1
    BY <1>1, <1>2 DEF Docs
  <2>4. /\ doc' = [doc EXCEPT !.rev = s.rev + 1, !.status = status,
                              !.pending = doc.pending \cup {<<"revision", s.rev + 1>>}]
        /\ issued' = issued \cup {<<"revision", s.rev + 1>>}
    BY <1>1 DEF CloseAs, Closed, Docs
  <2> HIDE DEF s
  <2> QED
    BY <1>1, <2>1, <2>2, <2>3, <2>4 DEF Docs
<1>5. /\ phase' \in [Requests -> {"new", "armed", "off", "taken", "closed"}] /\ phase'[t] = "closed"
      /\ \A r \in Requests : r # t => phase'[r] = phase[r]
  BY <1>2, <1>3 DEF TimerInv, Typed, CloseAs
<1>6. Snapshots \subseteq Snapshots'
  BY <1>1, <1>4, SnapshotsAge
<1>7. y \in GateRecs /\ y.pc = "idle" /\ y.fence = gate[g].fence
  BY <1>1, Records DEF GatePCs, Fresh
<1>8. status = "disconnected" => t \in landed
  BY <1>2
<1>9. status \in {"skipped", "failed"} => t \notin landed
  BY <1>2
<1> HIDE DEF s, y, t
<1>10. DocInv'
  <2>1. \A r \in Requests : Heard(r, doc') <=> Heard(r, doc)
    BY <1>4 DEF Heard
  <2>2. FateTold'
    BY <1>2, <1>3, <1>4, <1>5 DEF TimerInv, DocInv, FateTold, Final
  <2>3. ChangesHeard'
    BY <1>3, <1>5, <2>1 DEF TimerInv, DocInv, ChangesHeard
  <2>4. LandedByPatch' /\ OnePatchPerTimer'
    BY <1>3, <1>5 DEF TimerInv, DocInv, LandedByPatch, OnePatchPerTimer
  <2>5. FinalIsTruthful' /\ NothingUnaudited'
    BY <1>4, <1>8, <1>9 DEF TimerInv, DocInv, FinalIsTruthful, NothingUnaudited
  <2> QED
    BY <2>2, <2>3, <2>4, <2>5 DEF DocInv
<1>11. Typed' /\ CallsGood'
  BY <1>4, <1>5, <1>6, CallsStay DEF TimerInv, Typed
<1>12. y \in GoodGates' /\ ~Holds(y)
  BY <1>1, <1>7 DEF GoodGates, Holds, KnowsClaim, KeepsClaim, KnowsOutcome, GateRecs
<1>13. ASSUME NEW h \in Gateways, h # g
       PROVE  gate[h] \in GoodGates'
  <2>1. gate[h] \in GoodGates /\ Apart(gate[g], gate[h])
    BY <1>13 DEF TimerInv, GatesGood
  <2>2. CASE ~Holds(gate[h])
    BY <1>1, <1>6, <2>1, <2>2, GateStays
  <2>3. CASE Holds(gate[h])
    <3>1. /\ gate[h] \in GateRecs /\ gate[h].snap.timer \in Requests
          /\ phase[gate[h].snap.timer] \in {"taken", "closed"}
          /\ gate[h].snap.fence = gate[h].fence
          /\ gate[h].fence = lease => doc.rev = gate[h].snap.rev
      BY <2>1, <2>3 DEF GoodGates, KeepsClaim, KnowsClaim
    <3>2. gate[h].fence # lease
      <4> SUFFICES ASSUME gate[h].fence = lease PROVE FALSE
        OBVIOUS
      <4>1. doc.fence = lease
        BY <1>1, <2>1, <2>3, <3>1, ClaimShows
      <4>2. gate[g].fence = lease
        BY <1>1, <1>2, <4>1
      <4> QED
        BY <1>1, <2>1, <2>3, <4>2 DEF Apart, Holds
    <3>3. doc'.status \in Certain => gate[h].snap.timer # t
      BY <1>2, <1>4, <2>1, <2>3 DEF Apart, s
    <3>4. phase'[gate[h].snap.timer] \in {"taken", "closed"}
      BY <1>5, <3>1
    <3> QED
      BY <1>1, <1>4, <1>6, <2>1, <3>2, <3>3, <3>4, GateStays
  <2> QED
    BY <2>2, <2>3
<1>14. \A h \in Gateways : h # g => Apart(y, gate[h]) /\ Apart(gate[h], y)
  BY <1>1, <1>7, <1>12 DEF TimerInv, GatesGood, Apart
<1>15. GatesGood'
  BY <1>12, <1>13, <1>14, GateMoves DEF TimerInv, y
<1> QED
  BY <1>10, <1>11, <1>15 DEF TimerInv

(* Recovery closes the claims it listed, as unknown, if they still stand. *)
LEMMA RecoverMarkKeeps ==
    ASSUME TimerInv, NEW g \in Gateways, RecoverMark(g)
    PROVE  TimerInv'
<1>1. CASE StillClaimed(gate[g].snap)
  <2>1. CloseAs(gate[g].snap, "unknown") /\ "unknown" \in Final \ Certain
    BY <1>1 DEF RecoverMark, Final, Certain
  <2> QED
    BY <1>1, <2>1, CloseKeeps DEF RecoverMark, Certain
<1>2. CASE ~StillClaimed(gate[g].snap)
  <2>1. troubles' \in Nat
    BY DEF RecoverMark, TimerInv, Typed
  <2> QED
    BY <1>2, <2>1, FreshMove DEF RecoverMark, history
<1> QED
  BY <1>1, <1>2

(* The verdict that is recorded is true. *)
LEMMA FinishKeeps ==
    ASSUME TimerInv, NEW g \in Gateways, Finish(g)
    PROVE  TimerInv'
<1>1. gate[g] \in GoodGates /\ gate[g].status \in Final /\ troubles' \in Nat
  BY DEF TimerInv, GatesGood, GoodGates, GateRecs, Typed, Finish
<1>2. CASE StillClaimed(gate[g].snap)
  <2>1. /\ gate[g].status = "disconnected" => gate[g].snap.timer \in landed
        /\ gate[g].status \in {"skipped", "failed"} => gate[g].snap.timer \notin landed
        /\ Holds(gate[g])
    BY <1>1 DEF GoodGates, KnowsOutcome, Finish, Holds
  <2> QED
    BY <1>1, <1>2, <2>1, CloseKeeps DEF Finish
<1>3. CASE ~StillClaimed(gate[g].snap)
  BY <1>1, <1>3, FreshMove DEF Finish, history
<1> QED
  BY <1>2, <1>3

(* The PATCH is the first one of its timer, whose end nobody has told with  *)
(* certainty, and its answer is read for what it says.                      *)
LEMMA PatchKeeps ==
    ASSUME TimerInv, NEW g \in Gateways, Patch(g)
    PROVE  TimerInv'
<1> DEFINE t == gate[g].snap.timer
<1>1. /\ gate[g] \in GoodGates /\ gate[g] \in GateRecs /\ gate[g].pc = "cleared" /\ lease \in Nat
      /\ gate \in [Gateways -> GoodGates]
  BY DEF TimerInv, GatesGood, GoodGates, Typed, Patch
<1>2. /\ t \in Requests /\ phase[t] \in {"taken", "closed"} /\ patched[t] = 0 /\ t \notin landed
      /\ doc.status \in Certain => doc.timer # t
  BY <1>1 DEF GoodGates, KnowsClaim, KeepsClaim, KnowsOutcome, Holds, TimerInv, DocInv, LandedByPatch
<1>3. PICK applied \in BOOLEAN, answered \in BOOLEAN :
          /\ gate' = [gate EXCEPT ![g].pc = "decided", ![g].status = Reading(applied, answered)]
          /\ landed' = IF applied THEN landed \cup {t} ELSE landed
  BY DEF Patch
<1> DEFINE y == [gate[g] EXCEPT !.pc = "decided", !.status = Reading(applied, answered)]
<1>4. /\ Reading(applied, answered) \in Final
      /\ Reading(applied, answered) = "disconnected" => applied
      /\ Reading(applied, answered) \in {"skipped", "failed"} => ~applied
  BY DEF Reading, Final
<1>5. /\ y \in GateRecs /\ y.pc = "decided" /\ y.snap = gate[g].snap /\ y.fence = gate[g].fence
      /\ y.status = Reading(applied, answered)
  BY <1>1, <1>4 DEF GateRecs, GatePCs
<1>6. gate' = [gate EXCEPT ![g] = y]
  BY <1>1, <1>3
<1>7. /\ patched' = [patched EXCEPT ![t] = patched[t] + 1]
      /\ UNCHANGED <<doc, ripe, audit, call, lease, phase, changes, issued, stray, troubles>>
  BY DEF Patch
<1>8. /\ patched' \in [Requests -> Nat] /\ patched'[t] = 1
      /\ \A r \in Requests : r # t => patched'[r] = patched[r]
      /\ landed' \subseteq Requests
      /\ \A r \in Requests : r # t => (r \in landed' <=> r \in landed)
      /\ t \in landed' <=> applied
  BY <1>2, <1>3, <1>7 DEF TimerInv, Typed
<1> HIDE DEF t, y
<1>9. Snapshots' = Snapshots
  BY <1>7 DEF Snapshots
<1>10. Typed' /\ CallsGood'
  BY <1>7, <1>8, <1>9, CallsStay DEF TimerInv, Typed
<1>11. DocInv'
  <2>1. FateTold' /\ ChangesHeard' /\ NothingUnaudited'
    BY <1>7 DEF TimerInv, DocInv, FateTold, ChangesHeard, NothingUnaudited, Heard
  <2>2. LandedByPatch' /\ OnePatchPerTimer'
    BY <1>2, <1>7, <1>8 DEF TimerInv, DocInv, LandedByPatch, OnePatchPerTimer
  <2>3. FinalIsTruthful'
    BY <1>2, <1>7, <1>8 DEF TimerInv, DocInv, FinalIsTruthful, Certain, FateTold, Final
  <2> QED
    BY <2>1, <2>2, <2>3 DEF DocInv
<1>12. y \in GoodGates'
  <2> SUFFICES ASSUME NEW z, z = y PROVE z \in GoodGates'
    OBVIOUS
  <2>1. /\ z \in GateRecs /\ z.pc = "decided" /\ z.snap = gate[g].snap /\ z.fence = gate[g].fence
        /\ z.status = Reading(applied, answered)
    BY <1>5
  <2>2. /\ KnowsClaim(gate[g]) /\ KeepsClaim(gate[g]) /\ gate[g].fence <= lease
        /\ Holds(gate[g]) /\ Holds(z)
    BY <1>1, <2>1 DEF GoodGates, Holds
  <2>3. KnowsClaim(z)'
    BY <1>9, <2>1, <2>2 DEF KnowsClaim
  <2>4. KeepsClaim(z)'
    BY <1>7, <2>1, <2>2 DEF KeepsClaim
  <2>5. KnowsOutcome(z)'
    BY <1>4, <1>8, <2>1 DEF KnowsOutcome, t
  <2> QED
    BY <1>7, <2>1, <2>2, <2>3, <2>4, <2>5 DEF GoodGates, GateRecs
<1>13. ASSUME NEW h \in Gateways, h # g
       PROVE  gate[h] \in GoodGates'
  <2>1. gate[h] \in GoodGates /\ Apart(gate[g], gate[h])
    BY <1>13 DEF TimerInv, GatesGood
  <2>2. Holds(gate[h]) =>
            /\ gate[h].snap.timer \in Requests /\ phase[gate[h].snap.timer] \in {"taken", "closed"}
            /\ gate[h].fence = lease => doc.rev = gate[h].snap.rev
            /\ doc.status \in Certain => doc.timer # gate[h].snap.timer
    BY <2>1 DEF GoodGates, KnowsClaim, KeepsClaim
  <2>3. Holds(gate[h]) => gate[h].snap.timer # t
    BY <1>1, <2>1 DEF Apart, Holds, t
  <2>4. Holds(gate[h]) =>
            /\ patched'[gate[h].snap.timer] = patched[gate[h].snap.timer]
            /\ gate[h].snap.timer \in landed' <=> gate[h].snap.timer \in landed
    BY <1>8, <2>2, <2>3
  <2> QED
    BY <1>1, <1>7, <1>9, <2>1, <2>2, <2>4, GateStays
<1>14. \A h \in Gateways : h # g => Apart(y, gate[h]) /\ Apart(gate[h], y)
  BY <1>1, <1>5 DEF TimerInv, GatesGood, Apart, Holds
<1>15. GatesGood'
  BY <1>6, <1>12, <1>13, <1>14, GateMoves DEF TimerInv
<1> QED
  BY <1>10, <1>11, <1>15 DEF TimerInv

-----------------------------------------------------------------------------
(* The projector *)

(* An event is in the log before it is pulled. *)
LEMMA ProjectInsertKeeps ==
    ASSUME TimerInv, NEW g \in Gateways, ProjectInsert(g)
    PROVE  TimerInv'
<1>1. /\ gate[g] \in GoodGates /\ gate[g] \in GateRecs /\ gate[g].pc = "projecting"
      /\ gate \in [Gateways -> GoodGates] /\ lease \in Nat
  BY DEF TimerInv, GatesGood, GoodGates, Typed, ProjectInsert
<1>2. PICK e \in gate[g].events :
          /\ audit' = audit \cup {e}
          /\ gate' = [gate EXCEPT ![g].pc = "pulling", ![g].events = @ \ {e},
                                  ![g].snap = [NoTimer EXCEPT !.pending = {e}]]
  BY DEF ProjectInsert
<1> DEFINE s == [NoTimer EXCEPT !.pending = {e}]
           y == [gate[g] EXCEPT !.pc = "pulling", !.events = gate[g].events \ {e}, !.snap = s]
<1>3. e \in Events /\ s \in Docs /\ s.pending = {e}
  BY <1>1, Records DEF GateRecs, Docs, NoTimer
<1>4. y \in GateRecs /\ y.pc = "pulling" /\ y.snap = s /\ y.fence = gate[g].fence
  <2> HIDE DEF s
  <2> QED
    BY <1>1, <1>3 DEF GateRecs, GatePCs
<1>5. gate' = [gate EXCEPT ![g] = y]
  BY <1>1, <1>2
<1>6. UNCHANGED <<doc, ripe, call, lease, history, troubles>>
  BY DEF ProjectInsert
<1> HIDE DEF s, y
<1>7. Snapshots' = Snapshots
  BY <1>6 DEF Snapshots
<1>8. Typed' /\ CallsGood'
  BY <1>2, <1>3, <1>6, <1>7, CallsStay DEF TimerInv, Typed, history
<1>9. DocInv'
  BY <1>2, <1>6 DEF TimerInv, DocInv, history, FateTold, ChangesHeard, LandedByPatch,
         OnePatchPerTimer, FinalIsTruthful, NothingUnaudited, Heard
<1>10. \A x \in GoodGates : x \in GoodGates'
  BY <1>2, <1>6, <1>7 DEF GoodGates, KnowsClaim, KeepsClaim, KnowsOutcome, history
<1>11. y \in GoodGates' /\ ~Holds(y)
  BY <1>1, <1>2, <1>3, <1>4, <1>6
     DEF GoodGates, Holds, KnowsClaim, KeepsClaim, KnowsOutcome, GateRecs
<1>12. \A h \in Gateways : h # g => Apart(y, gate[h]) /\ Apart(gate[h], y)
  BY <1>1, <1>4, <1>11 DEF TimerInv, GatesGood, Apart
<1>13. GatesGood'
  BY <1>1, <1>5, <1>10, <1>11, <1>12, GateMoves DEF TimerInv
<1> QED
  BY <1>8, <1>9, <1>13 DEF TimerInv

(* What is pulled is in the log, whatever else the outbox has got. *)
LEMMA PullKeeps ==
    ASSUME TimerInv, NEW g \in Gateways, Pull(g)
    PROVE  TimerInv'
<1> DEFINE x == gate[g]
           y == IF x.events = {} THEN Fresh("idle", x.fence)
                ELSE [x EXCEPT !.pc = "projecting", !.snap = NoTimer]
<1>1. /\ x \in GoodGates /\ x \in GateRecs /\ x.pc = "pulling" /\ doc \in Docs
      /\ x.snap.pending \subseteq audit /\ lease \in Nat /\ x.fence \in Nat /\ x.fence <= lease
      /\ gate \in [Gateways -> GoodGates]
  BY DEF TimerInv, GatesGood, GoodGates, Typed, GateRecs, Pull
<1>2. /\ doc' = [doc EXCEPT !.pending = doc.pending \ x.snap.pending]
      /\ gate' = [gate EXCEPT ![g] = y]
      /\ UNCHANGED <<ripe, audit, call, lease, history, troubles>>
  BY <1>1 DEF Pull, Pulled
<1>3. /\ doc' \in Docs /\ doc'.rev = doc.rev /\ doc'.status = doc.status /\ doc'.timer = doc.timer
      /\ doc'.seen = doc.seen /\ doc'.pending = doc.pending \ x.snap.pending
  <2>1. doc.pending \ x.snap.pending \in SUBSET Events
    BY <1>1 DEF Docs
  <2> QED
    BY <1>1, <1>2, <2>1 DEF Docs
<1>4. Snapshots \subseteq Snapshots'
  BY <1>1, <1>2, <1>3, SnapshotsAge
<1>5. y \in GateRecs /\ y.pc \in {"idle", "projecting"} /\ y.fence = x.fence
  <2>1. CASE x.events = {}
    BY <1>1, <2>1, FreshGood DEF GoodGates
  <2>2. CASE x.events # {}
    BY <1>1, <2>2, Records DEF GateRecs, GatePCs
  <2> QED
    BY <2>1, <2>2
<1> HIDE DEF x, y
<1>6. Typed' /\ CallsGood'
  BY <1>2, <1>3, <1>4, CallsStay DEF TimerInv, Typed, history
<1>7. DocInv'
  BY <1>1, <1>2, <1>3 DEF TimerInv, DocInv, history, FateTold, ChangesHeard, LandedByPatch,
         OnePatchPerTimer, FinalIsTruthful, NothingUnaudited, Heard
<1>8. \A z \in GoodGates : z \in GoodGates'
  <2> SUFFICES ASSUME NEW z \in GoodGates PROVE z \in GoodGates'
    OBVIOUS
  <2>1. Holds(z) => KeepsClaim(z)
    BY DEF GoodGates
  <2> QED
    BY <1>1, <1>2, <1>3, <1>4, <2>1, GateStays DEF KeepsClaim, history
<1>9. y \in GoodGates' /\ ~Holds(y)
  BY <1>1, <1>2, <1>5 DEF GoodGates, Holds, KnowsClaim, KeepsClaim, KnowsOutcome, GateRecs
<1>10. \A h \in Gateways : h # g => Apart(y, gate[h]) /\ Apart(gate[h], y)
  BY <1>1, <1>5, <1>9 DEF TimerInv, GatesGood, Apart, x
<1>11. GatesGood'
  BY <1>1, <1>2, <1>8, <1>9, <1>10, GateMoves DEF TimerInv
<1> QED
  BY <1>6, <1>7, <1>11 DEF TimerInv

-----------------------------------------------------------------------------
(* The invariant *)

(* Nothing has been set, nobody holds anything. *)
LEMMA TimerInvInit == Init => TimerInv
<1> SUFFICES ASSUME Init PROVE TimerInv
  OBVIOUS
<1>1. /\ doc = NoTimer /\ audit = {} /\ lease = 0 /\ landed = {} /\ issued = {}
      /\ phase = [r \in Requests |-> "new"] /\ patched = [r \in Requests |-> 0]
      /\ changes = [r \in Requests |-> 0] /\ ripe = FALSE /\ troubles = 0
      /\ gate = [g \in Gateways |-> Fresh("off", 0)]
      /\ call = [c \in Calls |-> [pc |-> "reading", snap |-> NoTimer, left |-> MaxCas]]
  BY DEF Init
<1>2. NoTimer \in Docs /\ MaxCas \in Nat \ {0} /\ MaxCas \in 0 .. MaxCas
  BY Records, SleepConstants
<1>3. Typed
  BY <1>1, <1>2 DEF Typed, CallRecs, CallPCs
<1>4. DocInv
  BY <1>1 DEF DocInv, NoTimer, FateTold, ChangesHeard, LandedByPatch, OnePatchPerTimer,
              FinalIsTruthful, NothingUnaudited, Heard, Final
<1>5. CallsGood
  BY <1>1, <1>2 DEF CallsGood, GoodCall
<1>6. Fresh("off", 0) \in GoodGates /\ ~Holds(Fresh("off", 0)) /\ Fresh("off", 0).pc = "off"
  BY <1>1, FreshGood
<1>7. GatesGood
  BY <1>1, <1>6 DEF GatesGood, Apart
<1> QED
  BY <1>3, <1>4, <1>5, <1>7 DEF TimerInv

(* Every step of calls, clock, executors and projectors keeps document,     *)
(* timers and claims together.                                              *)
LEMMA TimerInvNext ==
    ASSUME TimerInv, [Next]_vars
    PROVE  TimerInv'
<1>1. ASSUME NEW c \in Calls, Read(c) \/ Write(c) PROVE TimerInv'
  BY <1>1, ReadKeeps, WriteKeeps
<1>2. ASSUME NEW g \in Gateways, Continue(g) PROVE TimerInv'
  BY <1>2, ChecksKeep, RecoverListKeeps, RecoverMarkKeeps, ClaimKeeps, DecideAgainstKeeps,
     PatchKeeps, FinishKeeps, ProjectInsertKeeps, PullKeeps DEF Continue
<1>3. ASSUME NEW g \in Gateways,
             Start(g) \/ ClaimCheck(g) \/ ProjectRead(g) \/ Fails(g) \/ Crash(g)
      PROVE  TimerInv'
  BY <1>3, StartKeeps, ChecksKeep, ProjectReadKeeps, TroublesKeep
<1>4. CASE FallDue
  BY <1>4, FallDueKeeps
<1>5. CASE UNCHANGED vars
  <2>1. call' \in [Calls -> CallRecs] /\ ripe' \in BOOLEAN /\ CallsGood'
    BY <1>5, CallsStay DEF vars, TimerInv, Typed, Snapshots
  <2> QED
    BY <1>5, <2>1, CallMoves DEF vars, history
<1> QED
  BY <1>1, <1>2, <1>3, <1>4, <1>5 DEF Next

(* Document, timers, snapshots and claims fit together in every reachable   *)
(* state (sleep_timers.py, sleep_executor.py, sleep_audit.py).              *)
THEOREM TimerInvariant == Spec => []TimerInv
BY TimerInvInit, TimerInvNext, PTL DEF Spec

(* The document, the calls and the loops are well formed (sleep_timers.py). *)
THEOREM TimerTypeCorrect == Spec => []TypeOK
<1>1. TimerInv => TypeOK
  <2> SUFFICES ASSUME TimerInv PROVE TypeOK
    OBVIOUS
  <2>1. \A g \in Gateways : gate[g].fence \in 0 .. lease /\ gate[g].status \in Final
    BY DEF TimerInv, Typed, GatesGood, GoodGates, GateRecs
  <2>2. \A c \in Calls : call[c].left \in 0 .. MaxCas
    BY DEF TimerInv, Typed, CallRecs
  <2> QED
    BY <2>1, <2>2 DEF TimerInv, Typed, TypeOK, Docs
<1> QED
  BY <1>1, TimerInvariant, PTL

(* No timer is PATCHed twice, however many gateways, crashes and fences it  *)
(* meets (sleep_executor.py, _disconnect_once).                             *)
THEOREM TimerPatchedOnce == Spec => []OnePatchPerTimer
<1>1. TimerInv => OnePatchPerTimer
  BY DEF TimerInv, DocInv
<1> QED
  BY <1>1, TimerInvariant, PTL

(* The end a document shows of a voice disconnect is the one it had         *)
(* (sleep_executor.py, run_once; sleep_timers.py, finish).                  *)
THEOREM TimerEndIsTruthful == Spec => []FinalIsTruthful
<1>1. TimerInv => FinalIsTruthful
  BY DEF TimerInv, DocInv
<1> QED
  BY <1>1, TimerInvariant, PTL

(* A request changes the timer once at most (sleep_timers.py, _mutate). *)
THEOREM RequestAppliedOnce == Spec => []AppliedOnce
<1>1. TimerInv => AppliedOnce
  BY DEF TimerInv, DocInv, ChangesHeard, AppliedOnce
<1> QED
  BY <1>1, TimerInvariant, PTL

(* No audit event is lost between the snapshots of set and cancel and the   *)
(* projectors that pull from the same list (sleep_audit.py).                *)
THEOREM TimerAuditComplete == Spec => []NothingUnaudited
<1>1. TimerInv => NothingUnaudited
  BY DEF TimerInv, DocInv
<1> QED
  BY <1>1, TimerInvariant, PTL

(* A PATCH goes out only while the document shows the sender's claim or the *)
(* sender has been superseded (sleep_executor.py, _decide_and_act).         *)
THEOREM PatchSeesClaim == Spec => PatchOnlyWhileClaimed
<1> DEFINE A(g) == gate[g].pc = "cleared" /\ gate'[g].pc = "decided" =>
                      (doc = gate[g].snap \/ ~Current(g)
                       \/ doc = [gate[g].snap EXCEPT !.pending = doc.pending])
           Act == \A g \in Gateways : A(g)
<1>1. TimerInv => Act
  <2> SUFFICES ASSUME TimerInv, NEW g \in Gateways, gate[g].pc = "cleared", Current(g)
               PROVE  doc = [gate[g].snap EXCEPT !.pending = doc.pending]
    OBVIOUS
  <2>1. gate[g] \in GoodGates /\ doc \in Docs /\ Holds(gate[g])
    BY DEF TimerInv, GatesGood, Typed, Holds
  <2>2. doc.rev = gate[g].snap.rev
    BY <2>1 DEF GoodGates, KeepsClaim, Current
  <2> QED
    BY <2>1, <2>2, ClaimShows
<1>2. TimerInv /\ [Next]_vars => [Act]_vars
  BY <1>1
<1>3. Spec => [][Act]_vars
  BY <1>2, TimerInvariant, PTL DEF Spec
<1> QED
  BY <1>3 DEF PatchOnlyWhileClaimed

-----------------------------------------------------------------------------
(* The refinement *)

(* A write arms the timer of its request and calls off the one it finds     *)
(* pending, if any.                                                         *)
LEMMA WriteImplements ==
    ASSUME TimerInv, NEW c \in Calls, Write(c)
    PROVE  OneShot!Next \/ UNCHANGED <<phase, landed>>
<1>1. CASE ~UnchangedSince(call[c].snap)
  BY <1>1 DEF Write
<1>2. CASE UnchangedSince(call[c].snap)
  <2> DEFINE s == call[c].snap
             q == ReqOf[c]
             called == {r \in Requests : s.status = "pending" /\ r = s.timer}
  <2>1. /\ s.status = doc.status /\ s.timer = doc.timer /\ q \in Requests
        /\ ActOf[c] \in {"set", "cancel"} /\ phase[q] = "new"
    BY <1>2, WriteReplaces
  <2>2. /\ \A r \in Requests : r \in called => phase[r] = "armed"
        /\ s.status = "pending" => s.timer \in Requests /\ phase[s.timer] = "armed"
    BY <2>1 DEF TimerInv, DocInv, FateTold
  <2>3. /\ phase' = [r \in Requests |->
                        IF ActOf[c] = "set" /\ r = q THEN "armed"
                        ELSE IF s.status = "pending" /\ r = s.timer THEN "off" ELSE phase[r]]
        /\ landed' = landed
        /\ phase = [r \in Requests |-> phase[r]]
    BY <1>2 DEF Write, Fates, TimerInv, Typed
  <2> HIDE DEF s, q
  <2>4. CASE ActOf[c] = "set"
    <3>1. called \in SUBSET {r \in Requests : phase[r] = "armed"}
      BY <2>2
    <3>2. phase' = [r \in Requests |-> IF r = q THEN "armed"
                                       ELSE IF r \in called THEN "off" ELSE phase[r]]
      BY <2>3, <2>4
    <3> HIDE DEF called
    <3>3. OneShot!Arm(q)
      BY <2>1, <2>3, <3>1, <3>2 DEF OneShot!Arm
    <3> QED
      BY <2>1, <3>3 DEF OneShot!Next
  <2>5. CASE ActOf[c] = "cancel" /\ s.status = "pending"
    <3>1. phase' = [phase EXCEPT ![s.timer] = "off"]
      BY <2>3, <2>5
    <3>2. OneShot!CallOff(s.timer)
      BY <2>2, <2>3, <2>5, <3>1 DEF OneShot!CallOff
    <3> QED
      BY <2>2, <2>5, <3>2 DEF OneShot!Next
  <2>6. CASE ActOf[c] = "cancel" /\ s.status # "pending"
    BY <2>3, <2>6
  <2> QED
    BY <2>1, <2>4, <2>5, <2>6
<1> QED
  BY <1>1, <1>2

(* A claim takes an armed timer. *)
LEMMA ClaimImplements ==
    ASSUME TimerInv, NEW g \in Gateways, Claim(g)
    PROVE  OneShot!Next \/ UNCHANGED <<phase, landed>>
<1>1. CASE ~Claimable(g)
  BY <1>1 DEF Claim
<1>2. CASE Claimable(g)
  <2>1. doc.timer \in Requests /\ phase[doc.timer] = "armed"
    BY <1>2 DEF Claimable, TimerInv, DocInv, FateTold
  <2>2. phase' = [phase EXCEPT ![doc.timer] = "taken"] /\ landed' = landed
    BY <1>2 DEF Claim
  <2>3. OneShot!Take(doc.timer)
    BY <2>1, <2>2 DEF OneShot!Take
  <2> QED
    BY <2>1, <2>3 DEF OneShot!Next
<1> QED
  BY <1>1, <1>2

(* Recovery and finish close a timer that is taken. *)
LEMMA CloseImplements ==
    ASSUME TimerInv, NEW g \in Gateways, RecoverMark(g) \/ Finish(g)
    PROVE  OneShot!Next \/ UNCHANGED <<phase, landed>>
<1> DEFINE t == gate[g].snap.timer
<1>1. CASE ~StillClaimed(gate[g].snap)
  BY <1>1 DEF RecoverMark, Finish
<1>2. CASE StillClaimed(gate[g].snap)
  <2>1. gate[g] \in GoodGates /\ doc \in Docs /\ (Holds(gate[g]) \/ gate[g].pc = "marking")
    BY DEF TimerInv, GatesGood, Typed, RecoverMark, Finish, Holds
  <2>2. doc.status = "executing" /\ doc.timer = t
    BY <1>2, <2>1, ClaimShows DEF StillClaimed
  <2>3. t \in Requests /\ phase[t] = "taken"
    BY <2>2 DEF TimerInv, DocInv, FateTold
  <2>4. phase' = [phase EXCEPT ![t] = "closed"] /\ landed' = landed
    BY <1>2 DEF RecoverMark, Finish, CloseAs
  <2> HIDE DEF t
  <2>5. OneShot!Close(t)
    BY <2>3, <2>4 DEF OneShot!Close
  <2> QED
    BY <2>3, <2>5 DEF OneShot!Next
<1> QED
  BY <1>1, <1>2

(* A PATCH that lands does the deed of a timer that was taken, for the      *)
(* first time.                                                              *)
LEMMA PatchImplements ==
    ASSUME TimerInv, NEW g \in Gateways, Patch(g)
    PROVE  OneShot!Next \/ UNCHANGED <<phase, landed>>
<1> DEFINE t == gate[g].snap.timer
<1>1. gate[g] \in GoodGates /\ gate[g].pc = "cleared" /\ phase' = phase
  BY DEF TimerInv, GatesGood, Patch
<1>2. t \in Requests /\ phase[t] \in {"taken", "closed"} /\ t \notin landed
  BY <1>1 DEF GoodGates, KnowsClaim, KeepsClaim, KnowsOutcome, Holds, TimerInv, DocInv,
              LandedByPatch
<1>3. landed' = landed \/ landed' = landed \cup {t}
  BY DEF Patch
<1> HIDE DEF t
<1>4. CASE landed' = landed \cup {t}
  <2>1. PICK r \in Requests : r = t
    BY <1>2
  <2> DEFINE D == [q \in Requests |-> IF q \in landed THEN 1 ELSE 0]
             E == [q \in Requests |-> IF q \in landed' THEN 1 ELSE 0]
  <2>2. D[r] = 0 /\ E = [D EXCEPT ![r] = 1]
    BY <1>2, <1>4, <2>1
  <2>3. OneShot!Do(r)
    BY <1>1, <1>2, <2>1, <2>2 DEF OneShot!Do
  <2> QED
    BY <2>3 DEF OneShot!Next
<1> QED
  BY <1>1, <1>3, <1>4

(* The timers of the requests are one-shot timers: armed, called off or     *)
(* taken, and done once at most (sleep_timers.py, sleep_executor.py).       *)
THEOREM TimersAreOneShot == Spec => ImplementsAtMostOnce
<1>1. Init => OneShot!Init
  BY DEF Init, OneShot!Init
<1>2. ASSUME TimerInv, [Next]_vars
      PROVE  OneShot!Next \/ UNCHANGED <<phase, landed>>
  <2>1. ASSUME NEW c \in Calls, Read(c) PROVE UNCHANGED <<phase, landed>>
    BY <2>1 DEF Read, history
  <2>2. ASSUME NEW g \in Gateways,
               \/ Start(g) \/ ClaimCheck(g) \/ ProjectRead(g) \/ Fails(g) \/ Crash(g)
               \/ RecoverCheck(g) \/ RecoverList(g) \/ DecideAgainst(g) \/ DecideFor(g)
               \/ FinishCheck(g) \/ ProjectInsert(g) \/ Pull(g)
        PROVE  UNCHANGED <<phase, landed>>
    BY <2>2 DEF history, Start, ClaimCheck, ProjectRead, Fails, Crash, RecoverCheck, RecoverList,
                DecideAgainst, DecideFor, FinishCheck, ProjectInsert, Pull
  <2>3. CASE FallDue \/ UNCHANGED vars
    BY <2>3 DEF FallDue, history, vars
  <2> QED
    BY <1>2, <2>1, <2>2, <2>3, WriteImplements, ClaimImplements, CloseImplements, PatchImplements
       DEF Next, Continue
<1>3. TimerInv /\ [Next]_vars =>
          [OneShot!Next]_<<phase, [r \in Requests |-> IF r \in landed THEN 1 ELSE 0]>>
  BY <1>2
<1> QED
  BY <1>1, <1>3, TimerInvariant, PTL DEF Spec, ImplementsAtMostOnce, OneShot!Spec
=============================================================================
