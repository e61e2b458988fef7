-------------------------- MODULE DataSafetyProofs --------------------------
(* Proofs about the parts of MCDataSafety, for any members, jobs, messages, *)
(* migrations, channels, limits and bounds.                                 *)
EXTENDS MCDataSafety, Sequences, FiniteSetTheorems, WellFoundedInduction, TLAPS

(* A step of the whole is a step of each part, or leaves it alone.          *)
LEMMA EachPartSteps ==
    ASSUME [SafetyNext]_SafetyVars
    PROVE  /\ [Watch!Next]_watVars
           /\ [Control!Next]_ctlVars
           /\ [Schema!Next]_schVars
           /\ [Invites!Next]_invVars
           /\ [Chat!Next]_chatVars
           /\ [Summary!Next]_cardVars
           /\ [Slash!Next]_cmdVars
<1>1. CASE UNCHANGED SafetyVars
  BY <1>1 DEF SafetyVars
<1>2. CASE SafetyNext
  BY <1>2 DEF SafetyNext
<1> QED
  BY <1>1, <1>2

-----------------------------------------------------------------------------
(* The stalker and the trusted watchers.                                    *)

(* A delivery under way: whom the stalker may still tell, and whom it has   *)
(* told, was trusted since it took the event up; who is steady is on its    *)
(* way to be told.                                                          *)
HandlerRecs ==
    [pc : {"idle", "listed", "prune", "tell"}, target : Targets \cup {NoDoc},
     listed : SUBSET Watchers, untrusted : SUBSET Watchers, active : SUBSET Watchers,
     doomed : SUBSET Watch!Pairs, told : SUBSET Watchers, steady : SUBSET Watchers,
     ever : SUBSET Watchers]

CallRecs == [pc : {"idle", "list", "delete", "start", "stop"}, who : Watchers \cup {NoDoc},
             target : Targets \cup {NoDoc}, doomed : SUBSET Watch!Pairs]

Startable(call) == call.pc = "start" => <<call.who, call.target>> \in Watch!Pairs

WatchTyped ==
    /\ watTrusted \subseteq Watchers /\ watSubs \subseteq Watch!Pairs
    /\ watCommand \in CallRecs /\ watLeave \in CallRecs
    /\ Startable(watCommand)
    /\ watHandler \in HandlerRecs

TrustNoted(h, trusted) ==
    h.pc # "idle" => trusted \cup h.told \cup h.active \subseteq h.ever /\ h.steady \subseteq trusted

SteadyServed(h) ==
    /\ h.pc = "listed" => h.steady \subseteq h.listed
    /\ h.pc = "prune" => h.steady \subseteq h.active
    /\ h.pc = "tell" => h.steady \ {h.target} \subseteq h.active \cup h.told
    /\ h.pc = "idle" => h.steady \ {h.target} \subseteq h.told

WatchInv == WatchTyped /\ TrustNoted(watHandler, watTrusted) /\ SteadyServed(watHandler)

LEMMA IdleHandler == Watch!Idle \in HandlerRecs /\ TrustNoted(Watch!Idle, watTrusted) /\ SteadyServed(Watch!Idle)
  BY DEF Watch!Idle, HandlerRecs, TrustNoted, SteadyServed

LEMMA NoCallIsCall == Watch!NoCall \in CallRecs /\ Watch!NoCall.pc = "idle"
  BY DEF Watch!NoCall, CallRecs

(* A change of the lists is noted by the delivery under way.                *)
LEMMA NotesKeep ==
    ASSUME NEW h \in HandlerRecs, NEW old \in SUBSET Watchers, TrustNoted(h, old), SteadyServed(h),
           NEW trusted \in SUBSET Watchers, NEW subs \in SUBSET Watch!Pairs
    PROVE  /\ Watch!Notes(h, trusted, subs) \in HandlerRecs
           /\ TrustNoted(Watch!Notes(h, trusted, subs), trusted)
           /\ SteadyServed(Watch!Notes(h, trusted, subs))
<1>1. CASE h.pc = "idle"
  BY <1>1 DEF Watch!Notes, TrustNoted
<1>2. CASE h.pc # "idle"
  <2> DEFINE kept == {w \in h.steady : w \in trusted /\ <<w, h.target>> \in subs}
             ever == h.ever \cup trusted
             g == [h EXCEPT !.steady = kept, !.ever = ever]
  <2>1. Watch!Notes(h, trusted, subs) = g
    BY <1>2 DEF Watch!Notes
  <2>2. kept \subseteq h.steady /\ kept \subseteq trusted /\ ever \in SUBSET Watchers /\ h.ever \subseteq ever /\ trusted \subseteq ever
    BY DEF HandlerRecs
  <2> HIDE DEF kept, ever
  <2>3. /\ g.pc = h.pc /\ g.target = h.target /\ g.listed = h.listed /\ g.active = h.active
        /\ g.told = h.told /\ g.steady = kept /\ g.ever = ever /\ g \in HandlerRecs
    BY <2>2 DEF HandlerRecs
  <2> HIDE DEF g
  <2>4. TrustNoted(g, trusted)
    BY <1>2, <2>2, <2>3 DEF TrustNoted
  <2>5. SteadyServed(g)
    BY <2>2, <2>3 DEF SteadyServed
  <2> QED
    BY <2>1, <2>3, <2>4, <2>5
<1> QED
  BY <1>1, <1>2

LEMMA TrustChanges ==
    ASSUME WatchInv, NEW t \in SUBSET Watchers, Watch!SetTrusted(t)
    PROVE  watTrusted' = t /\ watSubs' = watSubs /\ watHandler' \in HandlerRecs /\ TrustNoted(watHandler', t) /\ SteadyServed(watHandler')
  BY NotesKeep DEF WatchInv, WatchTyped, Watch!SetTrusted

LEMMA SubsChange ==
    ASSUME WatchInv, NEW s \in SUBSET Watch!Pairs, Watch!SetSubs(s)
    PROVE  watSubs' = s /\ watTrusted' = watTrusted /\ watHandler' \in HandlerRecs /\ TrustNoted(watHandler', watTrusted) /\ SteadyServed(watHandler')
  BY NotesKeep DEF WatchInv, WatchTyped, Watch!SetSubs
(* What the calls of the other services do to the delivery goes through     *)
(* the notes.                                                               *)
LEMMA OthersKeepWatch ==
    ASSUME WatchInv,
           \/ \E w \in Watchers : Watch!TrustedAdd(w) \/ Watch!TrustedRemove(w) \/ Watch!MemberLeaves(w)
           \/ \E w \in Watchers, t \in Targets : Watch!StalkerCommand(w, t)
           \/ Watch!StalkerWrite \/ Watch!CommandDeletes \/ Watch!LeaveDeletes \/ Watch!CommandsDie
           \/ Watch!ControlTrusts
    PROVE  WatchInv'
<1>0. /\ WatchTyped /\ TrustNoted(watHandler, watTrusted) /\ SteadyServed(watHandler)
      /\ watTrusted \in SUBSET Watchers /\ watSubs \in SUBSET Watch!Pairs
      /\ watCommand \in CallRecs /\ watLeave \in CallRecs
  BY DEF WatchInv, WatchTyped
<1>1. ASSUME NEW w \in Watchers, Watch!TrustedAdd(w) PROVE WatchInv'
  <2>1. watTrusted \cup {w} \in SUBSET Watchers
    BY <1>0
  <2> QED
    BY <1>0, <1>1, <2>1, TrustChanges DEF Watch!TrustedAdd, WatchInv, WatchTyped
<1>2. ASSUME NEW w \in Watchers, Watch!TrustedRemove(w) PROVE WatchInv'
  <2>1. watTrusted \ {w} \in SUBSET Watchers
    BY <1>0
  <2>2. watCommand' \in CallRecs /\ Startable(watCommand)'
    BY <1>2, NoCallIsCall DEF Watch!TrustedRemove, CallRecs, Startable
  <2> QED
    BY <1>0, <1>2, <2>1, <2>2, TrustChanges DEF Watch!TrustedRemove, WatchInv, WatchTyped
<1>3. ASSUME NEW w \in Watchers, Watch!MemberLeaves(w) PROVE WatchInv'
  <2>1. watTrusted \ {w} \in SUBSET Watchers
    BY <1>0
  <2>2. watLeave' \in CallRecs
    BY <1>3, NoCallIsCall DEF Watch!MemberLeaves, CallRecs
  <2> QED
    BY <1>0, <1>3, <2>1, <2>2, TrustChanges DEF Watch!MemberLeaves, WatchInv, WatchTyped, Startable
<1>4. ASSUME NEW w \in Watchers, NEW t \in Targets, Watch!StalkerCommand(w, t) PROVE WatchInv'
  <2>1. <<w, t>> \in Watch!Pairs
    BY <1>4 DEF Watch!StalkerCommand, Watch!MayWatch, Watch!Pairs
  <2>2. watCommand' \in CallRecs /\ Startable(watCommand)'
    BY <1>4, <2>1, NoCallIsCall DEF Watch!StalkerCommand, CallRecs, Startable
  <2> QED
    BY <1>0, <1>4, <2>2 DEF Watch!StalkerCommand, WatchInv, WatchTyped
<1>5. CASE Watch!StalkerWrite
  <2>1. PICK s \in SUBSET Watch!Pairs : Watch!SetSubs(s)
    <3>1. watSubs \ {<<watCommand.who, watCommand.target>>} \in SUBSET Watch!Pairs
      BY <1>0
    <3>2. watCommand.pc = "start" => watSubs \cup {<<watCommand.who, watCommand.target>>} \in SUBSET Watch!Pairs
      BY <1>0 DEF WatchTyped, Startable
    <3> QED
      BY <1>5, <3>1, <3>2 DEF Watch!StalkerWrite
  <2>2. watCommand' \in CallRecs /\ Startable(watCommand)'
    BY <1>5, NoCallIsCall DEF Watch!StalkerWrite, Startable
  <2> QED
    BY <1>0, <1>5, <2>1, <2>2, SubsChange DEF Watch!StalkerWrite, WatchInv, WatchTyped
<1>6. CASE Watch!CommandDeletes
  <2>1. watCommand' \in CallRecs /\ Startable(watCommand)'
    BY <1>0, <1>6, NoCallIsCall DEF Watch!CommandDeletes, Watch!Listing, Watch!Of, CallRecs, Startable
  <2>2. CASE UNCHANGED <<watSubs, watHandler, watTrusted>>
    BY <1>0, <1>6, <2>1, <2>2 DEF Watch!CommandDeletes, WatchInv, WatchTyped
  <2>3. CASE \E p \in watCommand.doomed : Watch!SetSubs(watSubs \ {p})
    <3>1. PICK s \in SUBSET Watch!Pairs : Watch!SetSubs(s)
      BY <1>0, <2>3
    <3> QED
      BY <1>0, <1>6, <2>1, <3>1, SubsChange DEF Watch!CommandDeletes, WatchInv, WatchTyped
  <2> QED
    BY <1>6, <2>2, <2>3 DEF Watch!CommandDeletes
<1>7. CASE Watch!LeaveDeletes
  <2>1. watLeave' \in CallRecs
    BY ZenonT(40), <1>0, <1>7, NoCallIsCall DEF Watch!LeaveDeletes, Watch!Listing, Watch!Of, CallRecs
  <2>2. CASE UNCHANGED <<watSubs, watHandler, watTrusted>>
    BY <1>0, <1>7, <2>1, <2>2 DEF Watch!LeaveDeletes, WatchInv, WatchTyped, Startable
  <2>3. CASE \E p \in watLeave.doomed : Watch!SetSubs(watSubs \ {p})
    <3>1. PICK s \in SUBSET Watch!Pairs : Watch!SetSubs(s)
      BY <1>0, <2>3
    <3> QED
      BY <1>0, <1>7, <2>1, <3>1, SubsChange DEF Watch!LeaveDeletes, WatchInv, WatchTyped, Startable
  <2> QED
    BY <1>7, <2>2, <2>3 DEF Watch!LeaveDeletes
<1>8. CASE Watch!CommandsDie
  BY <1>0, <1>8, NoCallIsCall DEF Watch!CommandsDie, WatchInv, WatchTyped, Startable
<1>9. CASE Watch!ControlTrusts
  BY <1>0, <1>9, TrustChanges DEF Watch!ControlTrusts, WatchInv, WatchTyped, Startable
<1> QED
  BY <1>1, <1>2, <1>3, <1>4, <1>5, <1>6, <1>7, <1>8, <1>9
(* The steps of the stalker change the delivery.                            *)
LEMMA StalkerKeepsWatch ==
    ASSUME WatchInv,
           \/ \E t \in Targets : Watch!TakeEvent(t)
           \/ Watch!Stalker \/ Watch!StalkerDies
    PROVE  WatchInv'
<1> DEFINE h == watHandler
           next == watHandler'
<1>0. /\ h \in HandlerRecs /\ TrustNoted(h, watTrusted) /\ SteadyServed(h)
      /\ watTrusted \in SUBSET Watchers /\ watSubs \in SUBSET Watch!Pairs
  BY DEF WatchInv, WatchTyped
<1>1. watSubs' \subseteq watSubs /\ UNCHANGED <<watTrusted, watCommand, watLeave>>
  BY DEF Watch!TakeEvent, Watch!Stalker, Watch!StalkerDies, Watch!ReadTrusted, Watch!Prune, Watch!Resolve,
         Watch!SendDM, Watch!Finish
<1>2. SUFFICES next \in HandlerRecs /\ TrustNoted(next, watTrusted) /\ SteadyServed(next)
  BY <1>1 DEF WatchInv, WatchTyped, Startable
<1>3. ASSUME NEW t \in Targets, Watch!TakeEvent(t)
      PROVE  next \in HandlerRecs /\ TrustNoted(next, watTrusted) /\ SteadyServed(next)
  <2>1. Watch!WatchersOf(t) \in SUBSET Watchers
    BY DEF Watch!WatchersOf
  <2> DEFINE listed == Watch!WatchersOf(t)
  <2>2. next = [pc |-> "listed", target |-> t, listed |-> listed, untrusted |-> {}, active |-> {},
                doomed |-> {}, told |-> {}, steady |-> listed \cap watTrusted, ever |-> watTrusted]
    BY <1>3 DEF Watch!TakeEvent, Watch!Idle
  <2> HIDE DEF listed
  <2> QED
    BY <1>0, <2>1, <2>2 DEF HandlerRecs, TrustNoted, SteadyServed, listed
<1>4. CASE Watch!ReadTrusted
  <2> DEFINE untrusted == h.listed \ watTrusted
             active == h.listed \cap watTrusted
  <2>1. h.pc = "listed" /\ next = [h EXCEPT !.pc = "prune", !.untrusted = untrusted, !.active = active]
    BY <1>4 DEF Watch!ReadTrusted, Watch!Active
  <2>2. untrusted \in SUBSET Watchers /\ active \in SUBSET Watchers /\ active \subseteq watTrusted
        /\ h.listed \cap watTrusted \subseteq active
    BY <1>0 DEF HandlerRecs
  <2> HIDE DEF untrusted, active
  <2>3. /\ next \in HandlerRecs /\ next.pc = "prune" /\ next.active = active
        /\ next.told = h.told /\ next.steady = h.steady /\ next.ever = h.ever
    BY <1>0, <2>1, <2>2 DEF HandlerRecs
  <2> QED
    BY <1>0, <2>1, <2>2, <2>3 DEF TrustNoted, SteadyServed
<1>5. CASE Watch!Prune
  <2>1. PICK untrusted \in SUBSET Watchers, doomed \in SUBSET Watch!Pairs :
           h.pc = "prune" /\ next = [h EXCEPT !.untrusted = untrusted, !.doomed = doomed]
    <3>1. CASE \E w \in h.untrusted : next = [h EXCEPT !.untrusted = @ \ {w}, !.doomed = Watch!Lost(w)]
      <4>1. PICK w \in h.untrusted : next = [h EXCEPT !.untrusted = @ \ {w}, !.doomed = Watch!Lost(w)]
        BY <3>1
      <4>2. Watch!Lost(w) \in SUBSET Watch!Pairs /\ h.untrusted \ {w} \in SUBSET Watchers
        BY <1>0 DEF Watch!Lost, Watch!Of, HandlerRecs
      <4> QED
        BY <1>5, <4>1, <4>2 DEF Watch!Prune
    <3>2. CASE \E p \in h.doomed : next = [h EXCEPT !.doomed = @ \ {p}]
      <4>1. PICK p \in h.doomed : next = [h EXCEPT !.doomed = @ \ {p}]
        BY <3>2
      <4>2. h.doomed \ {p} \in SUBSET Watch!Pairs /\ h.untrusted \in SUBSET Watchers
        BY <1>0 DEF HandlerRecs
      <4>3. [h EXCEPT !.doomed = @ \ {p}] = [h EXCEPT !.untrusted = h.untrusted, !.doomed = h.doomed \ {p}]
        BY <1>0 DEF HandlerRecs
      <4> QED
        BY <1>5, <4>1, <4>2, <4>3 DEF Watch!Prune
    <3> QED
      BY <1>5, <3>1, <3>2 DEF Watch!Prune
  <2>2. /\ next \in HandlerRecs /\ next.pc = "prune" /\ next.active = h.active
        /\ next.told = h.told /\ next.steady = h.steady /\ next.ever = h.ever
    BY <1>0, <2>1 DEF HandlerRecs
  <2> QED
    BY <1>0, <2>1, <2>2 DEF TrustNoted, SteadyServed
<1>6. CASE Watch!Resolve
  <2> DEFINE active == h.active \ {h.target}
  <2>1. h.pc = "prune" /\ next = [h EXCEPT !.pc = "tell", !.active = active]
    BY <1>6 DEF Watch!Resolve
  <2>2. active \in SUBSET Watchers /\ active \subseteq h.active /\ h.active \ {h.target} \subseteq active
    BY <1>0 DEF HandlerRecs
  <2> HIDE DEF active
  <2>3. /\ next \in HandlerRecs /\ next.pc = "tell" /\ next.active = active /\ next.target = h.target
        /\ next.told = h.told /\ next.steady = h.steady /\ next.ever = h.ever
    BY <1>0, <2>1, <2>2 DEF HandlerRecs
  <2> QED
    BY <1>0, <2>1, <2>2, <2>3 DEF TrustNoted, SteadyServed
<1>7. CASE Watch!SendDM
  <2>1. PICK w \in h.active :
           h.pc = "tell" /\ next = [h EXCEPT !.active = h.active \ {w}, !.told = h.told \cup {w}]
    BY <1>7 DEF Watch!SendDM, Watch!Rest
  <2> DEFINE active == h.active \ {w}
             told == h.told \cup {w}
  <2>2. /\ active \in SUBSET Watchers /\ told \in SUBSET Watchers
        /\ active \cup told = h.active \cup h.told
    BY <1>0 DEF HandlerRecs
  <2>3. next = [h EXCEPT !.active = active, !.told = told]
    BY <2>1
  <2> HIDE DEF active, told
  <2>4. /\ next \in HandlerRecs /\ next.pc = "tell" /\ next.active = active /\ next.target = h.target
        /\ next.told = told /\ next.steady = h.steady /\ next.ever = h.ever
    BY <1>0, <2>1, <2>2, <2>3 DEF HandlerRecs
  <2>5. TrustNoted(next, watTrusted)
    BY <1>0, <2>1, <2>2, <2>4 DEF TrustNoted
  <2>6. SteadyServed(next)
    BY <1>0, <2>1, <2>2, <2>4 DEF SteadyServed
  <2> QED
    BY <2>4, <2>5, <2>6
<1>8. CASE Watch!Finish
  <2>1. h.pc = "tell" /\ h.active = {}
    BY <1>8 DEF Watch!Finish
  <2>2. next = [pc |-> "idle", target |-> h.target, listed |-> {}, untrusted |-> {}, active |-> {},
                doomed |-> {}, told |-> h.told, steady |-> h.steady, ever |-> {}]
    BY <1>8 DEF Watch!Finish, Watch!Idle
  <2> QED
    BY <1>0, <2>1, <2>2 DEF HandlerRecs, TrustNoted, SteadyServed
<1>9. CASE Watch!StalkerDies
  BY <1>9, IdleHandler DEF Watch!StalkerDies
<1> QED
  BY <1>3, <1>4, <1>5, <1>6, <1>7, <1>8, <1>9 DEF Watch!Stalker

LEMMA WatchSteady == SafetySpec => []WatchInv
<1>1. SafetyInit => WatchInv
  BY IdleHandler, NoCallIsCall DEF SafetyInit, Watch!Init, WatchInv, WatchTyped, Startable
<1>2. WatchInv /\ [SafetyNext]_SafetyVars => WatchInv'
  <2> SUFFICES ASSUME WatchInv, [Watch!Next]_watVars PROVE WatchInv'
    BY EachPartSteps
  <2>1. CASE UNCHANGED watVars
    BY <2>1 DEF watVars, WatchInv, WatchTyped, Startable
  <2>2. CASE Watch!Next
    BY <2>2, OthersKeepWatch, StalkerKeepsWatch DEF Watch!Next
  <2> QED
    BY <2>1, <2>2
<1> QED
  BY <1>1, <1>2, PTL DEF SafetySpec

(* Whoever is told of an event was trusted at some moment after the stalker *)
(* took it up (stalker.py, _active_watcher_user_ids).                       *)
THEOREM OnlyTrustedAreTold == SafetySpec => []ToldWereTrusted
<1>1. WatchInv => ToldWereTrusted
  BY DEF WatchInv, TrustNoted, ToldWereTrusted, Watch!ToldWereTrusted
<1> QED
  BY <1>1, WatchSteady, PTL

(* When an event is done, whoever was subscribed and trusted all the while  *)
(* has been told (stalker.py, _deliver_to_watchers).                        *)
THEOREM SteadyWatchersAreTold == SafetySpec => []SteadyAreTold
<1>1. WatchInv => SteadyAreTold
  BY DEF WatchInv, SteadyServed, SteadyAreTold, Watch!SteadyAreTold
<1> QED
  BY <1>1, WatchSteady, PTL
-----------------------------------------------------------------------------
(* The migrations.                                                          *)

Working == {"apply", "check", "merge", "build", "applied", "failed"}

RunnerRecs ==
    [pc : Working \cup {"idle", "lock", "next", "release"}, known : SUBSET Schema!Migrations,
     only : Schema!Migrations \cup {NoDoc}, at : 0 .. Last, found : {"none", "alike", "differ"}]

SchemaTyped ==
    /\ schStatus \in [Schema!Migrations -> {"none", "running", "done", "failed"}]
    /\ schBuilt \subseteq Schema!Migrations
    /\ schDups \in {"none", "alike", "differ"}
    /\ schRunner \in [Writers -> RunnerRecs]

Marked(m) == schStatus[m] # "none"

(* What a runner works on is marked, whoever else runs; what it has applied *)
(* exists.                                                                  *)
WorkIsMarked(rec) ==
    /\ rec.pc \in Working => rec.at \in Schema!Migrations /\ Marked(rec.at)
    /\ rec.pc \in {"check", "merge", "build"} => rec.at = Unique
    /\ rec.pc = "applied" => rec.at \in schBuilt

SchemaInv ==
    /\ SchemaTyped
    /\ \A r \in Writers : WorkIsMarked(schRunner[r])
    /\ Unique \in schBuilt => Marked(Unique)
    /\ \A m \in Schema!Migrations : schStatus[m] = "done" => m \in schBuilt

(* Among the migrations that are left one is the first.                     *)
LEMMA FirstExists ==
    ASSUME NEW S \in SUBSET Schema!Migrations, S # {}
    PROVE  (CHOOSE k \in S : \A j \in S : k <= j) \in S
<1>1. S \subseteq Nat
  BY PartsAssumption DEF Schema!Migrations
<1> DEFINE Less == OpToRel(<, Nat)
<1>2. IsWellFoundedOn(Less, Nat)
  BY NatLessThanWellFounded, Zenon
<1>3. \A j, k \in Nat : j < k => <<j, k>> \in Less
  BY Z3 DEF OpToRel
<1> HIDE DEF Less
<1>4. PICK k \in S : \A j \in S : ~(<<j, k>> \in Less)
  BY <1>1, <1>2, WFMin, Zenon
<1>5. ASSUME NEW j \in S PROVE k <= j
  <2>1. j \in Nat /\ k \in Nat
    BY <1>1
  <2>2. ~(j < k)
    BY <1>3, <1>4, <2>1, Zenon
  <2> QED
    BY <2>1, <2>2
<1> QED
  BY <1>5

(* Marks and what exists only grow: what the other runners work on stays    *)
(* marked.                                                                  *)
LEMMA SchemaGrows ==
    ASSUME SchemaInv, NEW r \in Writers, NEW rec \in RunnerRecs,
           schRunner' = [schRunner EXCEPT ![r] = rec], WorkIsMarked(rec)',
           schStatus' \in [Schema!Migrations -> {"none", "running", "done", "failed"}],
           schBuilt' \subseteq Schema!Migrations, schDups' \in {"none", "alike", "differ"},
           \A m \in Schema!Migrations : Marked(m) => Marked(m)',
           schBuilt \subseteq schBuilt',
           Unique \in schBuilt' => Marked(Unique)',
           \A m \in Schema!Migrations : schStatus'[m] = "done" => m \in schBuilt'
    PROVE  SchemaInv'
<1>1. SchemaTyped'
  BY DEF SchemaInv, SchemaTyped
<1>2. ASSUME NEW s \in Writers PROVE WorkIsMarked(schRunner[s])'
  <2>1. CASE s = r
    <3>1. schRunner'[s] = rec
      BY <2>1 DEF SchemaInv, SchemaTyped
    <3> QED
      BY <3>1 DEF WorkIsMarked
  <2>2. CASE s # r
    <3>1. schRunner'[s] = schRunner[s]
      BY <2>2 DEF SchemaInv, SchemaTyped
    <3> QED
      BY <3>1 DEF WorkIsMarked, SchemaInv
  <2> QED
    BY <2>1, <2>2
<1> QED
  BY <1>1, <1>2 DEF SchemaInv

LEMMA RunnerGoes ==
    ASSUME SchemaInv, NEW r \in Writers, NEW rec \in RunnerRecs,
           schRunner' = [schRunner EXCEPT ![r] = rec], WorkIsMarked(rec),
           UNCHANGED <<schStatus, schBuilt>>, schDups' \in {"none", "alike", "differ"}
    PROVE  SchemaInv'
<1>1. WorkIsMarked(rec)' /\ \A m \in Schema!Migrations : Marked(m) => Marked(m)'
  BY DEF WorkIsMarked, Marked
<1> QED
  BY <1>1, SchemaGrows DEF SchemaInv, SchemaTyped, Marked

LEMMA IdleRunner == Schema!Idle \in RunnerRecs /\ WorkIsMarked(Schema!Idle)
  BY PartsAssumption DEF Schema!Idle, RunnerRecs, WorkIsMarked, Working

LEMMA RunnerKeepsSchema ==
    ASSUME SchemaInv, NEW r \in Writers, Schema!Step(r) \/ Schema!Raise(r) \/ Schema!Die(r)
    PROVE  SchemaInv'
<1>. PICK old : old = schRunner[r]
  OBVIOUS
<1> DEFINE moved(stage) == [old EXCEPT !.pc = stage]
<1>0. /\ SchemaTyped /\ old \in RunnerRecs /\ WorkIsMarked(old)
      /\ Schema!Migrations \subseteq Nat /\ Unique \in Schema!Migrations
      /\ schRunner \in [Writers -> RunnerRecs] /\ Schema!Migrations \subseteq 0 .. Last
  BY PartsAssumption DEF SchemaInv, SchemaTyped, Schema!Migrations
<1>1. ASSUME NEW stage \in Working \cup {"idle", "lock", "next", "release"}
      PROVE  /\ moved(stage) \in RunnerRecs /\ moved(stage).pc = stage /\ moved(stage).at = old.at
             /\ Schema!Goes(r, stage) => schRunner' = [schRunner EXCEPT ![r] = moved(stage)]
  BY <1>0 DEF RunnerRecs, Schema!Goes
<1>2. CASE Schema!Begin(r)
  <2>1. PICK only \in Schema!Migrations \cup {NoDoc} :
           schRunner' = [schRunner EXCEPT ![r] =
              [pc |-> "lock", known |-> Schema!Done, only |-> only, at |-> 0, found |-> "none"]]
    BY <1>2 DEF Schema!Begin
  <2> DEFINE rec == [pc |-> "lock", known |-> Schema!Done, only |-> only, at |-> 0, found |-> "none"]
  <2>2. rec \in RunnerRecs
    BY PartsAssumption DEF RunnerRecs, Schema!Done
  <2>3. WorkIsMarked(rec)
    BY DEF WorkIsMarked, Working
  <2> HIDE DEF rec
  <2>4. schRunner' = [schRunner EXCEPT ![r] = rec]
    BY <2>1 DEF rec
  <2> QED
    BY <1>0, <1>2, <2>2, <2>3, <2>4, RunnerGoes DEF Schema!Begin, SchemaTyped
<1>3. CASE Schema!Acquire(r)
  <2>1. CASE Schema!Goes(r, "next")
    <3>1. WorkIsMarked(moved("next"))
      BY <1>1 DEF WorkIsMarked, Working
    <3> QED
      BY <1>0, <1>1, <1>3, <2>1, <3>1, RunnerGoes DEF Schema!Acquire, SchemaTyped
  <2>2. CASE schRunner' = [schRunner EXCEPT ![r] = Schema!Idle]
    BY <1>0, <1>3, <2>2, IdleRunner, RunnerGoes DEF Schema!Acquire, SchemaTyped
  <2> QED
    BY <1>3, <2>1, <2>2 DEF Schema!Acquire
<1>4. CASE Schema!MarkRunning(r)
  <2>1. PICK m \in Schema!Migrations :
           /\ schStatus' = [schStatus EXCEPT ![m] = "running"]
           /\ schRunner' = [schRunner EXCEPT ![r].pc = IF m = Unique THEN "check" ELSE "apply", ![r].at = m]
    <3>1. Schema!Left(r) \in SUBSET Schema!Migrations
      BY DEF Schema!Left
    <3> QED
      BY <1>4, <3>1, FirstExists DEF Schema!MarkRunning, Schema!BeginsMarked
  <2> DEFINE stage == IF m = Unique THEN "check" ELSE "apply"
             rec == [old EXCEPT !.pc = stage, !.at = m]
  <2>2. stage \in {"check", "apply"} /\ (stage = "check" => m = Unique)
    OBVIOUS
  <2> HIDE DEF stage
  <2>3. rec \in RunnerRecs /\ rec.pc = stage /\ rec.at = m
    BY <1>0, <2>2 DEF RunnerRecs, Working
  <2>4. schRunner' = [schRunner EXCEPT ![r] = rec]
    BY <1>0, <2>1 DEF stage
  <2> HIDE DEF rec
  <2>5. /\ schStatus' \in [Schema!Migrations -> {"none", "running", "done", "failed"}]
        /\ schStatus'[m] = "running" /\ \A k \in Schema!Migrations \ {m} : schStatus'[k] = schStatus[k]
    BY <1>0, <2>1 DEF SchemaTyped
  <2>6. UNCHANGED <<schBuilt, schDups>>
    BY <1>4 DEF Schema!MarkRunning
  <2>7. \A k \in Schema!Migrations : (Marked(k) => Marked(k)') /\ (schStatus'[k] = "done" => schStatus[k] = "done")
    BY <2>5 DEF Marked
  <2>8. WorkIsMarked(rec)'
    BY <2>2, <2>3, <2>5 DEF WorkIsMarked, Marked
  <2> QED
    BY <1>0, <2>3, <2>4, <2>5, <2>6, <2>7, <2>8, SchemaGrows DEF SchemaInv, SchemaTyped
<1>5. CASE Schema!Apply(r)
  <2>1. /\ old.pc = "apply" /\ schBuilt' = schBuilt \cup {old.at} /\ Schema!Goes(r, "applied")
        /\ UNCHANGED <<schStatus, schDups>>
    BY <1>5 DEF Schema!Apply
  <2>2. old.at \in Schema!Migrations /\ Marked(old.at)
    BY <1>0, <2>1 DEF WorkIsMarked, Working
  <2>3. WorkIsMarked(moved("applied"))' /\ \A k \in Schema!Migrations : Marked(k) => Marked(k)'
    BY <1>1, <2>1, <2>2 DEF WorkIsMarked, Marked, Working
  <2>4. Unique \in schBuilt' => Marked(Unique)'
    BY <2>1, <2>2 DEF SchemaInv, Marked
  <2> QED
    BY <1>0, <1>1, <2>1, <2>2, <2>3, <2>4, SchemaGrows DEF SchemaInv, SchemaTyped, Working
<1>6. CASE Schema!Check(r)
  <2>1. old.pc = "check"
    BY <1>6 DEF Schema!Check
  <2>2. old.at \in Schema!Migrations /\ Marked(old.at) /\ old.at = Unique
    BY <1>0, <2>1 DEF WorkIsMarked, Working
  <2>3. CASE Schema!Goes(r, "failed")
    <3>1. WorkIsMarked(moved("failed"))
      BY <1>1, <2>2 DEF WorkIsMarked, Working
    <3> QED
      BY <1>0, <1>1, <1>6, <2>3, <3>1, RunnerGoes DEF Schema!Check, SchemaTyped, Working
  <2>4. CASE schRunner' = [schRunner EXCEPT ![r].pc = "merge", ![r].found = schDups]
    <3> DEFINE rec == [old EXCEPT !.pc = "merge", !.found = schDups]
    <3>1. rec \in RunnerRecs /\ rec.pc = "merge" /\ rec.at = old.at
      BY <1>0 DEF RunnerRecs, Working, SchemaTyped
    <3>2. schRunner' = [schRunner EXCEPT ![r] = rec]
      BY <1>0, <2>4
    <3> HIDE DEF rec
    <3>3. WorkIsMarked(rec)
      BY <2>2, <3>1 DEF WorkIsMarked, Working
    <3> QED
      BY <1>0, <1>6, <3>1, <3>2, <3>3, RunnerGoes DEF Schema!Check, SchemaTyped
  <2> QED
    BY <1>6, <2>3, <2>4 DEF Schema!Check
<1>7. CASE Schema!Merge(r)
  <2>1. old.pc = "merge" /\ Schema!Goes(r, "build") /\ UNCHANGED <<schStatus, schBuilt>>
        /\ schDups' \in {"none", "alike", "differ"}
    BY <1>0, <1>7 DEF Schema!Merge, SchemaTyped
  <2>2. WorkIsMarked(moved("build"))
    BY <1>0, <1>1, <2>1 DEF WorkIsMarked, Working
  <2> QED
    BY <1>1, <2>1, <2>2, RunnerGoes DEF Working
<1>8. CASE Schema!Build(r)
  <2>1. old.pc = "build" /\ UNCHANGED <<schStatus, schDups>>
    BY <1>8 DEF Schema!Build
  <2>2. old.at \in Schema!Migrations /\ Marked(old.at) /\ old.at = Unique
    BY <1>0, <2>1 DEF WorkIsMarked, Working
  <2>3. \A k \in Schema!Migrations : Marked(k) => Marked(k)'
    BY <2>1 DEF Marked
  <2>4. CASE schBuilt' = schBuilt \cup {Unique} /\ Schema!Goes(r, "applied")
    <3>1. WorkIsMarked(moved("applied"))'
      BY <1>1, <2>1, <2>2, <2>4 DEF WorkIsMarked, Working, Marked
    <3> QED
      BY <1>0, <1>1, <2>1, <2>2, <2>3, <2>4, <3>1, SchemaGrows DEF SchemaInv, SchemaTyped, Working
  <2>5. CASE schBuilt' = schBuilt /\ Schema!Goes(r, "failed")
    <3>1. WorkIsMarked(moved("failed"))
      BY <1>1, <2>2 DEF WorkIsMarked, Working
    <3> QED
      BY <1>0, <1>1, <2>1, <2>5, <3>1, RunnerGoes DEF SchemaTyped, Working
  <2> QED
    BY <1>8, <2>4, <2>5 DEF Schema!Build
<1>9. CASE Schema!MarkDone(r)
  <2>1. /\ old.pc = "applied" /\ Schema!Goes(r, "next")
        /\ schStatus' = [schStatus EXCEPT ![old.at] = "done"] /\ UNCHANGED <<schBuilt, schDups>>
    BY <1>9 DEF Schema!MarkDone
  <2>2. old.at \in Schema!Migrations /\ old.at \in schBuilt
    BY <1>0, <2>1 DEF WorkIsMarked, Working
  <2>3. /\ schStatus' \in [Schema!Migrations -> {"none", "running", "done", "failed"}]
        /\ schStatus'[old.at] = "done"
        /\ \A k \in Schema!Migrations : k # old.at => schStatus'[k] = schStatus[k]
    BY <1>0, <2>1, <2>2 DEF SchemaTyped
  <2>4. \A k \in Schema!Migrations : Marked(k) => Marked(k)'
    BY <2>3 DEF Marked
  <2>5. WorkIsMarked(moved("next"))'
    BY <1>1, <2>1 DEF WorkIsMarked, Working
  <2>6. \A k \in Schema!Migrations : schStatus'[k] = "done" => k \in schBuilt'
    BY <2>1, <2>2, <2>3 DEF SchemaInv
  <2>7. Unique \in schBuilt' => Marked(Unique)'
    BY <1>0, <2>1, <2>4 DEF SchemaInv
  <2> QED
    BY <1>0, <1>1, <2>1, <2>3, <2>4, <2>5, <2>6, <2>7, SchemaGrows DEF SchemaTyped
<1>10. CASE Schema!MarkFailed(r)
  <2>1. /\ old.pc = "failed" /\ Schema!Goes(r, "release")
        /\ schStatus' = [schStatus EXCEPT ![old.at] = "failed"] /\ UNCHANGED <<schBuilt, schDups>>
    BY <1>10 DEF Schema!MarkFailed
  <2>2. old.at \in Schema!Migrations
    BY <1>0, <2>1 DEF WorkIsMarked, Working
  <2>3. /\ schStatus' \in [Schema!Migrations -> {"none", "running", "done", "failed"}]
        /\ schStatus'[old.at] = "failed"
        /\ \A k \in Schema!Migrations : k # old.at => schStatus'[k] = schStatus[k]
    BY <1>0, <2>1, <2>2 DEF SchemaTyped
  <2>4. \A k \in Schema!Migrations : Marked(k) => Marked(k)'
    BY <2>3 DEF Marked
  <2>5. WorkIsMarked(moved("release"))'
    BY <1>1, <2>1 DEF WorkIsMarked, Working
  <2>6. \A k \in Schema!Migrations : schStatus'[k] = "done" => k \in schBuilt'
    BY <2>1, <2>2, <2>3 DEF SchemaInv
  <2>7. Unique \in schBuilt' => Marked(Unique)'
    BY <1>0, <2>1, <2>4 DEF SchemaInv
  <2> QED
    BY SMTT(30), <1>0, <1>1, <2>1, <2>3, <2>4, <2>5, <2>6, <2>7, SchemaGrows DEF SchemaTyped
<1>11. CASE Schema!Verify(r)
  <2>1. WorkIsMarked(moved("release"))
    BY <1>1 DEF WorkIsMarked, Working
  <2> QED
    BY <1>0, <1>1, <1>11, <2>1, RunnerGoes DEF Schema!Verify, SchemaTyped
<1>12. CASE Schema!Release(r)
  BY <1>0, <1>12, IdleRunner, RunnerGoes DEF Schema!Release, SchemaTyped
<1>13. CASE Schema!Raise(r)
  <2>1. old.pc \in {"apply", "check", "merge", "build"} /\ Schema!Goes(r, "failed")
    BY <1>13 DEF Schema!Raise, Schema!AfterError
  <2>2. WorkIsMarked(moved("failed"))
    BY <1>0, <1>1, <2>1 DEF WorkIsMarked, Working
  <2> QED
    BY <1>0, <1>1, <1>13, <2>1, <2>2, RunnerGoes DEF Schema!Raise, SchemaTyped, Working
<1>14. CASE Schema!Die(r)
  BY <1>0, <1>14, IdleRunner, RunnerGoes DEF Schema!Die, SchemaTyped
<1> QED
  BY <1>2, <1>3, <1>4, <1>5, <1>6, <1>7, <1>8, <1>9, <1>10, <1>11, <1>12, <1>13, <1>14 DEF Schema!Step

LEMMA SchemaSteady == SafetySpec => []SchemaInv
<1>1. SafetyInit => SchemaInv
  BY IdleRunner DEF SafetyInit, Schema!Init, SchemaInv, SchemaTyped, Marked
<1>2. SchemaInv /\ [SafetyNext]_SafetyVars => SchemaInv'
  <2> SUFFICES ASSUME SchemaInv, [Schema!Next]_schVars PROVE SchemaInv'
    BY EachPartSteps
  <2>1. ASSUME UNCHANGED <<schStatus, schBuilt, schRunner>>, schDups' \in {"none", "alike", "differ"} PROVE SchemaInv'
    BY <2>1 DEF SchemaInv, SchemaTyped, WorkIsMarked, Marked
  <2>2. CASE UNCHANGED schVars
    BY <2>1, <2>2 DEF schVars, SchemaInv, SchemaTyped
  <2>3. CASE Schema!Expire \/ Schema!WriteDuplicate \/ Schema!Resolve
    BY <2>1, <2>3 DEF Schema!Expire, Schema!WriteDuplicate, Schema!Resolve, SchemaInv, SchemaTyped
  <2> QED
    BY <2>2, <2>3, RunnerKeepsSchema DEF Schema!Next
<1> QED
  BY <1>1, <1>2, PTL DEF SafetySpec

(* As soon as the unique index exists a rollback below it is blocked,       *)
(* whatever runners died or ran side by side (migrate.py, check_rollback).  *)
THEOREM UniqueBlocksRollback == SafetySpec => []RollbackIsBlocked
<1>1. SchemaInv => RollbackIsBlocked
  <2> SUFFICES ASSUME SchemaInv, Unique \in schBuilt PROVE Schema!Blocked
    BY DEF RollbackIsBlocked, Schema!RollbackIsBlocked
  <2>1. Unique \in Schema!Migrations /\ schStatus[Unique] \in {"running", "done", "failed"}
    BY PartsAssumption DEF SchemaInv, SchemaTyped, Marked, Schema!Migrations
  <2>2. Unique >= Unique
    BY PartsAssumption
  <2> QED
    BY <2>1, <2>2 DEF Schema!Blocked
<1> QED
  BY <1>1, SchemaSteady, PTL

(* What is marked done exists, also after a runner lost its lease           *)
(* (migrate.py).                                                            *)
THEOREM WhatIsDoneExists == SafetySpec => []DoneExists
<1>1. SchemaInv => DoneExists
  BY DEF SchemaInv, DoneExists, Schema!DoneExists, Schema!Done
<1> QED
  BY <1>1, SchemaSteady, PTL
-----------------------------------------------------------------------------
(* The control plane.                                                       *)

JobRecs ==
    [state : {"unused", "saved", "queued", "applied", "failed"},
     what : Control!Modules \cup Control!Operations \cup {NoDoc}, need : Nat]

TaskRecs ==
    [pc : {"free", "begin", "settings", "cache", "write", "act", "mark", "publish", "error"},
     job : Jobs \cup {NoDoc}, value : Nat]

ControlTyped ==
    /\ ctlConfig \in [Control!Modules -> Nat] /\ ctlCached \in [Control!Modules -> Nat]
    /\ ctlJob \in [Jobs -> JobRecs]
    /\ ctlQueue \in [Control!Subjects -> Seq(Jobs)]
    /\ ctlHandler \in [Control!Subjects -> TaskRecs]
    /\ ctlSettings \in [module : Voice \cup {NoDoc}, value : Nat]
    /\ ctlDid \in [Jobs -> SUBSET {"write", "act"}]

IsOf(s, j) == j \in Jobs /\ ctlJob[j].state # "unused" /\ Control!SubjectOf(j) = s

(* A job is behind its configuration, and what has been marked as applied   *)
(* has been done.                                                           *)
JobFits(j) ==
    LET what == ctlJob[j].what IN
    /\ ctlJob[j].state = "unused" => ctlDid[j] = {}
    /\ ctlDid[j] \subseteq Control!NeedOf(what)
    /\ what \in Control!Modules => ctlJob[j].need <= ctlConfig[what]
    /\ ctlJob[j].state = "applied" =>
          /\ what \in Control!Modules => ctlCached[what] >= ctlJob[j].need
          /\ what \notin Control!Modules => ctlDid[j] = Control!NeedOf(what)

(* A message of the subject, or its callback under way, is about the job.   *)
OnItsWay(s, j) ==
    \/ \E i \in 1 .. Len(ctlQueue[s]) : ctlQueue[s][i] = j
    \/ ctlHandler[s].pc # "free" /\ ctlHandler[s].job = j

QueuesFit == \A s \in Control!Subjects, j \in Jobs \cup {NoDoc} : OnItsWay(s, j) => IsOf(s, j)

(* What apply_settings has read is as new as its job and no older than what *)
(* is in force.                                                             *)
ApplyFits(h) ==
    LET m == ctlJob[h.job].what
    IN  /\ h.pc \in {"settings", "cache"} =>
              ctlJob[h.job].need <= h.value /\ h.value <= ctlConfig[m] /\ ctlCached[m] <= h.value
        /\ h.pc = "settings" => m \in Voice
        /\ h.pc = "cache" /\ m \in Voice => ctlSettings = [module |-> m, value |-> h.value]
        /\ h.pc = "mark" => ctlCached[m] >= ctlJob[h.job].need
        /\ h.pc \notin {"write", "act"}

(* An operation goes on to what it needs.                                   *)
OpFits(h) ==
    LET op == ctlJob[h.job].what
    IN  /\ h.pc = "write" => Control!Writes(op)
        /\ h.pc = "act" => Control!Acts(op) /\ (Control!Writes(op) => "write" \in ctlDid[h.job])
        /\ h.pc = "mark" => Control!NeedOf(op) \subseteq ctlDid[h.job]
        /\ h.pc \notin {"settings", "cache"}

(* What is cached has been saved, and the settings are not older than it.   *)
InForce ==
    \A m \in Control!Modules :
        /\ ctlCached[m] <= ctlConfig[m]
        /\ ctlSettings.module = m => ctlSettings.value >= ctlCached[m]

ControlInv ==
    /\ ControlTyped /\ QueuesFit /\ InForce
    /\ ApplyFits(ctlHandler["apply"]) /\ OpFits(ctlHandler["ops"])
    /\ \A j \in Jobs : JobFits(j)

LEMMA SubjectsAre == Control!Subjects = {"apply", "ops"}
  BY DEF Control!Subjects

(* A job keeps what it is about, and is never new again.                    *)
JobsStay ==
    \A j \in Jobs : ctlJob[j].state # "unused" =>
        ctlJob'[j].state # "unused" /\ ctlJob'[j].what = ctlJob[j].what /\ ctlJob'[j].need = ctlJob[j].need

LEMMA IsOfStays ==
    ASSUME JobsStay, NEW s, NEW j, IsOf(s, j)
    PROVE  IsOf(s, j)'
  BY DEF JobsStay, IsOf, Control!SubjectOf

(* The messages and the callbacks fit on if what is put in is of its        *)
(* subject.                                                                 *)
LEMMA QueuesFitOn ==
    ASSUME ControlInv, JobsStay,
           \A s \in Control!Subjects, j \in Jobs \cup {NoDoc} : OnItsWay(s, j)' => OnItsWay(s, j) \/ IsOf(s, j)'
    PROVE  QueuesFit'
<1> SUFFICES ASSUME NEW s \in Control!Subjects, NEW j \in Jobs \cup {NoDoc}, OnItsWay(s, j)'
             PROVE  IsOf(s, j)'
  BY DEF QueuesFit
<1>1. CASE IsOf(s, j)'
  BY <1>1
<1>2. CASE OnItsWay(s, j)
  BY <1>2, IsOfStays DEF ControlInv, QueuesFit
<1> QED
  BY <1>1, <1>2

(* The callback under way is on a job of its subject.                       *)
LEMMA CallbackIsOf ==
    ASSUME ControlInv, NEW s \in Control!Subjects, ctlHandler[s].pc # "free"
    PROVE  IsOf(s, ctlHandler[s].job)
<1>1. PICK j : j = ctlHandler[s].job
  OBVIOUS
<1>2. j \in Jobs \cup {NoDoc} /\ OnItsWay(s, j)
  BY <1>1 DEF ControlInv, ControlTyped, TaskRecs, OnItsWay
<1> QED
  BY <1>1, <1>2 DEF ControlInv, QueuesFit

(* A callback that is not touched fits on.                                  *)
LEMMA ApplyFitsOn ==
    ASSUME ControlInv, JobsStay, ctlHandler'["apply"] = ctlHandler["apply"], UNCHANGED <<ctlSettings, ctlCached>>,
           \A m \in Control!Modules : ctlConfig[m] <= ctlConfig'[m],
           ctlConfig' \in [Control!Modules -> Nat]
    PROVE  ApplyFits(ctlHandler["apply"])'
<1>1. PICK h : h = ctlHandler["apply"]
  OBVIOUS
<1>2. h.pc # "free" => IsOf("apply", h.job) /\ h.job \in Jobs /\ ctlJob[h.job].what \in Control!Modules
  BY <1>1, SubjectsAre, CallbackIsOf DEF IsOf, Control!SubjectOf
<1>3. h.pc # "free" => ctlJob'[h.job].what = ctlJob[h.job].what /\ ctlJob'[h.job].need = ctlJob[h.job].need
  BY <1>2 DEF IsOf, JobsStay
<1>4. ApplyFits(h) /\ h \in TaskRecs
  BY <1>1, SubjectsAre DEF ControlInv, ControlTyped
<1>5. CASE h.pc = "free"
  BY <1>1, <1>5 DEF ApplyFits
<1>6. CASE h.pc # "free"
  <2>1. ctlConfig[ctlJob[h.job].what] <= ctlConfig'[ctlJob[h.job].what]
        /\ ctlConfig[ctlJob[h.job].what] \in Nat /\ ctlConfig'[ctlJob[h.job].what] \in Nat
    BY <1>2, <1>6 DEF ControlInv, ControlTyped
  <2>2. ApplyFits(h)'
    BY <1>3, <1>4, <1>6, <2>1 DEF ApplyFits, TaskRecs
  <2> QED
    BY <1>1, <2>2
<1> QED
  BY <1>5, <1>6

LEMMA OpFitsOn ==
    ASSUME ControlInv, JobsStay, ctlHandler'["ops"] = ctlHandler["ops"], UNCHANGED ctlDid
    PROVE  OpFits(ctlHandler["ops"])'
<1>1. PICK h : h = ctlHandler["ops"]
  OBVIOUS
<1>2. h.pc # "free" => ctlJob'[h.job].what = ctlJob[h.job].what
  BY <1>1, SubjectsAre, CallbackIsOf DEF IsOf, JobsStay
<1>3. OpFits(h)
  BY <1>1 DEF ControlInv
<1>4. OpFits(h)'
  BY <1>2, <1>3 DEF OpFits, Control!Writes, Control!Acts, Control!NeedOf
<1> QED
  BY <1>1, <1>4

(* A job that is not touched fits on, whatever is saved and brought into    *)
(* force.                                                                   *)
LEMMA JobFitsOn ==
    ASSUME ControlInv, ControlTyped', NEW j \in Jobs, ctlJob'[j] = ctlJob[j], ctlDid'[j] = ctlDid[j],
           \A m \in Control!Modules : ctlConfig[m] <= ctlConfig'[m] /\ ctlCached[m] <= ctlCached'[m]
    PROVE  JobFits(j)'
<1>1. JobFits(j) /\ ctlJob[j].need \in Nat
  BY DEF ControlInv, ControlTyped, JobRecs
<1>2. PICK m : m = ctlJob[j].what
  OBVIOUS
<1>3. m = ctlJob'[j].what
  BY <1>2
<1>4. /\ ctlJob[j].state = "unused" => ctlDid[j] = {}
      /\ ctlDid[j] \subseteq Control!NeedOf(m)
      /\ m \in Control!Modules => ctlJob[j].need <= ctlConfig[m]
      /\ ctlJob[j].state = "applied" =>
            /\ m \in Control!Modules => ctlCached[m] >= ctlJob[j].need
            /\ m \notin Control!Modules => ctlDid[j] = Control!NeedOf(m)
  BY <1>1, <1>2 DEF JobFits
<1>5. ASSUME m \in Control!Modules
      PROVE  ctlConfig[m] \in Nat /\ ctlConfig'[m] \in Nat /\ ctlCached[m] \in Nat /\ ctlCached'[m] \in Nat
  BY <1>5 DEF ControlInv, ControlTyped
<1>6. /\ ctlJob'[j].state = "unused" => ctlDid'[j] = {}
      /\ ctlDid'[j] \subseteq Control!NeedOf(m)
      /\ m \in Control!Modules => ctlJob'[j].need <= ctlConfig'[m]
      /\ ctlJob'[j].state = "applied" =>
            /\ m \in Control!Modules => ctlCached'[m] >= ctlJob'[j].need
            /\ m \notin Control!Modules => ctlDid'[j] = Control!NeedOf(m)
  BY <1>1, <1>4, <1>5
<1> QED
  BY <1>3, <1>6 DEF JobFits

(* The dashboard notes a job, and may save a configuration with it.         *)
LEMMA NewJobFits ==
    ASSUME ControlInv, NEW j \in Jobs, NEW r \in JobRecs, ctlJob[j] = Control!Unused, r.state = "saved",
           ctlJob' = [ctlJob EXCEPT ![j] = r],
           ctlConfig' \in [Control!Modules -> Nat],
           \A m \in Control!Modules : ctlConfig[m] <= ctlConfig'[m],
           r.what \in Control!Modules => r.need <= ctlConfig'[r.what],
           UNCHANGED <<ctlQueue, ctlHandler, ctlSettings, ctlCached, ctlDid>>
    PROVE  ControlInv'
<1>1. ControlTyped'
  BY DEF ControlInv, ControlTyped
<1>2. ctlJob'[j] = r /\ \A i \in Jobs : i # j => ctlJob'[i] = ctlJob[i]
  BY DEF ControlInv, ControlTyped
<1>3. JobsStay
  BY <1>2 DEF JobsStay, Control!Unused
<1>4. InForce'
  BY DEF ControlInv, InForce, ControlTyped
<1>5. JobFits(j)'
  <2>1. ctlDid[j] = {}
    BY DEF ControlInv, JobFits, Control!Unused
  <2> QED
    BY <1>2, <2>1 DEF JobFits
<1>6. ASSUME NEW i \in Jobs, i # j PROVE JobFits(i)'
  BY <1>1, <1>2, <1>6, JobFitsOn DEF ControlInv, ControlTyped
<1>7. QueuesFit'
  BY <1>3, QueuesFitOn DEF OnItsWay
<1>8. ApplyFits(ctlHandler["apply"])' /\ OpFits(ctlHandler["ops"])'
  BY <1>3, ApplyFitsOn, OpFitsOn
<1> QED
  BY <1>1, <1>4, <1>5, <1>6, <1>7, <1>8 DEF ControlInv

LEMMA SaveFits ==
    ASSUME ControlInv, NEW j \in Jobs, NEW m \in Control!Modules, Control!Save(j, m)
    PROVE  ControlInv'
<1> DEFINE r == [state |-> "saved", what |-> m, need |-> ctlConfig[m] + 1]
<1>1. ctlConfig \in [Control!Modules -> Nat]
  BY DEF ControlInv, ControlTyped
<1>2. r \in JobRecs /\ r.state = "saved" /\ r.what = m /\ r.need = ctlConfig[m] + 1
  BY <1>1 DEF JobRecs
<1>3. ctlConfig' = [ctlConfig EXCEPT ![m] = ctlConfig[m] + 1] /\ ctlJob' = [ctlJob EXCEPT ![j] = r]
  BY DEF Control!Save
<1>4. ctlConfig' \in [Control!Modules -> Nat] /\ ctlConfig'[m] = ctlConfig[m] + 1
      /\ \A n \in Control!Modules : ctlConfig[n] <= ctlConfig'[n]
  BY <1>1, <1>3
<1>5. r.what \in Control!Modules => r.need <= ctlConfig'[r.what]
  BY <1>2, <1>3, <1>4
<1>6. ctlJob[j] = Control!Unused /\ UNCHANGED <<ctlQueue, ctlHandler, ctlSettings, ctlCached, ctlDid>>
  BY DEF Control!Save
<1> HIDE DEF r
<1> QED
  BY <1>2, <1>3, <1>4, <1>5, <1>6, NewJobFits

LEMMA AskFits ==
    ASSUME ControlInv, NEW j \in Jobs, NEW op \in Control!Operations, Control!Ask(j, op)
    PROVE  ControlInv'
<1> DEFINE r == [state |-> "saved", what |-> op, need |-> 0]
<1>1. ctlConfig \in [Control!Modules -> Nat] /\ ctlConfig' = ctlConfig
  BY DEF ControlInv, ControlTyped, Control!Ask
<1>2. r \in JobRecs /\ r.state = "saved" /\ r.what = op /\ r.need = 0
  BY DEF JobRecs
<1>3. ctlJob' = [ctlJob EXCEPT ![j] = r]
  BY DEF Control!Ask
<1>4. \A n \in Control!Modules : ctlConfig[n] \in Nat /\ ctlConfig[n] <= ctlConfig'[n] /\ 0 <= ctlConfig'[n]
  BY <1>1
<1> HIDE DEF r
<1> QED
  BY <1>1, <1>2, <1>3, <1>4, NewJobFits DEF Control!Ask

(* A job gets another state, and keeps what it is about.                    *)
LEMMA JobTurns ==
    ASSUME ControlInv, NEW j \in Jobs, NEW state \in {"queued", "applied", "failed"},
           ctlJob[j].state # "unused", ctlJob' = [ctlJob EXCEPT ![j].state = state]
    PROVE  /\ JobsStay /\ ctlJob' \in [Jobs -> JobRecs] /\ ctlJob'[j].state = state
           /\ \A i \in Jobs : i # j => ctlJob'[i] = ctlJob[i]
<1>1. ctlJob \in [Jobs -> JobRecs]
  BY DEF ControlInv, ControlTyped
<1>2. ctlJob' \in [Jobs -> JobRecs]
  BY <1>1 DEF JobRecs
<1>3. ctlJob'[j].state = state /\ ctlJob'[j].what = ctlJob[j].what /\ ctlJob'[j].need = ctlJob[j].need
  BY <1>1 DEF JobRecs
<1>4. \A i \in Jobs : i # j => ctlJob'[i] = ctlJob[i]
  BY <1>1
<1> QED
  BY <1>2, <1>3, <1>4 DEF JobsStay

LEMMA PublishFits ==
    ASSUME ControlInv, NEW j \in Jobs, Control!Publish(j)
    PROVE  ControlInv'
<1>0. PICK s : s = Control!SubjectOf(j)
  OBVIOUS
<1>1. s \in Control!Subjects
  BY <1>0 DEF Control!SubjectOf, Control!Subjects
<1>2. /\ JobsStay /\ ctlJob' \in [Jobs -> JobRecs] /\ ctlJob'[j].state = "queued"
      /\ \A i \in Jobs : i # j => ctlJob'[i] = ctlJob[i]
  BY JobTurns DEF Control!Publish
<1>3. ctlQueue' = ctlQueue \/ ctlQueue' = [ctlQueue EXCEPT ![s] = Append(ctlQueue[s], j)]
  BY <1>0 DEF Control!Publish
<1>4. ctlQueue \in [Control!Subjects -> Seq(Jobs)]
  BY DEF ControlInv, ControlTyped
<1>5. ControlTyped'
  <2>1. ctlQueue' \in [Control!Subjects -> Seq(Jobs)]
    <3>1. Append(ctlQueue[s], j) \in Seq(Jobs)
      BY <1>1, <1>4
    <3> QED
      BY <1>1, <1>3, <1>4, <3>1
  <2> QED
    BY <1>2, <2>1 DEF ControlInv, ControlTyped, Control!Publish
<1>6. JobFits(j)'
  <2>1. PICK m : m = ctlJob[j].what
    OBVIOUS
  <2>2. m = ctlJob'[j].what /\ ctlJob'[j].need = ctlJob[j].need
    BY <1>2, <2>1 DEF JobsStay, Control!Publish
  <2>3. ctlDid[j] \subseteq Control!NeedOf(m) /\ (m \in Control!Modules => ctlJob[j].need <= ctlConfig[m])
    BY <2>1 DEF ControlInv, JobFits
  <2> QED
    BY <1>2, <2>2, <2>3 DEF JobFits, Control!Publish
<1>7. ASSUME NEW i \in Jobs, i # j PROVE JobFits(i)'
  <2>1. \A m \in Control!Modules : ctlConfig[m] <= ctlConfig'[m] /\ ctlCached[m] <= ctlCached'[m]
    BY DEF ControlInv, ControlTyped, Control!Publish
  <2>2. ctlJob'[i] = ctlJob[i] /\ ctlDid'[i] = ctlDid[i]
    BY <1>2, <1>7 DEF Control!Publish
  <2> QED
    BY <1>5, <2>1, <2>2, JobFitsOn
<1>8. InForce'
  BY DEF ControlInv, InForce, Control!Publish
<1>9. ApplyFits(ctlHandler["apply"])' /\ OpFits(ctlHandler["ops"])'
  <2>1. \A m \in Control!Modules : ctlConfig[m] \in Nat
    BY DEF ControlInv, ControlTyped
  <2>2. ctlConfig' \in [Control!Modules -> Nat] /\ \A m \in Control!Modules : ctlConfig[m] <= ctlConfig'[m]
    BY <2>1 DEF ControlInv, ControlTyped, Control!Publish
  <2> QED
    BY <1>2, <2>2, ApplyFitsOn, OpFitsOn DEF Control!Publish
<1>10. ASSUME NEW t \in Control!Subjects, NEW k \in Jobs \cup {NoDoc}, OnItsWay(t, k)'
       PROVE  OnItsWay(t, k) \/ IsOf(t, k)'
  <2>1. IsOf(s, j)'
    BY <1>0, <1>2 DEF IsOf, JobsStay, Control!SubjectOf, Control!Publish
  <2>2. ctlHandler' = ctlHandler
    BY DEF Control!Publish
  <2>3. ASSUME NEW i \in 1 .. Len(ctlQueue'[t]), ctlQueue'[t][i] = k PROVE OnItsWay(t, k) \/ (t = s /\ k = j)
    <3>1. CASE ctlQueue'[t] = ctlQueue[t]
      BY <2>3, <3>1 DEF OnItsWay
    <3>2. CASE t = s /\ ctlQueue'[s] = Append(ctlQueue[s], j)
      <4>1. ctlQueue[s] \in Seq(Jobs)
        BY <1>1, <1>4
      <4>2. i = Len(ctlQueue[s]) + 1 \/ i \in 1 .. Len(ctlQueue[s])
        BY <2>3, <3>2, <4>1
      <4> QED
        BY <2>3, <3>2, <4>1, <4>2 DEF OnItsWay
    <3> QED
      BY <1>1, <1>3, <1>4, <3>1, <3>2
  <2> QED
    BY <1>10, <2>1, <2>2, <2>3 DEF OnItsWay
<1>11. QueuesFit'
  BY <1>2, <1>10, QueuesFitOn
<1> QED
  BY <1>5, <1>6, <1>7, <1>8, <1>9, <1>11 DEF ControlInv

(* A callback goes on with its job, or ends.                                *)
LEMMA CallbackMoves ==
    ASSUME ControlInv, JobsStay, UNCHANGED ctlQueue, NEW s \in Control!Subjects, NEW r \in TaskRecs,
           ctlHandler' = [ctlHandler EXCEPT ![s] = r],
           r.pc # "free" => ctlHandler[s].pc # "free" /\ r.job = ctlHandler[s].job
    PROVE  /\ ctlHandler' \in [Control!Subjects -> TaskRecs] /\ ctlHandler'[s] = r
           /\ \A t \in Control!Subjects : t # s => ctlHandler'[t] = ctlHandler[t]
           /\ QueuesFit'
<1>1. ctlHandler \in [Control!Subjects -> TaskRecs]
  BY DEF ControlInv, ControlTyped
<1>2. ctlHandler' \in [Control!Subjects -> TaskRecs] /\ ctlHandler'[s] = r
      /\ \A t \in Control!Subjects : t # s => ctlHandler'[t] = ctlHandler[t]
  BY <1>1
<1>3. ASSUME NEW t \in Control!Subjects, NEW j \in Jobs \cup {NoDoc}, OnItsWay(t, j)' PROVE OnItsWay(t, j)
  BY <1>2, <1>3 DEF OnItsWay
<1> QED
  BY <1>2, <1>3, QueuesFitOn

LEMMA CallbackGoes ==
    ASSUME ControlInv, NEW s \in Control!Subjects,
           NEW stage \in {"begin", "settings", "cache", "write", "act", "mark", "publish", "error"}, Control!Goes(s, stage)
    PROVE  \E r \in TaskRecs : /\ r.pc = stage /\ r.job = ctlHandler[s].job /\ r.value = ctlHandler[s].value
                               /\ ctlHandler' = [ctlHandler EXCEPT ![s] = r]
<1> DEFINE r == [ctlHandler[s] EXCEPT !.pc = stage]
<1>1. ctlHandler[s] \in TaskRecs /\ ctlHandler \in [Control!Subjects -> TaskRecs]
  BY DEF ControlInv, ControlTyped
<1>2. r \in TaskRecs /\ r.pc = stage /\ r.job = ctlHandler[s].job /\ r.value = ctlHandler[s].value
  BY <1>1 DEF TaskRecs
<1>3. ctlHandler' = [ctlHandler EXCEPT ![s] = r]
  BY <1>1 DEF Control!Goes
<1> QED
  BY <1>2, <1>3

LEMMA FreeCallback ==
    /\ Control!Free \in TaskRecs /\ Control!Free.pc = "free"
    /\ ApplyFits(Control!Free) /\ OpFits(Control!Free)
  BY DEF Control!Free, TaskRecs, ApplyFits, OpFits

(* A step of the callback of apply_settings.                                *)
LEMMA ApplySteps ==
    ASSUME ControlInv, NEW r \in TaskRecs,
           ctlHandler' = [ctlHandler EXCEPT !["apply"] = r],
           r.pc # "free" => ctlHandler["apply"].pc # "free" /\ r.job = ctlHandler["apply"].job,
           UNCHANGED <<ctlConfig, ctlJob, ctlQueue, ctlDid>>,
           ctlCached' \in [Control!Modules -> Nat], ctlSettings' \in [module : Voice \cup {NoDoc}, value : Nat],
           InForce', \A m \in Control!Modules : ctlCached[m] <= ctlCached'[m],
           ApplyFits(r)'
    PROVE  ControlInv'
<1>1. JobsStay
  BY DEF JobsStay
<1>2. /\ ctlHandler' \in [Control!Subjects -> TaskRecs] /\ ctlHandler'["apply"] = r
      /\ ctlHandler'["ops"] = ctlHandler["ops"] /\ QueuesFit'
  BY <1>1, CallbackMoves, SubjectsAre
<1>3. ControlTyped'
  BY <1>2 DEF ControlInv, ControlTyped
<1>4. ASSUME NEW j \in Jobs PROVE JobFits(j)'
  <2>1. \A m \in Control!Modules : ctlConfig[m] <= ctlConfig'[m]
    BY DEF ControlInv, ControlTyped
  <2> QED
    BY <1>3, <2>1, JobFitsOn
<1>5. OpFits(ctlHandler["ops"])'
  BY <1>1, <1>2, OpFitsOn
<1>6. ApplyFits(ctlHandler["apply"])'
  BY <1>2
<1> QED
  BY <1>2, <1>3, <1>4, <1>5, <1>6 DEF ControlInv

(* A step of the callback of execute_operation.                             *)
LEMMA OpSteps ==
    ASSUME ControlInv, NEW r \in TaskRecs,
           ctlHandler' = [ctlHandler EXCEPT !["ops"] = r],
           r.pc # "free" => ctlHandler["ops"].pc # "free" /\ r.job = ctlHandler["ops"].job,
           UNCHANGED <<ctlConfig, ctlJob, ctlQueue, ctlSettings, ctlCached>>,
           ctlDid' \in [Jobs -> SUBSET {"write", "act"}],
           \A j \in Jobs : JobFits(j)', OpFits(r)'
    PROVE  ControlInv'
<1>1. JobsStay
  BY DEF JobsStay
<1>2. /\ ctlHandler' \in [Control!Subjects -> TaskRecs] /\ ctlHandler'["ops"] = r
      /\ ctlHandler'["apply"] = ctlHandler["apply"] /\ QueuesFit'
  BY <1>1, CallbackMoves, SubjectsAre
<1>3. ControlTyped'
  BY <1>2 DEF ControlInv, ControlTyped
<1>4. ApplyFits(ctlHandler["apply"])'
  <2>1. ctlConfig' \in [Control!Modules -> Nat] /\ \A m \in Control!Modules : ctlConfig[m] <= ctlConfig'[m]
    BY DEF ControlInv, ControlTyped
  <2> QED
    BY <1>1, <1>2, <2>1, ApplyFitsOn
<1>5. OpFits(ctlHandler["ops"])' /\ InForce'
  BY <1>2 DEF ControlInv, InForce
<1> QED
  BY <1>2, <1>3, <1>4, <1>5 DEF ControlInv

(* A callback notes what became of its job.                                 *)
LEMMA MarkSteps ==
    ASSUME ControlInv, NEW s \in Control!Subjects, NEW r \in TaskRecs, NEW state \in {"applied", "failed"},
           ctlHandler[s].pc # "free", r.pc \in {"free", "publish"}, r.pc = "publish" => r.job = ctlHandler[s].job,
           ctlHandler' = [ctlHandler EXCEPT ![s] = r],
           ctlJob' = [ctlJob EXCEPT ![ctlHandler[s].job].state = state],
           state = "applied" => ctlHandler[s].pc = "mark",
           UNCHANGED <<ctlConfig, ctlQueue, ctlSettings, ctlCached, ctlDid>>
    PROVE  ControlInv'
<1>1. PICK h : h = ctlHandler[s]
  OBVIOUS
<1>2. PICK j \in Jobs : j = h.job /\ IsOf(s, j)
  BY <1>1, CallbackIsOf DEF IsOf
<1>3. /\ JobsStay /\ ctlJob' \in [Jobs -> JobRecs] /\ ctlJob'[j].state = state
      /\ \A i \in Jobs : i # j => ctlJob'[i] = ctlJob[i]
  BY <1>1, <1>2, JobTurns DEF IsOf
<1>4. /\ ctlHandler' \in [Control!Subjects -> TaskRecs] /\ ctlHandler'[s] = r
      /\ \A t \in Control!Subjects : t # s => ctlHandler'[t] = ctlHandler[t]
      /\ QueuesFit'
  BY <1>3, CallbackMoves
<1>5. ControlTyped'
  BY <1>3, <1>4 DEF ControlInv, ControlTyped
<1>6. ASSUME NEW i \in Jobs, i # j PROVE JobFits(i)'
  <2>1. \A m \in Control!Modules : ctlConfig[m] <= ctlConfig'[m] /\ ctlCached[m] <= ctlCached'[m]
    BY DEF ControlInv, ControlTyped
  <2>2. ctlJob'[i] = ctlJob[i] /\ ctlDid'[i] = ctlDid[i]
    BY <1>3, <1>6
  <2> QED
    BY <1>5, <2>1, <2>2, JobFitsOn
<1>7. JobFits(j)'
  <2>1. PICK m : m = ctlJob[j].what
    OBVIOUS
  <2>2. m = ctlJob'[j].what /\ ctlJob'[j].need = ctlJob[j].need
    BY <1>2, <1>3, <2>1 DEF JobsStay, IsOf
  <2>3. ctlDid[j] \subseteq Control!NeedOf(m) /\ (m \in Control!Modules => ctlJob[j].need <= ctlConfig[m])
    BY <2>1 DEF ControlInv, JobFits
  <2>4. s = IF m \in Control!Modules THEN "apply" ELSE "ops"
    BY <1>2, <2>1 DEF IsOf, Control!SubjectOf
  <2>5. state = "applied" /\ m \in Control!Modules => ctlCached[m] >= ctlJob[j].need
    BY <1>1, <1>2, <2>1, <2>4 DEF ControlInv, ApplyFits
  <2>6. state = "applied" /\ m \notin Control!Modules => Control!NeedOf(m) \subseteq ctlDid[j]
    BY <1>1, <1>2, <2>1, <2>4 DEF ControlInv, OpFits
  <2> QED
    BY <1>3, <2>2, <2>3, <2>5, <2>6 DEF JobFits
<1>8. InForce'
  BY DEF ControlInv, InForce
<1>9. ApplyFits(r)' /\ OpFits(r)'
  BY DEF ApplyFits, OpFits
<1>10. ApplyFits(ctlHandler["apply"])'
  <2>1. CASE s = "apply"
    BY <1>4, <1>9, <2>1
  <2>2. CASE s # "apply"
    <3>1. ctlConfig' \in [Control!Modules -> Nat] /\ \A m \in Control!Modules : ctlConfig[m] <= ctlConfig'[m]
      BY DEF ControlInv, ControlTyped
    <3> QED
      BY <1>3, <1>4, <2>2, <3>1, SubjectsAre, ApplyFitsOn
  <2> QED
    BY <2>1, <2>2
<1>11. OpFits(ctlHandler["ops"])'
  <2>1. CASE s = "ops"
    BY <1>4, <1>9, <2>1
  <2>2. CASE s # "ops"
    BY <1>3, <1>4, <2>2, SubjectsAre, OpFitsOn
  <2> QED
    BY <2>1, <2>2
<1> QED
  BY <1>4, <1>5, <1>6, <1>7, <1>8, <1>10, <1>11 DEF ControlInv

LEMMA ReadConfigFits == ASSUME ControlInv, Control!ReadConfig PROVE ControlInv'
<1>1. PICK h : h = ctlHandler["apply"]
  OBVIOUS
<1>2. h \in TaskRecs /\ h.pc = "begin" /\ ctlHandler \in [Control!Subjects -> TaskRecs]
  BY <1>1, SubjectsAre DEF ControlInv, ControlTyped, Control!ReadConfig
<1>3. PICK j \in Jobs : j = h.job /\ IsOf("apply", j)
  BY <1>1, <1>2, SubjectsAre, CallbackIsOf DEF IsOf
<1>4. PICK m \in Control!Modules : m = ctlJob[j].what
  BY <1>3 DEF IsOf, Control!SubjectOf
<1>5. ctlJob[j].need <= ctlConfig[m] /\ ctlConfig[m] \in Nat /\ ctlCached[m] <= ctlConfig[m]
  BY <1>4 DEF ControlInv, JobFits, InForce, ControlTyped
<1> DEFINE r == [pc |-> IF m \in Voice THEN "settings" ELSE "cache", job |-> j, value |-> ctlConfig[m]]
<1>6. r \in TaskRecs /\ r.pc \in {"settings", "cache"} /\ r.job = j /\ r.value = ctlConfig[m] /\ (r.pc = "settings" <=> m \in Voice)
  BY <1>5 DEF TaskRecs
<1>7. ctlHandler' = [ctlHandler EXCEPT !["apply"] = r]
  <2>1. ctlHandler' = [ctlHandler EXCEPT !["apply"].pc = IF m \in Voice THEN "settings" ELSE "cache",
                                         !["apply"].value = ctlConfig[m]]
    BY <1>1, <1>3, <1>4 DEF Control!ReadConfig, Control!Found
  <2>2. PICK p : p = IF m \in Voice THEN "settings" ELSE "cache"
    OBVIOUS
  <2>3. PICK v : v = ctlConfig[m]
    OBVIOUS
  <2>4. PICK g : g = [ctlHandler EXCEPT !["apply"] = [h EXCEPT !.pc = p]]
    OBVIOUS
  <2>5. ctlHandler' = [g EXCEPT !["apply"].value = v]
    BY <1>1, <2>1, <2>2, <2>3, <2>4
  <2>6. ctlHandler' = [ctlHandler EXCEPT !["apply"] = [pc |-> p, job |-> h.job, value |-> v]]
    <3>1. PICK x : x = [h EXCEPT !.pc = p]
      OBVIOUS
    <3>2. g = [ctlHandler EXCEPT !["apply"] = x] /\ g["apply"] = x
      BY <1>2, <2>4, <3>1, SubjectsAre
    <3>3. PICK y : y = [x EXCEPT !.value = v]
      OBVIOUS
    <3>4. ctlHandler' = [g EXCEPT !["apply"] = y]
      BY <2>5, <3>2, <3>3
    <3>5. ctlHandler' = [ctlHandler EXCEPT !["apply"] = y]
      BY <1>2, <3>2, <3>4, SubjectsAre
    <3>6. y = [pc |-> p, job |-> h.job, value |-> v]
      BY <1>2, <3>1, <3>3 DEF TaskRecs
    <3> QED
      BY <3>5, <3>6
  <2> QED
    BY <1>3, <2>2, <2>3, <2>6
<1> HIDE DEF r
<1>8. UNCHANGED <<ctlConfig, ctlJob, ctlQueue, ctlDid, ctlCached, ctlSettings>>
  BY DEF Control!ReadConfig
<1>9. ApplyFits(r)
  BY <1>4, <1>5, <1>6 DEF ApplyFits
<1>10. PICK x : x = r
  OBVIOUS
<1>11. ApplyFits(x)'
  BY <1>8, <1>9, <1>10 DEF ApplyFits
<1>12. InForce' /\ \A n \in Control!Modules : ctlCached[n] <= ctlCached'[n]
  BY <1>8 DEF ControlInv, InForce, ControlTyped
<1>13. x \in TaskRecs /\ ctlHandler' = [ctlHandler EXCEPT !["apply"] = x] /\ x.job = ctlHandler["apply"].job
       /\ ctlHandler["apply"].pc # "free"
  BY <1>1, <1>2, <1>3, <1>6, <1>7, <1>10
<1>14. ctlCached' \in [Control!Modules -> Nat] /\ ctlSettings' \in [module : Voice \cup {NoDoc}, value : Nat]
  BY <1>8 DEF ControlInv, ControlTyped
<1> QED
  BY <1>8, <1>11, <1>12, <1>13, <1>14, ApplySteps

LEMMA StoreSettingsFits == ASSUME ControlInv, Control!StoreSettings PROVE ControlInv'
<1>1. PICK h : h = ctlHandler["apply"]
  OBVIOUS
<1>2. h \in TaskRecs /\ h.pc = "settings"
  BY <1>1, SubjectsAre DEF ControlInv, ControlTyped, Control!StoreSettings
<1>3. PICK j \in Jobs : j = h.job
  BY <1>1, <1>2, SubjectsAre, CallbackIsOf DEF IsOf
<1>4. PICK m \in Voice : m = ctlJob[j].what
  BY <1>1, <1>2, <1>3 DEF ControlInv, ApplyFits
<1>5. ctlJob[j].need <= h.value /\ h.value <= ctlConfig[m] /\ ctlCached[m] <= h.value
  BY <1>1, <1>2, <1>3, <1>4 DEF ControlInv, ApplyFits
<1>6. PICK r \in TaskRecs : r.pc = "cache" /\ r.job = j /\ r.value = h.value /\ ctlHandler' = [ctlHandler EXCEPT !["apply"] = r]
  BY <1>1, <1>3, SubjectsAre, CallbackGoes DEF Control!StoreSettings
<1>7. ctlSettings' = [module |-> m, value |-> h.value] /\ UNCHANGED <<ctlConfig, ctlJob, ctlQueue, ctlDid, ctlCached>>
  BY <1>1, <1>3, <1>4 DEF Control!StoreSettings
<1>8. ApplyFits(r)'
  BY <1>4, <1>5, <1>6, <1>7 DEF ApplyFits
<1>9. InForce' /\ \A n \in Control!Modules : ctlCached[n] <= ctlCached'[n]
  BY <1>5, <1>7 DEF ControlInv, InForce, ControlTyped
<1>10. ctlCached' \in [Control!Modules -> Nat] /\ ctlSettings' \in [module : Voice \cup {NoDoc}, value : Nat]
  BY <1>2, <1>7 DEF ControlInv, ControlTyped, TaskRecs
<1> QED
  BY <1>1, <1>2, <1>3, <1>6, <1>7, <1>8, <1>9, <1>10, ApplySteps

LEMMA CacheModuleFits == ASSUME ControlInv, Control!CacheModule PROVE ControlInv'
<1>1. PICK h : h = ctlHandler["apply"]
  OBVIOUS
<1>2. h \in TaskRecs /\ h.pc = "cache"
  BY <1>1, SubjectsAre DEF ControlInv, ControlTyped, Control!CacheModule
<1>3. PICK j \in Jobs : j = h.job /\ IsOf("apply", j)
  BY <1>1, <1>2, SubjectsAre, CallbackIsOf DEF IsOf
<1>4. PICK m \in Control!Modules : m = ctlJob[j].what
  BY <1>3 DEF IsOf, Control!SubjectOf
<1>5. /\ ctlJob[j].need <= h.value /\ h.value <= ctlConfig[m] /\ ctlCached[m] <= h.value
      /\ m \in Voice => ctlSettings = [module |-> m, value |-> h.value]
  BY <1>1, <1>2, <1>3, <1>4 DEF ControlInv, ApplyFits
<1>6. PICK r \in TaskRecs : r.pc = "mark" /\ r.job = j /\ r.value = h.value /\ ctlHandler' = [ctlHandler EXCEPT !["apply"] = r]
  BY <1>1, <1>3, SubjectsAre, CallbackGoes DEF Control!CacheModule
<1>7. ctlCached' = [ctlCached EXCEPT ![m] = h.value] /\ UNCHANGED <<ctlConfig, ctlJob, ctlQueue, ctlDid, ctlSettings>>
  BY <1>1, <1>3, <1>4 DEF Control!CacheModule
<1>8. /\ h.value \in Nat /\ ctlCached \in [Control!Modules -> Nat] /\ ctlConfig \in [Control!Modules -> Nat]
      /\ ctlSettings \in [module : Voice \cup {NoDoc}, value : Nat]
  BY <1>2 DEF ControlInv, ControlTyped, TaskRecs
<1>9. /\ ctlCached' \in [Control!Modules -> Nat] /\ ctlCached'[m] = h.value
      /\ \A n \in Control!Modules : n # m => ctlCached'[n] = ctlCached[n]
  BY <1>7, <1>8
<1>10. ApplyFits(r)'
  BY <1>4, <1>5, <1>6, <1>7, <1>9 DEF ApplyFits
<1>11. \A n \in Control!Modules : ctlCached[n] <= ctlCached'[n]
  BY <1>5, <1>8, <1>9
<1>12. ctlSettings.module = m => ctlSettings.value = h.value
  <2>1. m # NoDoc
    BY PartsAssumption DEF Control!Modules
  <2> QED
    BY <1>5, <1>8, <2>1
<1>13. InForce'
  <2> SUFFICES ASSUME NEW n \in Control!Modules
               PROVE  ctlCached'[n] <= ctlConfig[n] /\ (ctlSettings.module = n => ctlSettings.value >= ctlCached'[n])
    BY <1>7 DEF InForce
  <2>1. CASE n = m
    BY <1>5, <1>8, <1>9, <1>12, <2>1
  <2>2. CASE n # m
    BY <1>9, <2>2 DEF ControlInv, InForce
  <2> QED
    BY <2>1, <2>2
<1> QED
  BY <1>1, <1>2, <1>3, <1>6, <1>7, <1>8, <1>9, <1>10, <1>11, <1>13, ApplySteps

(* The callback of an operation moves on, and nothing else.                 *)
LEMMA OpMoves ==
    ASSUME ControlInv, NEW r \in TaskRecs,
           ctlHandler' = [ctlHandler EXCEPT !["ops"] = r],
           r.pc # "free" => ctlHandler["ops"].pc # "free" /\ r.job = ctlHandler["ops"].job,
           UNCHANGED <<ctlConfig, ctlJob, ctlQueue, ctlSettings, ctlCached, ctlDid>>,
           OpFits(r)
    PROVE  ControlInv'
<1>1. OpFits(r)'
  BY DEF OpFits
<1>2. \A j \in Jobs : JobFits(j)'
  BY DEF ControlInv, JobFits
<1>3. ctlDid' \in [Jobs -> SUBSET {"write", "act"}]
  BY DEF ControlInv, ControlTyped
<1> QED
  BY <1>1, <1>2, <1>3, OpSteps

LEMMA ApplyMoves ==
    ASSUME ControlInv, NEW r \in TaskRecs,
           ctlHandler' = [ctlHandler EXCEPT !["apply"] = r],
           r.pc # "free" => ctlHandler["apply"].pc # "free" /\ r.job = ctlHandler["apply"].job,
           UNCHANGED <<ctlConfig, ctlJob, ctlQueue, ctlSettings, ctlCached, ctlDid>>,
           ApplyFits(r)
    PROVE  ControlInv'
<1>1. ApplyFits(r)'
  BY DEF ApplyFits
<1>2. InForce' /\ \A n \in Control!Modules : ctlCached[n] <= ctlCached'[n]
  BY DEF ControlInv, InForce, ControlTyped
<1>3. ctlCached' \in [Control!Modules -> Nat] /\ ctlSettings' \in [module : Voice \cup {NoDoc}, value : Nat]
  BY DEF ControlInv, ControlTyped
<1> QED
  BY <1>1, <1>2, <1>3, ApplySteps

LEMMA BeginOperationFits == ASSUME ControlInv, Control!BeginOperation PROVE ControlInv'
<1>1. PICK op : op = ctlJob[ctlHandler["ops"].job].what
  OBVIOUS
<1>2. PICK stage \in {"error", "write", "act", "mark"} :
        /\ Control!Goes("ops", stage)
        /\ stage = "write" => Control!Writes(op)
        /\ stage = "act" => Control!Acts(op) /\ ~Control!Writes(op)
        /\ stage = "mark" => Control!NeedOf(op) = {}
  BY <1>1 DEF Control!BeginOperation, Control!NeedOf
<1>3. PICK r \in TaskRecs : r.pc = stage /\ r.job = ctlHandler["ops"].job /\ ctlHandler' = [ctlHandler EXCEPT !["ops"] = r]
  BY <1>2, SubjectsAre, CallbackGoes
<1>4. OpFits(r)
  BY <1>1, <1>2, <1>3 DEF OpFits
<1> QED
  BY <1>3, <1>4, OpMoves DEF Control!BeginOperation

(* An operation notes what it has done, a part of what it needs.            *)
LEMMA OpActs ==
    ASSUME ControlInv, NEW j \in Jobs, NEW act \in {"write", "act"}, IsOf("ops", j),
           act \in Control!NeedOf(ctlJob[j].what), ctlDid' = [ctlDid EXCEPT ![j] = @ \cup {act}],
           UNCHANGED <<ctlConfig, ctlJob, ctlCached>>
    PROVE  /\ ctlDid' \in [Jobs -> SUBSET {"write", "act"}] /\ ctlDid'[j] = ctlDid[j] \cup {act}
           /\ \A i \in Jobs : JobFits(i)'
<1>1. ctlDid \in [Jobs -> SUBSET {"write", "act"}]
  BY DEF ControlInv, ControlTyped
<1>2. ctlDid' \in [Jobs -> SUBSET {"write", "act"}] /\ ctlDid'[j] = ctlDid[j] \cup {act}
      /\ \A i \in Jobs : i # j => ctlDid'[i] = ctlDid[i]
  BY <1>1
<1>3. JobFits(j)'
  <2>1. PICK m : m = ctlJob[j].what
    OBVIOUS
  <2>2. m \notin Control!Modules /\ ctlJob[j].state # "unused" /\ act \in Control!NeedOf(m)
    BY <2>1 DEF IsOf, Control!SubjectOf
  <2>3. ctlDid[j] \subseteq Control!NeedOf(m) /\ (ctlJob[j].state = "applied" => ctlDid[j] = Control!NeedOf(m))
    BY <2>1, <2>2 DEF ControlInv, JobFits
  <2> QED
    BY <1>2, <2>1, <2>2, <2>3 DEF JobFits
<1>4. ASSUME NEW i \in Jobs, i # j PROVE JobFits(i)'
  BY <1>2, <1>4 DEF ControlInv, JobFits
<1> QED
  BY <1>2, <1>3, <1>4

LEMMA ChangeSettingsFits == ASSUME ControlInv, Control!ChangeSettings PROVE ControlInv'
<1>1. PICK j \in Jobs : j = ctlHandler["ops"].job /\ IsOf("ops", j)
  BY SubjectsAre, CallbackIsOf DEF IsOf, Control!ChangeSettings
<1>2. PICK op : op = ctlJob[j].what
  OBVIOUS
<1>3. Control!Writes(op)
  BY <1>1, <1>2 DEF ControlInv, OpFits, Control!ChangeSettings
<1>4. PICK stage \in {"act", "mark"} : stage = (IF Control!Acts(op) THEN "act" ELSE "mark")
  OBVIOUS
<1>5. Control!Goes("ops", stage)
  BY <1>1, <1>2, <1>4 DEF Control!ChangeSettings
<1>6. PICK r \in TaskRecs : r.pc = stage /\ r.job = j /\ ctlHandler' = [ctlHandler EXCEPT !["ops"] = r]
  BY <1>1, <1>5, SubjectsAre, CallbackGoes
<1>7. /\ ctlDid' \in [Jobs -> SUBSET {"write", "act"}] /\ ctlDid'[j] = ctlDid[j] \cup {"write"}
      /\ \A i \in Jobs : JobFits(i)'
  <2>1. "write" \in Control!NeedOf(ctlJob[j].what)
    BY <1>2, <1>3 DEF Control!NeedOf
  <2>2. ctlDid' = [ctlDid EXCEPT ![j] = @ \cup {"write"}] /\ UNCHANGED <<ctlConfig, ctlJob, ctlCached>>
    BY <1>1 DEF Control!ChangeSettings
  <2> QED
    BY <1>1, <2>1, <2>2, OpActs
<1>8. UNCHANGED <<ctlConfig, ctlJob, ctlQueue, ctlSettings, ctlCached>> /\ ctlHandler["ops"].pc = "write"
  BY DEF Control!ChangeSettings
<1>9. OpFits(r)'
  <2>1. op = ctlJob'[r.job].what /\ "write" \in ctlDid'[r.job]
    BY <1>2, <1>6, <1>7, <1>8
  <2>2. stage = "mark" => Control!NeedOf(op) \subseteq {"write"}
    BY <1>4 DEF Control!NeedOf
  <2>3. stage = "act" => Control!Acts(op)
    BY <1>4
  <2> QED
    BY <1>4, <1>6, <2>1, <2>2, <2>3 DEF OpFits
<1> QED
  BY <1>1, <1>6, <1>7, <1>8, <1>9, OpSteps

LEMMA ActOnDiscordFits == ASSUME ControlInv, Control!ActOnDiscord PROVE ControlInv'
<1>1. PICK j \in Jobs : j = ctlHandler["ops"].job /\ IsOf("ops", j)
  BY SubjectsAre, CallbackIsOf DEF IsOf, Control!ActOnDiscord
<1>2. PICK op : op = ctlJob[j].what
  OBVIOUS
<1>3. Control!Acts(op) /\ (Control!Writes(op) => "write" \in ctlDid[j])
  BY <1>1, <1>2 DEF ControlInv, OpFits, Control!ActOnDiscord
<1>4. PICK r \in TaskRecs : r.pc = "mark" /\ r.job = j /\ ctlHandler' = [ctlHandler EXCEPT !["ops"] = r]
  BY <1>1, SubjectsAre, CallbackGoes DEF Control!ActOnDiscord
<1>5. /\ ctlDid' \in [Jobs -> SUBSET {"write", "act"}] /\ ctlDid'[j] = ctlDid[j] \cup {"act"}
      /\ \A i \in Jobs : JobFits(i)'
  <2>1. "act" \in Control!NeedOf(ctlJob[j].what)
    BY <1>2, <1>3 DEF Control!NeedOf
  <2>2. ctlDid' = [ctlDid EXCEPT ![j] = @ \cup {"act"}] /\ UNCHANGED <<ctlConfig, ctlJob, ctlCached>>
    BY <1>1 DEF Control!ActOnDiscord
  <2> QED
    BY <1>1, <2>1, <2>2, OpActs
<1>6. UNCHANGED <<ctlConfig, ctlJob, ctlQueue, ctlSettings, ctlCached>> /\ ctlHandler["ops"].pc = "act"
  BY DEF Control!ActOnDiscord
<1>7. OpFits(r)'
  <2>1. op = ctlJob'[r.job].what /\ ctlDid'[r.job] = ctlDid[j] \cup {"act"}
    BY <1>2, <1>4, <1>5, <1>6
  <2>2. Control!NeedOf(op) \subseteq ctlDid[j] \cup {"act"}
    BY <1>3 DEF Control!NeedOf
  <2> QED
    BY <1>4, <2>1, <2>2 DEF OpFits
<1> QED
  BY <1>1, <1>4, <1>5, <1>6, <1>7, OpSteps

(* A callback ends, or raises.                                              *)
LEMMA CallbackEnds ==
    ASSUME ControlInv, NEW s \in Control!Subjects, NEW r \in TaskRecs, r.pc \in {"free", "error"},
           ctlHandler' = [ctlHandler EXCEPT ![s] = r],
           r.pc # "free" => ctlHandler[s].pc # "free" /\ r.job = ctlHandler[s].job,
           UNCHANGED <<ctlConfig, ctlJob, ctlQueue, ctlSettings, ctlCached, ctlDid>>
    PROVE  ControlInv'
<1>1. ApplyFits(r) /\ OpFits(r)
  BY DEF ApplyFits, OpFits
<1> QED
  BY <1>1, SubjectsAre, ApplyMoves, OpMoves

LEMMA MarkAppliedFits == ASSUME ControlInv, NEW s \in Control!Subjects, Control!MarkApplied(s) PROVE ControlInv'
<1>1. PICK r \in TaskRecs : r.pc = "publish" /\ r.job = ctlHandler[s].job /\ ctlHandler' = [ctlHandler EXCEPT ![s] = r]
  BY CallbackGoes DEF Control!MarkApplied
<1> QED
  BY <1>1, MarkSteps DEF Control!MarkApplied

LEMMA MarkFailedFits == ASSUME ControlInv, NEW s \in Control!Subjects, Control!MarkFailed(s) PROVE ControlInv'
  BY FreeCallback, MarkSteps DEF Control!MarkFailed, Control!StateAfter

LEMMA RaiseFits == ASSUME ControlInv, NEW s \in Control!Subjects, Control!Raise(s) PROVE ControlInv'
<1>1. PICK r \in TaskRecs : r.pc = "error" /\ r.job = ctlHandler[s].job /\ ctlHandler' = [ctlHandler EXCEPT ![s] = r]
  BY CallbackGoes DEF Control!Raise, Control!Raised
<1> QED
  BY <1>1, CallbackEnds DEF Control!Raise

LEMMA EndFits ==
    ASSUME ControlInv, NEW s \in Control!Subjects, Control!PublishResult(s) \/ Control!MarkRaises(s)
    PROVE  ControlInv'
  BY FreeCallback, CallbackEnds DEF Control!PublishResult, Control!MarkRaises

LEMMA TakeFits == ASSUME ControlInv, NEW s \in Control!Subjects, Control!Take(s) PROVE ControlInv'
<1>1. /\ ctlQueue \in [Control!Subjects -> Seq(Jobs)] /\ ctlHandler \in [Control!Subjects -> TaskRecs]
      /\ ctlQueue[s] # <<>>
  BY DEF ControlInv, ControlTyped, Control!Take
<1>2. PICK j \in Jobs : j = Head(ctlQueue[s]) /\ j = ctlQueue[s][1]
  BY <1>1
<1>3. IsOf(s, j)
  <2>1. 1 \in 1 .. Len(ctlQueue[s])
    BY <1>1
  <2> QED
    BY <1>2, <2>1 DEF ControlInv, QueuesFit, OnItsWay
<1> DEFINE r == [pc |-> "begin", job |-> j, value |-> 0]
<1>4. r \in TaskRecs /\ r.pc = "begin" /\ r.job = j
  BY DEF TaskRecs
<1>5. ctlHandler' = [ctlHandler EXCEPT ![s] = r] /\ ctlQueue' = [ctlQueue EXCEPT ![s] = Tail(ctlQueue[s])]
  <2>1. [Control!Free EXCEPT !.pc = "begin", !.job = j] = r
    <3>1. [Control!Free EXCEPT !.pc = "begin"] = [pc |-> "begin", job |-> NoDoc, value |-> 0]
      BY DEF Control!Free
    <3>2. [[pc |-> "begin", job |-> NoDoc, value |-> 0] EXCEPT !.job = j] = r
      OBVIOUS
    <3> QED
      BY <3>1, <3>2
  <2>2. ctlHandler' = [ctlHandler EXCEPT ![s] = [Control!Free EXCEPT !.pc = "begin", !.job = Head(ctlQueue[s])]]
    BY DEF Control!Take
  <2>3. ctlHandler' = [ctlHandler EXCEPT ![s] = r]
    BY <1>2, <2>1, <2>2
  <2> QED
    BY <2>3 DEF Control!Take, Control!AfterTaking
<1> HIDE DEF r
<1>6. /\ ctlHandler' \in [Control!Subjects -> TaskRecs] /\ ctlHandler'[s] = r
      /\ \A t \in Control!Subjects : t # s => ctlHandler'[t] = ctlHandler[t]
  BY <1>1, <1>4, <1>5
<1>7. /\ ctlQueue' \in [Control!Subjects -> Seq(Jobs)] /\ ctlQueue'[s] = Tail(ctlQueue[s])
      /\ \A t \in Control!Subjects : t # s => ctlQueue'[t] = ctlQueue[t]
  <2>1. Tail(ctlQueue[s]) \in Seq(Jobs)
    BY <1>1
  <2> QED
    BY <1>1, <1>5, <2>1
<1>8. UNCHANGED <<ctlConfig, ctlJob, ctlSettings, ctlCached, ctlDid>>
  BY DEF Control!Take
<1>9. JobsStay
  BY <1>8 DEF JobsStay
<1>10. ASSUME NEW t \in Control!Subjects, NEW k \in Jobs \cup {NoDoc}, OnItsWay(t, k)'
       PROVE  OnItsWay(t, k) \/ IsOf(t, k)'
  <2>1. CASE t # s
    BY <1>6, <1>7, <1>10, <2>1 DEF OnItsWay
  <2>2. CASE t = s
    <3>1. ASSUME NEW i \in 1 .. Len(Tail(ctlQueue[s])), Tail(ctlQueue[s])[i] = k
          PROVE  \E n \in 1 .. Len(ctlQueue[s]) : ctlQueue[s][n] = k
      <4>1. i + 1 \in 1 .. Len(ctlQueue[s]) /\ ctlQueue[s][i + 1] = k
        BY <1>1, <3>1
      <4> QED
        BY <4>1
    <3>2. k = j => IsOf(t, k)'
      BY <1>3, <1>8, <2>2 DEF IsOf, Control!SubjectOf
    <3> QED
      BY <1>4, <1>6, <1>7, <1>10, <2>2, <3>1, <3>2 DEF OnItsWay
  <2> QED
    BY <2>1, <2>2
<1>11. QueuesFit'
  BY <1>9, <1>10, QueuesFitOn
<1>12. ControlTyped' /\ InForce' /\ \A i \in Jobs : JobFits(i)'
  BY <1>6, <1>7, <1>8 DEF ControlInv, ControlTyped, InForce, JobFits
<1>13. ApplyFits(r)' /\ OpFits(r)'
  <2>1. PICK x : x = r
    OBVIOUS
  <2>2. ApplyFits(x)' /\ OpFits(x)'
    BY <1>4, <2>1 DEF ApplyFits, OpFits
  <2> QED
    BY <1>5, <1>6, <2>1, <2>2
<1>14. ApplyFits(ctlHandler["apply"])'
  <2>1. CASE s = "apply"
    BY <1>6, <1>13, <2>1
  <2>2. CASE s # "apply"
    <3>1. ctlConfig' \in [Control!Modules -> Nat] /\ \A m \in Control!Modules : ctlConfig[m] <= ctlConfig'[m]
      BY <1>8 DEF ControlInv, ControlTyped
    <3> QED
      BY <1>6, <1>8, <1>9, <2>2, <3>1, SubjectsAre, ApplyFitsOn
  <2> QED
    BY <2>1, <2>2
<1>15. OpFits(ctlHandler["ops"])'
  <2>1. CASE s = "ops"
    BY <1>6, <1>13, <2>1
  <2>2. CASE s # "ops"
    BY <1>6, <1>8, <1>9, <2>2, SubjectsAre, OpFitsOn
  <2> QED
    BY <2>1, <2>2
<1> QED
  BY <1>11, <1>12, <1>14, <1>15 DEF ControlInv

LEMMA CrashFits == ASSUME ControlInv, Control!Crash PROVE ControlInv'
<1>1. ctlQueue' = [s \in Control!Subjects |-> <<>>] /\ ctlHandler' = [s \in Control!Subjects |-> Control!Free]
      /\ UNCHANGED <<ctlConfig, ctlJob, ctlSettings, ctlCached, ctlDid>>
  BY DEF Control!Crash
<1>2. \A s \in Control!Subjects : ctlHandler'[s] = Control!Free /\ ctlQueue'[s] = <<>>
  BY <1>1
<1>3. ControlTyped'
  <2>1. ctlQueue' \in [Control!Subjects -> Seq(Jobs)] /\ ctlHandler' \in [Control!Subjects -> TaskRecs]
    BY <1>1, FreeCallback
  <2> QED
    BY <1>1, <2>1 DEF ControlInv, ControlTyped
<1>4. QueuesFit'
  BY <1>2, FreeCallback DEF QueuesFit, OnItsWay
<1>5. PICK x : x = Control!Free
  OBVIOUS
<1>6. ApplyFits(x)' /\ OpFits(x)'
  BY <1>5, FreeCallback DEF ApplyFits, OpFits
<1>7. ApplyFits(ctlHandler["apply"])' /\ OpFits(ctlHandler["ops"])'
  BY <1>2, <1>5, <1>6, SubjectsAre
<1>8. InForce' /\ \A j \in Jobs : JobFits(j)'
  BY <1>1 DEF ControlInv, InForce, JobFits
<1> QED
  BY <1>3, <1>4, <1>7, <1>8 DEF ControlInv

LEMMA ControlRests ==
    ASSUME ControlInv, UNCHANGED <<ctlConfig, ctlJob, ctlQueue, ctlHandler, ctlSettings, ctlCached, ctlDid>>
    PROVE  ControlInv'
<1>1. ControlTyped' /\ InForce' /\ \A j \in Jobs : JobFits(j)'
  BY DEF ControlInv, ControlTyped, InForce, JobFits
<1>2. QueuesFit'
  BY DEF ControlInv, QueuesFit, OnItsWay, IsOf, Control!SubjectOf
<1>3. ApplyFits(ctlHandler["apply"])' /\ OpFits(ctlHandler["ops"])'
  BY DEF ControlInv, ApplyFits, OpFits
<1> QED
  BY <1>1, <1>2, <1>3 DEF ControlInv

LEMMA ControlSteady == SafetySpec => []ControlInv
<1>1. SafetyInit => ControlInv
  <2> SUFFICES ASSUME Control!Init PROVE ControlInv
    BY DEF SafetyInit
  <2>1. Control!Unused \in JobRecs /\ Control!Unused.state = "unused" /\ Control!Unused.need = 0
        /\ Control!Unused.what = NoDoc
    BY DEF Control!Unused, JobRecs
  <2>2. ControlTyped
    <3>1. ctlQueue \in [Control!Subjects -> Seq(Jobs)] /\ ctlJob \in [Jobs -> JobRecs]
          /\ ctlHandler \in [Control!Subjects -> TaskRecs]
      BY <2>1, FreeCallback DEF Control!Init
    <3> QED
      BY <3>1 DEF Control!Init, ControlTyped
  <2>3. \A s \in Control!Subjects : ctlHandler[s] = Control!Free /\ ctlQueue[s] = <<>>
    BY DEF Control!Init
  <2>4. QueuesFit /\ ApplyFits(ctlHandler["apply"]) /\ OpFits(ctlHandler["ops"])
    BY <2>3, FreeCallback, SubjectsAre DEF QueuesFit, OnItsWay
  <2>5. NoDoc \notin Control!Modules
    BY PartsAssumption DEF Control!Modules
  <2>6. InForce
    BY <2>5 DEF Control!Init, InForce
  <2>7. ASSUME NEW j \in Jobs PROVE JobFits(j)
    <3>1. ctlJob[j] = Control!Unused /\ ctlDid[j] = {}
      BY DEF Control!Init
    <3> QED
      BY <2>1, <2>5, <3>1 DEF JobFits
  <2> QED
    BY <2>2, <2>4, <2>6, <2>7 DEF ControlInv
<1>2. ControlInv /\ [SafetyNext]_SafetyVars => ControlInv'
  <2> SUFFICES ASSUME ControlInv, [Control!Next]_ctlVars PROVE ControlInv'
    BY EachPartSteps
  <2>1. CASE UNCHANGED ctlVars
    BY <2>1, ControlRests DEF ctlVars
  <2>2. CASE Control!Start \/ Control!OnReady
    BY <2>2, ControlRests DEF Control!Start, Control!OnReady
  <2>3. CASE \E j \in Jobs, m \in Control!Modules : Control!Save(j, m)
    BY <2>3, SaveFits
  <2>4. CASE \E j \in Jobs, op \in Control!Operations : Control!Ask(j, op)
    BY <2>4, AskFits
  <2>5. CASE \E j \in Jobs : Control!Publish(j)
    BY <2>5, PublishFits
  <2>6. CASE Control!Crash
    BY <2>6, CrashFits
  <2>7. CASE \E s \in Control!Subjects : Control!Raise(s) \/ Control!MarkRaises(s)
    BY <2>7, RaiseFits, EndFits
  <2>8. CASE \E s \in Control!Subjects : Control!Works(s)
    <3>1. PICK s \in Control!Subjects : Control!Works(s)
      BY <2>8
    <3>2. CASE Control!Take(s) \/ Control!MarkApplied(s) \/ Control!PublishResult(s) \/ Control!MarkFailed(s)
      BY <3>2, TakeFits, MarkAppliedFits, EndFits, MarkFailedFits
    <3>3. CASE Control!ReadConfig \/ Control!StoreSettings \/ Control!CacheModule
      BY <3>3, ReadConfigFits, StoreSettingsFits, CacheModuleFits
    <3>4. CASE Control!BeginOperation \/ Control!ChangeSettings \/ Control!ActOnDiscord
      BY <3>4, BeginOperationFits, ChangeSettingsFits, ActOnDiscordFits
    <3> QED
      BY <3>1, <3>2, <3>3, <3>4 DEF Control!Works
  <2> QED
    BY <2>1, <2>2, <2>3, <2>4, <2>5, <2>6, <2>7, <2>8 DEF Control!Next
<1> QED
  BY <1>1, <1>2, PTL DEF SafetySpec

(* A module that was applied is in force at least as it was saved for that  *)
(* job, in the cache and in the settings, however the messages overtook     *)
(* each other and whatever was lost (controlplane.py, apply_settings).      *)
THEOREM AppliedModulesAreCurrent == SafetySpec => []AppliedIsCurrent
<1>1. ControlInv => AppliedIsCurrent
  <2> SUFFICES ASSUME ControlInv, NEW j \in Jobs, ctlJob[j].state = "applied", ctlJob[j].what \in Control!Modules
               PROVE  /\ ctlCached[ctlJob[j].what] >= ctlJob[j].need
                      /\ ctlSettings.module = ctlJob[j].what => ctlSettings.value >= ctlJob[j].need
    BY DEF AppliedIsCurrent, Control!AppliedIsCurrent
  <2>1. PICK m \in Control!Modules : m = ctlJob[j].what
    OBVIOUS
  <2>2. ctlCached[m] >= ctlJob[j].need /\ (ctlSettings.module = m => ctlSettings.value >= ctlCached[m])
    BY <2>1 DEF ControlInv, JobFits, InForce
  <2>3. ctlCached[m] \in Nat /\ ctlJob[j].need \in Nat /\ ctlSettings.value \in Nat
    BY DEF ControlInv, ControlTyped, JobRecs
  <2> QED
    BY <2>1, <2>2, <2>3
<1> QED
  BY <1>1, ControlSteady, PTL

(* An operation marked as applied has made its change of the settings and   *)
(* its call of Discord, and nothing else (controlplane.py,                  *)
(* execute_operation).                                                      *)
THEOREM AppliedOperationsAreWhole == SafetySpec => []AppliedIsWhole
<1>1. ControlInv => AppliedIsWhole
  <2> SUFFICES ASSUME ControlInv, NEW j \in Jobs, ctlJob[j].state = "applied", ctlJob[j].what \in Control!Operations
               PROVE  ctlDid[j] = Control!NeedOf(ctlJob[j].what)
    BY DEF AppliedIsWhole, Control!AppliedIsWhole
  <2>1. ctlJob[j].what \notin Control!Modules
    BY NamesAssumption DEF Control!Modules
  <2> QED
    BY <2>1 DEF ControlInv, JobFits
<1> QED
  BY <1>1, ControlSteady, PTL

-----------------------------------------------------------------------------
(* The archive of messages.                                                 *)

PostRecs ==
    [at : {"unsent", "live", "deleted", "purged", "gone"}, text : Chat!Written, image : Images \cup {NoDoc}]

SavingRecs == [step : {"idle", "fetch", "write", "move"}, text : Chat!Written]

ArchiveRecs ==
    [text : Chat!Written, att : {"none", "link", "stored"}, edited : BOOLEAN, deleted : BOOLEAN]

ChatTyped ==
    /\ chatChat \in [Msgs -> PostRecs]
    /\ chatCache \in [Msgs -> Chat!Written \cup {NoDoc}]
    /\ chatSaving \in [Msgs -> SavingRecs]
    /\ chatArchive \in [Msgs -> ArchiveRecs \cup {NoDoc}]

Tombstone(record) == record \in ArchiveRecs /\ record.deleted

ChatInv == ChatTyped /\ \A m \in Msgs : chatChat[m].at = "deleted" => Tombstone(chatArchive[m])

LEMMA NoDocIsNoRecord == NoDoc \notin ArchiveRecs
  BY PartsAssumption DEF ArchiveRecs, Chat!Written

(* What is written to a record leaves a tombstone one, and a deletion makes *)
(* one of it.                                                               *)
LEMMA RecordsKept ==
    ASSUME ChatInv, NEW m \in Msgs, NEW text \in Chat!Written, NEW att \in {"none", "link", "stored"},
           NEW record \in {Chat!Recorded(m, text, att), Chat!Edited(m, text), Chat!Buried(m, text)}
    PROVE  /\ record \in ArchiveRecs
           /\ Tombstone(chatArchive[m]) => Tombstone(record)
           /\ record = Chat!Buried(m, text) => Tombstone(record)
<1>1. chatArchive[m] \in ArchiveRecs \/ chatArchive[m] = NoDoc
  BY DEF ChatInv, ChatTyped
<1>2. CASE chatArchive[m] = NoDoc
  <2>1. ~Tombstone(chatArchive[m])
    BY <1>2, NoDocIsNoRecord DEF Tombstone
  <2>2. record \in {[text |-> text, att |-> att, edited |-> FALSE, deleted |-> FALSE],
                    [text |-> text, att |-> "none", edited |-> TRUE, deleted |-> FALSE],
                    [text |-> text, att |-> "none", edited |-> FALSE, deleted |-> TRUE]}
    BY <1>2 DEF Chat!Recorded, Chat!Edited, Chat!Buried
  <2>3. record \in ArchiveRecs
    <3>1. /\ [text |-> text, att |-> att, edited |-> FALSE, deleted |-> FALSE] \in ArchiveRecs
          /\ [text |-> text, att |-> "none", edited |-> TRUE, deleted |-> FALSE] \in ArchiveRecs
          /\ [text |-> text, att |-> "none", edited |-> FALSE, deleted |-> TRUE] \in ArchiveRecs
      BY DEF ArchiveRecs
    <3> QED
      BY <2>2, <3>1
  <2>4. Chat!Buried(m, text).deleted
    BY <1>2 DEF Chat!Buried
  <2> QED
    BY <2>1, <2>3, <2>4 DEF Tombstone
<1>3. CASE chatArchive[m] \in ArchiveRecs
  <2>0. PICK old \in ArchiveRecs : old = chatArchive[m] /\ old # NoDoc
    BY <1>3, NoDocIsNoRecord
  <2>1. CASE record = Chat!Recorded(m, text, att)
    <3>1. PICK a \in {"none", "link", "stored"} : record = [old EXCEPT !.text = text, !.att = a]
      <4>1. old.att \in {"none", "link", "stored"}
        BY <2>0 DEF ArchiveRecs
      <4> QED
        BY <2>0, <2>1, <4>1 DEF Chat!Recorded
    <3>2. record \in ArchiveRecs /\ record.deleted = old.deleted
      BY <3>1 DEF ArchiveRecs
    <3>3. record = Chat!Buried(m, text) => record.deleted
      BY <2>0 DEF Chat!Buried, ArchiveRecs
    <3> QED
      BY <2>0, <3>2, <3>3 DEF Tombstone
  <2>2. CASE record = Chat!Edited(m, text)
    <3>1. record = [old EXCEPT !.text = text, !.edited = TRUE]
      BY <2>0, <2>2 DEF Chat!Edited
    <3>2. record \in ArchiveRecs /\ record.deleted = old.deleted
      BY <3>1 DEF ArchiveRecs
    <3>3. record = Chat!Buried(m, text) => record.deleted
      BY <2>0 DEF Chat!Buried, ArchiveRecs
    <3> QED
      BY <2>0, <3>2, <3>3 DEF Tombstone
  <2>3. CASE record = Chat!Buried(m, text)
    <3>1. record = [old EXCEPT !.deleted = TRUE]
      BY <2>0, <2>3 DEF Chat!Buried
    <3>2. record \in ArchiveRecs /\ record.deleted
      BY <3>1 DEF ArchiveRecs
    <3> QED
      BY <3>2 DEF Tombstone
  <2> QED
    BY <2>1, <2>2, <2>3
<1> QED
  BY <1>1, <1>2, <1>3

(* One record is written, and no message gets deleted without a tombstone.  *)
LEMMA OneRecordWritten ==
    ASSUME ChatInv, NEW m \in Msgs, NEW text \in Chat!Written, NEW att \in {"none", "link", "stored"},
           NEW record \in {Chat!Recorded(m, text, att), Chat!Edited(m, text), Chat!Buried(m, text)},
           chatArchive' = [chatArchive EXCEPT ![m] = record],
           chatChat' \in [Msgs -> PostRecs], chatCache' \in [Msgs -> Chat!Written \cup {NoDoc}],
           chatSaving' \in [Msgs -> SavingRecs],
           \A k \in Msgs : chatChat'[k].at = "deleted" =>
               chatChat[k].at = "deleted" \/ (k = m /\ record = Chat!Buried(m, text))
    PROVE  ChatInv'
<1>1. /\ record \in ArchiveRecs
      /\ Tombstone(chatArchive[m]) => Tombstone(record)
      /\ record = Chat!Buried(m, text) => Tombstone(record)
  BY RecordsKept
<1>2. chatArchive' \in [Msgs -> ArchiveRecs \cup {NoDoc}] /\ chatArchive'[m] = record
      /\ \A k \in Msgs : k # m => chatArchive'[k] = chatArchive[k]
  BY <1>1 DEF ChatInv, ChatTyped
<1>3. ASSUME NEW k \in Msgs, chatChat'[k].at = "deleted" PROVE Tombstone(chatArchive'[k])
  <2>1. CASE chatChat[k].at = "deleted"
    BY <1>1, <1>2, <2>1 DEF ChatInv
  <2>2. CASE k = m /\ record = Chat!Buried(m, text)
    BY <1>1, <1>2, <2>2
  <2> QED
    BY <1>3, <2>1, <2>2
<1> QED
  BY <1>2, <1>3 DEF ChatInv, ChatTyped, Tombstone

(* Nothing is written, and no message gets deleted.                         *)
LEMMA NoRecordWritten ==
    ASSUME ChatInv, UNCHANGED chatArchive,
           chatChat' \in [Msgs -> PostRecs], chatCache' \in [Msgs -> Chat!Written \cup {NoDoc}],
           chatSaving' \in [Msgs -> SavingRecs],
           \A k \in Msgs : chatChat'[k].at = "deleted" => chatChat[k].at = "deleted"
    PROVE  ChatInv'
  BY DEF ChatInv, ChatTyped, Tombstone

LEMMA CacheStaysTyped ==
    ASSUME ChatInv, NEW m \in Msgs, NEW text \in Chat!Written, NEW S \in SUBSET Msgs,
           Chat!Remember(m, text) \/ Chat!PutIn(m, text) \/ Chat!Forget(S)
    PROVE  chatCache' \in [Msgs -> Chat!Written \cup {NoDoc}]
<1>1. chatCache \in [Msgs -> Chat!Written \cup {NoDoc}]
  BY DEF ChatInv, ChatTyped
<1>2. CASE Chat!Remember(m, text)
  <2>1. PICK queue : queue = IF Chat!Cached(m) THEN chatOrder ELSE Append(chatOrder, m)
    OBVIOUS
  <2>2. PICK n : n = IF Len(queue) > Capacity THEN Len(queue) - Capacity ELSE 0
    OBVIOUS
  <2>3. PICK kept : kept = Chat!ToSet(SubSeq(queue, n + 1, Len(queue)))
    OBVIOUS
  <2>4. chatCache' = [k \in Msgs |-> IF k \notin kept THEN NoDoc ELSE IF k = m THEN text ELSE chatCache[k]]
    BY <1>2, <2>1, <2>2, <2>3 DEF Chat!Remember
  <2> QED
    BY <1>1, <2>4
<1>3. CASE Chat!PutIn(m, text)
  BY <1>1, <1>3 DEF Chat!PutIn
<1>4. CASE Chat!Forget(S)
  BY <1>1, <1>4 DEF Chat!Forget
<1> QED
  BY <1>2, <1>3, <1>4

(* on_message is done with the attachments: it writes its record, or none.  *)
LEMMA SavingEnds ==
    ASSUME ChatInv, NEW m \in Msgs, NEW text \in Chat!Written, NEW att \in {"none", "link", "stored"},
           Chat!Ends(m, text, att) \/ Chat!EndsInVain(m),
           chatChat' \in [Msgs -> PostRecs], chatCache' \in [Msgs -> Chat!Written \cup {NoDoc}],
           \A k \in Msgs : chatChat'[k].at = "deleted" => chatChat[k].at = "deleted"
    PROVE  ChatInv'
<1>1. chatSaving' = [chatSaving EXCEPT ![m] = Chat!Idle]
  BY DEF Chat!Ends, Chat!EndsInVain
<1>2. chatSaving' \in [Msgs -> SavingRecs]
  <2>1. Chat!Idle \in SavingRecs
    BY DEF Chat!Idle, SavingRecs, Chat!Written
  <2> QED
    BY <1>1, <2>1 DEF ChatInv, ChatTyped
<1>3. CASE Chat!Ends(m, text, att)
  BY <1>2, <1>3, OneRecordWritten DEF Chat!Ends
<1>4. CASE Chat!EndsInVain(m)
  BY <1>2, <1>4, NoRecordWritten DEF Chat!EndsInVain
<1> QED
  BY <1>3, <1>4

(* on_message goes on with the attachments.                                 *)
LEMMA SavingGoesOn ==
    ASSUME ChatInv, NEW m \in Msgs, NEW step \in {"write", "move"},
           chatSaving' = [chatSaving EXCEPT ![m].step = step],
           UNCHANGED <<chatChat, chatCache, chatArchive>>
    PROVE  ChatInv'
<1>1. chatSaving' \in [Msgs -> SavingRecs]
  BY DEF ChatInv, ChatTyped, SavingRecs
<1> QED
  BY <1>1, NoRecordWritten DEF ChatInv, ChatTyped

LEMMA PostKeeps == ASSUME ChatInv, NEW m \in Msgs, Chat!Post(m) PROVE ChatInv'
<1>1. PICK text \in Chat!Written, image \in Images \cup {NoDoc}, linked \in BOOLEAN :
        /\ chatChat' = [chatChat EXCEPT ![m] = [at |-> "live", text |-> text, image |-> image]]
        /\ \/ ~chatUp /\ UNCHANGED <<chatCache, chatOrder, chatSaving, chatArchive>>
           \/ /\ Chat!Remember(m, text)
              /\ \/ /\ chatSaving' = [chatSaving EXCEPT ![m] = [step |-> "fetch", text |-> text]]
                    /\ UNCHANGED chatArchive
                 \/ Chat!Ends(m, text, IF linked THEN "link" ELSE "none")
                 \/ Chat!EndsInVain(m)
  BY DEF Chat!Post
<1>2. /\ chatChat' \in [Msgs -> PostRecs]
      /\ \A k \in Msgs : chatChat'[k].at = "deleted" => chatChat[k].at = "deleted"
  <2>1. [at |-> "live", text |-> text, image |-> image] \in PostRecs
    BY DEF PostRecs
  <2> QED
    BY <1>1, <2>1 DEF ChatInv, ChatTyped
<1>3. CASE UNCHANGED <<chatCache, chatOrder, chatSaving, chatArchive>>
  BY <1>2, <1>3, NoRecordWritten DEF ChatInv, ChatTyped
<1>4. CASE Chat!Remember(m, text)
  <2>1. chatCache' \in [Msgs -> Chat!Written \cup {NoDoc}]
    BY <1>4, CacheStaysTyped
  <2>2. CASE /\ chatSaving' = [chatSaving EXCEPT ![m] = [step |-> "fetch", text |-> text]]
             /\ UNCHANGED chatArchive
    <3>1. [step |-> "fetch", text |-> text] \in SavingRecs
      BY DEF SavingRecs
    <3>2. chatSaving' \in [Msgs -> SavingRecs]
      BY <2>2, <3>1 DEF ChatInv, ChatTyped
    <3> QED
      BY <1>2, <2>1, <2>2, <3>2, NoRecordWritten
  <2>3. CASE Chat!Ends(m, text, IF linked THEN "link" ELSE "none") \/ Chat!EndsInVain(m)
    <3>1. PICK att \in {"none", "link", "stored"} : att = IF linked THEN "link" ELSE "none"
      OBVIOUS
    <3>2. Chat!Ends(m, text, att) \/ Chat!EndsInVain(m)
      BY <2>3, <3>1
    <3> QED
      BY <1>2, <2>1, <3>2, SavingEnds
  <2> QED
    BY <1>1, <1>3, <2>2, <2>3
<1> QED
  BY <1>1, <1>3, <1>4

LEMMA StoringKeeps ==
    ASSUME ChatInv, NEW m \in Msgs, Chat!Fetch(m) \/ Chat!Write(m) \/ Chat!Move(m) PROVE ChatInv'
<1>1. PICK text \in Chat!Written : text = chatSaving[m].text
  BY DEF ChatInv, ChatTyped, SavingRecs
<1>2. /\ UNCHANGED <<chatChat, chatCache>>
      /\ chatChat' \in [Msgs -> PostRecs] /\ chatCache' \in [Msgs -> Chat!Written \cup {NoDoc}]
      /\ \A k \in Msgs : chatChat'[k].at = "deleted" => chatChat[k].at = "deleted"
  BY DEF Chat!Fetch, Chat!Write, Chat!Move, ChatInv, ChatTyped
<1>3. \/ \E step \in {"write", "move"} : chatSaving' = [chatSaving EXCEPT ![m].step = step] /\ UNCHANGED chatArchive
      \/ \E att \in {"none", "link", "stored"} : Chat!Ends(m, text, att)
      \/ Chat!EndsInVain(m)
  BY <1>1 DEF Chat!Fetch, Chat!Write, Chat!Move
<1>4. CASE \E step \in {"write", "move"} : chatSaving' = [chatSaving EXCEPT ![m].step = step] /\ UNCHANGED chatArchive
  BY <1>2, <1>4, SavingGoesOn
<1>5. CASE \E att \in {"none", "link", "stored"} : Chat!Ends(m, text, att) \/ Chat!EndsInVain(m)
  BY <1>2, <1>5, SavingEnds
<1> QED
  BY <1>3, <1>4, <1>5

LEMMA EditKeeps == ASSUME ChatInv, NEW m \in Msgs, Chat!Edit(m) PROVE ChatInv'
<1>1. PICK text \in Chat!Written, seen \in BOOLEAN :
        /\ chatChat' = [chatChat EXCEPT ![m].text = text]
        /\ chatArchive' = chatArchive \/ chatArchive' = [chatArchive EXCEPT ![m] = Chat!Edited(m, text)]
        /\ Chat!Refreshed(m, seen, text) \/ UNCHANGED <<chatCache, chatOrder>>
  BY DEF Chat!Edit
<1>2. chatSaving' = chatSaving /\ chatSaving' \in [Msgs -> SavingRecs]
  BY DEF Chat!Edit, ChatInv, ChatTyped
<1>3. /\ chatChat' \in [Msgs -> PostRecs]
      /\ \A k \in Msgs : chatChat'[k].at = "deleted" => chatChat[k].at = "deleted"
  BY <1>1 DEF ChatInv, ChatTyped, PostRecs
<1>4. chatCache' \in [Msgs -> Chat!Written \cup {NoDoc}]
  <2>1. PICK shown \in Chat!Written : shown = IF text = Blank THEN chatChat[m].text ELSE text
    BY DEF ChatInv, ChatTyped, PostRecs
  <2>2. Chat!Remember(m, shown) \/ Chat!PutIn(m, text) \/ UNCHANGED chatCache
    BY <1>1, <2>1 DEF Chat!Refreshed
  <2>3. CASE UNCHANGED chatCache
    BY <2>3 DEF ChatInv, ChatTyped
  <2> QED
    BY <2>2, <2>3, CacheStaysTyped
<1> QED
  BY <1>1, <1>2, <1>3, <1>4, OneRecordWritten, NoRecordWritten

LEMMA DeleteKeeps == ASSUME ChatInv, NEW m \in Msgs, Chat!Delete(m) PROVE ChatInv'
<1>1. chatSaving' = chatSaving /\ chatSaving' \in [Msgs -> SavingRecs]
  BY DEF Chat!Delete, ChatInv, ChatTyped
<1>2. PICK at \in {"deleted", "gone"} : chatChat' = [chatChat EXCEPT ![m].at = at]
  BY DEF Chat!Delete
<1>3. /\ chatChat' \in [Msgs -> PostRecs] /\ chatChat'[m].at = at
      /\ \A k \in Msgs : k # m => chatChat'[k] = chatChat[k]
  BY <1>2 DEF ChatInv, ChatTyped, PostRecs
<1>4. chatCache' \in [Msgs -> Chat!Written \cup {NoDoc}]
  <2>1. Chat!Forget({m}) \/ UNCHANGED chatCache
    BY DEF Chat!Delete
  <2>2. CASE UNCHANGED chatCache
    BY <2>2 DEF ChatInv, ChatTyped
  <2>3. Blank \in Chat!Written
    BY DEF Chat!Written
  <2> QED
    BY <2>1, <2>2, <2>3, CacheStaysTyped
<1>5. PICK text \in Chat!Written : text = IF Chat!Cached(m) THEN chatCache[m] ELSE Blank
  BY DEF ChatInv, ChatTyped, Chat!Cached, Chat!Written
<1>6. CASE chatArchive' = [chatArchive EXCEPT ![m] = Chat!Buried(m, text)]
  <2>1. \A k \in Msgs : chatChat'[k].at = "deleted" => chatChat[k].at = "deleted" \/ k = m
    BY <1>3
  <2> QED
    BY <1>1, <1>3, <1>4, <1>6, <2>1, OneRecordWritten
<1>7. CASE UNCHANGED chatArchive /\ chatChat'[m].at = "gone"
  <2>1. \A k \in Msgs : chatChat'[k].at = "deleted" => chatChat[k].at = "deleted"
    BY <1>3, <1>7
  <2> QED
    BY <1>1, <1>3, <1>4, <1>7, <2>1, NoRecordWritten
<1>8. chatArchive' = [chatArchive EXCEPT ![m] = Chat!Buried(m, text)] \/ (UNCHANGED chatArchive /\ chatChat'[m].at = "gone")
  <2>1. chatChat[m] \in PostRecs
    BY DEF ChatInv, ChatTyped
  <2> QED
    BY <1>5, <2>1 DEF Chat!Delete, ChatInv, ChatTyped, PostRecs
<1> QED
  BY <1>6, <1>7, <1>8

LEMMA PurgeKeeps == ASSUME ChatInv, NEW S \in SUBSET Msgs, Chat!Purge(S) PROVE ChatInv'
<1>1. chatSaving' = chatSaving /\ chatSaving' \in [Msgs -> SavingRecs]
  BY DEF Chat!Purge, ChatInv, ChatTyped
<1>2. PICK at \in {"purged", "gone"} :
        chatChat' = [m \in Msgs |-> IF m \in S THEN [chatChat[m] EXCEPT !.at = at] ELSE chatChat[m]]
  BY DEF Chat!Purge
<1>3. /\ chatChat' \in [Msgs -> PostRecs]
      /\ \A k \in Msgs : chatChat'[k].at = "deleted" => chatChat[k].at = "deleted"
  <2>1. chatChat \in [Msgs -> PostRecs]
    BY DEF ChatInv, ChatTyped
  <2>2. ASSUME NEW k \in Msgs
        PROVE  [chatChat[k] EXCEPT !.at = at] \in PostRecs /\ [chatChat[k] EXCEPT !.at = at].at # "deleted"
    BY <2>1 DEF PostRecs
  <2>3. ASSUME NEW k \in Msgs
        PROVE  chatChat'[k] \in PostRecs /\ (chatChat'[k].at = "deleted" => chatChat[k].at = "deleted")
    BY <1>2, <2>1, <2>2
  <2> QED
    BY <1>2, <2>3
<1>4. chatCache' \in [Msgs -> Chat!Written \cup {NoDoc}]
  <2>1. Chat!Forget(S) /\ Blank \in Chat!Written
    BY DEF Chat!Purge, Chat!Written
  <2>2. \E m \in Msgs : TRUE
    BY DEF Chat!Purge
  <2> QED
    BY <2>1, <2>2, CacheStaysTyped
<1>5. CASE UNCHANGED chatArchive
  BY <1>1, <1>3, <1>4, <1>5, NoRecordWritten
<1>6. CASE chatArchive' = Chat!AllBuried(S)
  <2>1. ASSUME NEW m \in Msgs
        PROVE  /\ chatArchive'[m] \in ArchiveRecs \cup {NoDoc}
               /\ Tombstone(chatArchive[m]) => Tombstone(chatArchive'[m])
    <3>1. chatArchive'[m] = chatArchive[m] \/ chatArchive'[m] = Chat!Buried(m, Blank)
      BY <1>6 DEF Chat!AllBuried
    <3>2. Blank \in Chat!Written /\ chatArchive[m] \in ArchiveRecs \cup {NoDoc}
      BY DEF Chat!Written, ChatInv, ChatTyped
    <3>3. PICK x : x = Chat!Buried(m, Blank)
      OBVIOUS
    <3>4. x \in ArchiveRecs /\ (Tombstone(chatArchive[m]) => Tombstone(x))
      BY <3>2, <3>3, RecordsKept
    <3> QED
      BY <3>1, <3>2, <3>3, <3>4
  <2>2. chatArchive' \in [Msgs -> ArchiveRecs \cup {NoDoc}]
    BY <1>6, <2>1 DEF Chat!AllBuried
  <2> QED
    BY <1>1, <1>3, <1>4, <2>1, <2>2 DEF ChatInv, ChatTyped, Tombstone
<1>7. chatArchive' = Chat!AllBuried(S) \/ UNCHANGED chatArchive
  BY DEF Chat!Purge
<1> QED
  BY <1>5, <1>6, <1>7

LEMMA ChatCrashKeeps == ASSUME ChatInv, Chat!Crash PROVE ChatInv'
<1>1. Chat!Idle \in SavingRecs
  BY DEF Chat!Idle, SavingRecs, Chat!Written
<1>2. chatSaving' \in [Msgs -> SavingRecs] /\ chatCache' \in [Msgs -> Chat!Written \cup {NoDoc}]
  BY <1>1 DEF Chat!Crash
<1> QED
  BY <1>2, NoRecordWritten DEF Chat!Crash, ChatInv, ChatTyped

LEMMA ChatSteady == SafetySpec => []ChatInv
<1>1. SafetyInit => ChatInv
  <2> SUFFICES ASSUME Chat!Init PROVE ChatInv
    BY DEF SafetyInit
  <2>1. Chat!Idle \in SavingRecs /\ [at |-> "unsent", text |-> Blank, image |-> NoDoc] \in PostRecs
    BY DEF Chat!Idle, SavingRecs, PostRecs, Chat!Written
  <2>2. ChatTyped
    BY <2>1 DEF Chat!Init, ChatTyped
  <2> QED
    BY <2>2 DEF Chat!Init, ChatInv
<1>2. ChatInv /\ [SafetyNext]_SafetyVars => ChatInv'
  <2> SUFFICES ASSUME ChatInv, [Chat!Next]_chatVars PROVE ChatInv'
    BY EachPartSteps
  <2>1. CASE UNCHANGED chatVars
    BY <2>1 DEF chatVars, ChatInv, ChatTyped, Tombstone
  <2>2. CASE Chat!Start
    BY <2>2 DEF Chat!Start, ChatInv, ChatTyped, Tombstone
  <2> QED
    BY <2>1, <2>2, PostKeeps, StoringKeeps, EditKeeps, DeleteKeeps, PurgeKeeps, ChatCrashKeeps DEF Chat!Next
<1> QED
  BY <1>1, <1>2, PTL DEF SafetySpec

(* A message whose deletion was handled has a tombstone from then on, also  *)
(* when its own record, or an edit, is written only afterwards (gateway.py, *)
(* on_raw_message_delete).                                                  *)
THEOREM TombstonesStay == SafetySpec => []DeletedStaysDeleted
<1>1. ChatInv => DeletedStaysDeleted
  BY NoDocIsNoRecord DEF ChatInv, Tombstone, DeletedStaysDeleted, Chat!DeletedStaysDeleted
<1> QED
  BY <1>1, ChatSteady, PTL

(* The files of a message and its text, beside its record.  Where the        *)
(* picture is being stored: the .part file is whole before it is moved.     *)
HasPicture(record) == record # NoDoc /\ record.att = "stored"

FileFits(post, saving, file, record) ==
    /\ saving.step # "idle" => post.at # "unsent" /\ post.image \in Images
    /\ saving.step = "move" => file = "whole"
    /\ post.at = "unsent" => record = NoDoc
    /\ HasPicture(record) => post.image \in Images /\ chatFiles[post.image] = "whole"

(* What the handler will write, what the cache shows and what the record    *)
(* has is the text of the message, unless it is excused.                    *)
TextFits(post, saving, shown, record) ==
    /\ saving.step # "idle" => saving.text = post.text
    /\ shown \notin {NoDoc, Blank} => shown = post.text
    /\ post.at # "unsent" /\ saving.step = "idle" => record # NoDoc /\ record.text = post.text

FilesTyped ==
    /\ chatTemp \in [Msgs \cup Images -> {"none", "part", "whole"}]
    /\ chatFiles \in [Images -> {"none", "whole"}]

ArchiveInv ==
    /\ FilesTyped
    /\ \A m \in Msgs :
          /\ FileFits(chatChat[m], chatSaving[m], chatTemp[m], chatArchive[m])
          /\ m \in chatExcused \/ TextFits(chatChat[m], chatSaving[m], chatCache[m], chatArchive[m])

(* A step about one message: the others lose a place in the cache at most,  *)
(* and no file that is whole is damaged.                                    *)
OthersKeep(m) ==
    /\ FilesTyped'
    /\ \A i \in Images : chatFiles[i] = "whole" => chatFiles'[i] = "whole"
    /\ \A k \in Msgs \ {m} :
          /\ chatChat'[k] = chatChat[k] /\ chatSaving'[k] = chatSaving[k] /\ chatArchive'[k] = chatArchive[k]
          /\ chatTemp'[k] = chatTemp[k] /\ chatCache'[k] \in {chatCache[k], NoDoc}
          /\ k \in chatExcused => k \in chatExcused'

FilesLand(m) ==
    /\ chatSaving'[m].step # "idle" => chatChat'[m].at # "unsent" /\ chatChat'[m].image \in Images
    /\ chatSaving'[m].step = "move" => chatTemp'[m] = "whole"
    /\ chatChat'[m].at = "unsent" => chatArchive'[m] = NoDoc
    /\ HasPicture(chatArchive'[m]) => chatChat'[m].image \in Images /\ chatFiles'[chatChat'[m].image] = "whole"

TextLands(m) == m \in chatExcused' \/ TextFits(chatChat'[m], chatSaving'[m], chatCache'[m], chatArchive'[m])

LEMMA ArchiveMoves ==
    ASSUME ArchiveInv, NEW m \in Msgs, OthersKeep(m), FilesLand(m), TextLands(m)
    PROVE  ArchiveInv'
<1>1. ASSUME NEW k \in Msgs
      PROVE  /\ FileFits(chatChat[k], chatSaving[k], chatTemp[k], chatArchive[k])'
             /\ k \in chatExcused' \/ TextFits(chatChat[k], chatSaving[k], chatCache[k], chatArchive[k])'
  <2>1. CASE k = m
    <3>1. FileFits(chatChat[k], chatSaving[k], chatTemp[k], chatArchive[k])'
      BY <2>1 DEF FilesLand, FileFits, HasPicture
    <3>2. k \in chatExcused' \/ TextFits(chatChat[k], chatSaving[k], chatCache[k], chatArchive[k])'
      BY <2>1 DEF TextLands, TextFits
    <3> QED
      BY <3>1, <3>2
  <2>2. CASE k # m
    <3>1. /\ chatChat'[k] = chatChat[k] /\ chatSaving'[k] = chatSaving[k] /\ chatArchive'[k] = chatArchive[k]
          /\ chatTemp'[k] = chatTemp[k] /\ chatCache'[k] \in {chatCache[k], NoDoc}
          /\ k \in chatExcused => k \in chatExcused'
      BY <2>2 DEF OthersKeep
    <3>2. /\ FileFits(chatChat[k], chatSaving[k], chatTemp[k], chatArchive[k])
          /\ k \in chatExcused \/ TextFits(chatChat[k], chatSaving[k], chatCache[k], chatArchive[k])
      BY DEF ArchiveInv
    <3>3. FileFits(chatChat[k], chatSaving[k], chatTemp[k], chatArchive[k])'
      BY <3>1, <3>2 DEF FileFits, HasPicture, OthersKeep
    <3>4. k \in chatExcused' \/ TextFits(chatChat[k], chatSaving[k], chatCache[k], chatArchive[k])'
      BY <3>1, <3>2 DEF TextFits
    <3> QED
      BY <3>3, <3>4
  <2> QED
    BY <2>1, <2>2
<1> QED
  BY <1>1 DEF ArchiveInv, OthersKeep

(* What the cache shows after a text was remembered.                        *)
LEMMA CacheShows ==
    ASSUME ChatInv, NEW m \in Msgs, NEW text, Chat!Remember(m, text) \/ Chat!PutIn(m, text)
    PROVE  /\ chatCache'[m] \in {text, NoDoc}
           /\ \A k \in Msgs \ {m} : chatCache'[k] \in {chatCache[k], NoDoc}
<1>1. CASE Chat!Remember(m, text)
  <2>1. PICK kept : chatCache' = [k \in Msgs |-> IF k \notin kept THEN NoDoc ELSE IF k = m THEN text ELSE chatCache[k]]
    BY <1>1 DEF Chat!Remember
  <2> QED
    BY <2>1
<1>2. CASE Chat!PutIn(m, text)
  BY <1>2 DEF Chat!PutIn, ChatInv, ChatTyped
<1> QED
  BY <1>1, <1>2

(* What Recorded, Edited and Buried leave of a record.                      *)
LEMMA RecordsHave ==
    ASSUME ChatInv, NEW m \in Msgs, NEW text \in Chat!Written, NEW att \in {"none", "link", "stored"}
    PROVE  /\ Chat!Recorded(m, text, att) # NoDoc /\ Chat!Recorded(m, text, att).text = text
           /\ HasPicture(Chat!Recorded(m, text, att)) => att = "stored" \/ HasPicture(chatArchive[m])
           /\ Chat!Edited(m, text) # NoDoc /\ Chat!Edited(m, text).text = text
           /\ HasPicture(Chat!Edited(m, text)) => HasPicture(chatArchive[m])
           /\ Chat!Buried(m, text) # NoDoc
           /\ chatArchive[m] # NoDoc => Chat!Buried(m, text).text = chatArchive[m].text
           /\ HasPicture(Chat!Buried(m, text)) => HasPicture(chatArchive[m])
<1>1. /\ Chat!Recorded(m, text, att) \in ArchiveRecs /\ Chat!Edited(m, text) \in ArchiveRecs
      /\ Chat!Buried(m, text) \in ArchiveRecs
  <2>1. PICK record : record = Chat!Recorded(m, text, att)
    OBVIOUS
  <2>2. PICK edited : edited = Chat!Edited(m, text)
    OBVIOUS
  <2>3. PICK buried : buried = Chat!Buried(m, text)
    OBVIOUS
  <2>4. record \in ArchiveRecs /\ edited \in ArchiveRecs /\ buried \in ArchiveRecs
    BY <2>1, <2>2, <2>3, RecordsKept
  <2> QED
    BY <2>1, <2>2, <2>3, <2>4
<1>2. CASE chatArchive[m] = NoDoc
  BY <1>1, <1>2, NoDocIsNoRecord DEF Chat!Recorded, Chat!Edited, Chat!Buried, HasPicture
<1>3. CASE chatArchive[m] # NoDoc
  <2>1. chatArchive[m] \in ArchiveRecs
    BY <1>3 DEF ChatInv, ChatTyped
  <2> QED
    BY ZenonT(40), <1>1, <1>3, <2>1, NoDocIsNoRecord DEF Chat!Recorded, Chat!Edited, Chat!Buried, HasPicture, ArchiveRecs
<1> QED
  BY <1>2, <1>3

(* on_message is done: its record has the text, or the message is excused.  *)
LEMMA EndsFit ==
    ASSUME ChatInv, ArchiveInv, NEW m \in Msgs, NEW text \in Chat!Written,
           NEW att \in {"none", "link", "stored"}, Chat!Ends(m, text, att) \/ Chat!EndsInVain(m),
           FilesTyped', \A i \in Images : chatFiles[i] = "whole" => chatFiles'[i] = "whole",
           \A k \in Msgs \ {m} : chatChat'[k] = chatChat[k] /\ chatTemp'[k] = chatTemp[k] /\ chatCache'[k] \in {chatCache[k], NoDoc},
           chatChat'[m].at # "unsent",
           m \in chatExcused \/ (chatChat'[m].text = text /\ (chatCache'[m] \notin {NoDoc, Blank} => chatCache'[m] = text)),
           att = "stored" \/ HasPicture(chatArchive[m]) => chatChat'[m].image \in Images /\ chatFiles'[chatChat'[m].image] = "whole"
    PROVE  ArchiveInv'
<1>1. /\ chatSaving'[m].step = "idle" /\ \A k \in Msgs \ {m} : chatSaving'[k] = chatSaving[k]
  BY DEF Chat!Idle, Chat!Ends, Chat!EndsInVain, ChatInv, ChatTyped
<1>2. CASE Chat!Ends(m, text, att)
  <2>1. PICK record : record = Chat!Recorded(m, text, att)
    OBVIOUS
  <2>2. record # NoDoc /\ record.text = text /\ (HasPicture(record) => att = "stored" \/ HasPicture(chatArchive[m]))
    BY <2>1, RecordsHave
  <2>3. /\ chatArchive'[m] = record /\ chatExcused' = chatExcused
        /\ \A k \in Msgs \ {m} : chatArchive'[k] = chatArchive[k]
    BY <1>2, <2>1 DEF Chat!Ends, ChatInv, ChatTyped
  <2>4. TextLands(m)
    BY <1>1, <2>2, <2>3 DEF TextFits, TextLands
  <2>5. FilesLand(m)
    BY <1>1, <2>2, <2>3 DEF FilesLand
  <2>6. OthersKeep(m)
    BY <1>1, <2>3 DEF OthersKeep
  <2> QED
    BY <2>4, <2>5, <2>6, ArchiveMoves
<1>3. CASE Chat!EndsInVain(m)
  <2>1. chatArchive' = chatArchive /\ m \in chatExcused' /\ chatExcused \subseteq chatExcused'
    BY <1>3 DEF Chat!EndsInVain
  <2>2. TextLands(m)
    BY <2>1 DEF TextLands
  <2>3. FilesLand(m)
    BY <1>1, <2>1 DEF FilesLand
  <2>4. OthersKeep(m)
    BY <1>1, <2>1 DEF OthersKeep
  <2> QED
    BY <2>2, <2>3, <2>4, ArchiveMoves
<1> QED
  BY <1>2, <1>3

LEMMA PostFits == ASSUME ChatInv, ArchiveInv, NEW m \in Msgs, Chat!Post(m) PROVE ArchiveInv'
<1>1. PICK text \in Chat!Written, image \in Images \cup {NoDoc}, linked \in BOOLEAN :
        /\ chatChat' = [chatChat EXCEPT ![m] = [at |-> "live", text |-> text, image |-> image]]
        /\ \/ m \in chatExcused' /\ chatExcused \subseteq chatExcused' /\ UNCHANGED <<chatCache, chatSaving, chatArchive>>
           \/ /\ Chat!Remember(m, text)
              /\ \/ /\ image # NoDoc
                    /\ chatSaving' = [chatSaving EXCEPT ![m] = [step |-> "fetch", text |-> text]]
                    /\ UNCHANGED <<chatArchive, chatExcused>>
                 \/ Chat!Ends(m, text, IF linked THEN "link" ELSE "none")
                 \/ Chat!EndsInVain(m)
  BY DEF Chat!Post
<1>2. chatChat[m].at = "unsent" /\ UNCHANGED <<chatTemp, chatFiles>>
  BY DEF Chat!Post
<1>3. chatArchive[m] = NoDoc /\ chatSaving[m].step = "idle" /\ ~HasPicture(chatArchive[m])
  BY <1>2 DEF ArchiveInv, FileFits, HasPicture
<1>4. /\ chatChat'[m].at = "live" /\ chatChat'[m].text = text /\ chatChat'[m].image = image
      /\ \A k \in Msgs \ {m} : chatChat'[k] = chatChat[k]
  BY <1>1 DEF ChatInv, ChatTyped
<1>5. FilesTyped' /\ (\A i \in Images : chatFiles[i] = "whole" => chatFiles'[i] = "whole") /\ chatTemp' = chatTemp
  BY <1>2 DEF ArchiveInv, FilesTyped
<1>6. CASE m \in chatExcused' /\ chatExcused \subseteq chatExcused' /\ UNCHANGED <<chatCache, chatSaving, chatArchive>>
  <2>1. OthersKeep(m)
    BY <1>4, <1>5, <1>6 DEF OthersKeep
  <2>2. FilesLand(m)
    BY <1>3, <1>4, <1>6 DEF FilesLand
  <2>3. TextLands(m)
    BY <1>6 DEF TextLands
  <2> QED
    BY <2>1, <2>2, <2>3, ArchiveMoves
<1>7. CASE /\ Chat!Remember(m, text) /\ image # NoDoc
           /\ chatSaving' = [chatSaving EXCEPT ![m] = [step |-> "fetch", text |-> text]]
           /\ UNCHANGED <<chatArchive, chatExcused>>
  <2>1. /\ chatSaving'[m].step = "fetch" /\ chatSaving'[m].text = text
        /\ \A k \in Msgs \ {m} : chatSaving'[k] = chatSaving[k]
    BY <1>7 DEF ChatInv, ChatTyped
  <2>2. chatCache'[m] \in {text, NoDoc} /\ \A k \in Msgs \ {m} : chatCache'[k] \in {chatCache[k], NoDoc}
    BY <1>7, CacheShows
  <2>3. OthersKeep(m)
    BY <1>4, <1>5, <1>7, <2>1, <2>2 DEF OthersKeep
  <2>4. FilesLand(m)
    BY <1>3, <1>4, <1>7, <2>1 DEF FilesLand
  <2>5. TextLands(m)
    BY <1>4, <2>1, <2>2 DEF TextLands, TextFits
  <2> QED
    BY <2>3, <2>4, <2>5, ArchiveMoves
<1>8. CASE Chat!Remember(m, text) /\ (Chat!Ends(m, text, IF linked THEN "link" ELSE "none") \/ Chat!EndsInVain(m))
  <2>1. PICK att \in {"none", "link"} : att = IF linked THEN "link" ELSE "none"
    OBVIOUS
  <2>2. Chat!Ends(m, text, att) \/ Chat!EndsInVain(m)
    BY <1>8, <2>1
  <2>3. chatCache'[m] \in {text, NoDoc} /\ \A k \in Msgs \ {m} : chatCache'[k] \in {chatCache[k], NoDoc}
    BY <1>8, CacheShows
  <2> QED
    BY <1>3, <1>4, <1>5, <2>1, <2>2, <2>3, EndsFit
<1> QED
  BY <1>1, <1>6, <1>7, <1>8

LEMMA StoringFits ==
    ASSUME ChatInv, ArchiveInv, NEW m \in Msgs, Chat!Fetch(m) \/ Chat!Write(m) \/ Chat!Move(m) PROVE ArchiveInv'
<1>1. PICK text \in Chat!Written : text = chatSaving[m].text
  BY DEF ChatInv, ChatTyped, SavingRecs
<1>2. PICK image : image = chatChat[m].image
  OBVIOUS
<1>3. UNCHANGED <<chatChat, chatCache>>
  BY DEF Chat!Fetch, Chat!Write, Chat!Move
<1>4. /\ chatChat[m].at # "unsent" /\ image \in Images
      /\ HasPicture(chatArchive[m]) => chatFiles[image] = "whole"
      /\ chatSaving[m].step = "move" => chatTemp[m] = "whole"
      /\ m \in chatExcused \/ (text = chatChat[m].text /\ (chatCache[m] \notin {NoDoc, Blank} => chatCache[m] = text))
  <2>1. chatSaving[m].step # "idle"
    BY DEF Chat!Fetch, Chat!Write, Chat!Move
  <2>2. /\ FileFits(chatChat[m], chatSaving[m], chatTemp[m], chatArchive[m])
        /\ m \in chatExcused \/ TextFits(chatChat[m], chatSaving[m], chatCache[m], chatArchive[m])
    BY DEF ArchiveInv
  <2> QED
    BY <1>1, <1>2, <2>1, <2>2 DEF FileFits, TextFits
<1>5. /\ FilesTyped' /\ \A i \in Images : chatFiles[i] = "whole" => chatFiles'[i] = "whole"
      /\ \A k \in Msgs \ {m} : chatTemp'[k] = chatTemp[k]
  <2>1. chatTemp' = chatTemp \/ \E p \in {"none", "part", "whole"} : chatTemp' = [chatTemp EXCEPT ![m] = p]
    BY DEF Chat!Fetch, Chat!Write, Chat!Move, Chat!Part
  <2>2. chatFiles' = chatFiles \/ chatFiles' = [chatFiles EXCEPT ![image] = "whole"]
    BY <1>2, <1>4 DEF Chat!Fetch, Chat!Write, Chat!Move, Chat!Part
  <2> QED
    BY <2>1, <2>2 DEF ArchiveInv, FilesTyped
<1>6. ASSUME NEW step \in {"write", "move"}, chatSaving' = [chatSaving EXCEPT ![m].step = step],
             UNCHANGED <<chatArchive, chatExcused, chatFiles>>, step = "move" => chatTemp'[m] = "whole"
      PROVE  ArchiveInv'
  <2>1. /\ chatSaving'[m].step = step /\ chatSaving'[m].text = text
        /\ \A k \in Msgs \ {m} : chatSaving'[k] = chatSaving[k]
    BY <1>1, <1>6 DEF ChatInv, ChatTyped, SavingRecs
  <2>2. OthersKeep(m)
    BY <1>3, <1>5, <1>6, <2>1 DEF OthersKeep
  <2>3. FilesLand(m)
    BY <1>2, <1>3, <1>4, <1>6, <2>1 DEF FilesLand
  <2>4. TextLands(m)
    BY <1>3, <1>4, <1>6, <2>1 DEF TextLands, TextFits
  <2> QED
    BY <2>2, <2>3, <2>4, ArchiveMoves
<1>7. ASSUME NEW att \in {"none", "link", "stored"}, Chat!Ends(m, text, att) \/ Chat!EndsInVain(m),
             att = "stored" => chatFiles'[image] = "whole"
      PROVE  ArchiveInv'
  <2>1. HasPicture(chatArchive[m]) => chatFiles'[image] = "whole"
    BY <1>4, <1>5
  <2> QED
    BY <1>2, <1>3, <1>4, <1>5, <1>7, <2>1, EndsFit
<1>8. CASE Chat!Fetch(m)
  <2>1. \/ chatSaving' = [chatSaving EXCEPT ![m].step = "write"] /\ UNCHANGED <<chatArchive, chatExcused, chatFiles>>
        \/ chatFiles[image] # "none" /\ Chat!Ends(m, text, "stored") /\ chatFiles' = chatFiles
        \/ \E att \in {"link", "none"} : Chat!Ends(m, text, att)
        \/ Chat!EndsInVain(m)
    BY <1>1, <1>2, <1>8 DEF Chat!Fetch
  <2>2. chatFiles[image] \in {"none", "whole"}
    BY <1>4 DEF ArchiveInv, FilesTyped
  <2> QED
    BY <1>6, <1>7, <2>1, <2>2
<1>9. CASE Chat!Write(m)
  <2>1. \/ /\ chatSaving' = [chatSaving EXCEPT ![m].step = "move"] /\ UNCHANGED <<chatArchive, chatExcused, chatFiles>>
           /\ chatTemp' = [chatTemp EXCEPT ![m] = "whole"]
        \/ Chat!Ends(m, text, "link")
    BY <1>1, <1>9 DEF Chat!Write, Chat!Part
  <2>2. chatTemp' = [chatTemp EXCEPT ![m] = "whole"] => chatTemp'[m] = "whole"
    BY DEF ArchiveInv, FilesTyped
  <2> QED
    BY <1>6, <1>7, <2>1, <2>2
<1>10. CASE Chat!Move(m)
  <2>1. Chat!Ends(m, text, "stored") \/ Chat!EndsInVain(m)
    BY <1>1, <1>10 DEF Chat!Move
  <2>2. chatFiles' = [chatFiles EXCEPT ![image] = chatTemp[m]] /\ chatTemp[m] = "whole"
    BY <1>2, <1>4, <1>10 DEF Chat!Move, Chat!Part
  <2>3. chatFiles'[image] = "whole"
    BY <1>4, <2>2 DEF ArchiveInv, FilesTyped
  <2> QED
    BY <1>7, <2>1, <2>3
<1> QED
  BY <1>8, <1>9, <1>10

LEMMA EditFits == ASSUME ChatInv, ArchiveInv, NEW m \in Msgs, Chat!Edit(m) PROVE ArchiveInv'
<1>1. PICK text \in Chat!Written \ {chatChat[m].text}, seen \in BOOLEAN :
        /\ chatChat' = [chatChat EXCEPT ![m].text = text]
        /\ \/ /\ Chat!Refreshed(m, seen, text)
              /\ \/ /\ chatArchive' = [chatArchive EXCEPT ![m] = Chat!Edited(m, text)]
                    /\ chatExcused' = IF Chat!Saving(m) \/ text = Blank THEN chatExcused \cup {m} ELSE chatExcused \ {m}
                 \/ chatExcused' = chatExcused \cup {m} /\ UNCHANGED chatArchive
           \/ /\ ~chatUp \/ text = Chat!Before(m, seen)
              /\ chatExcused' = IF ~chatUp \/ text = Blank THEN chatExcused \cup {m} ELSE chatExcused
              /\ UNCHANGED <<chatCache, chatArchive>>
  BY DEF Chat!Edit
<1>2. UNCHANGED <<chatSaving, chatTemp, chatFiles>> /\ chatChat[m].at = "live" /\ chatChat[m] \in PostRecs
  BY DEF Chat!Edit, Chat!Live, ChatInv, ChatTyped
<1>3. /\ chatChat'[m].at = "live" /\ chatChat'[m].text = text /\ chatChat'[m].image = chatChat[m].image
      /\ \A k \in Msgs \ {m} : chatChat'[k] = chatChat[k] /\ chatArchive'[k] = chatArchive[k]
  BY <1>1, <1>2 DEF ChatInv, ChatTyped, PostRecs
<1>4. chatArchive'[m] = chatArchive[m] \/ chatArchive'[m] = Chat!Edited(m, text)
  BY <1>1 DEF ChatInv, ChatTyped
<1>5. HasPicture(chatArchive'[m]) => HasPicture(chatArchive[m])
  <2>1. PICK record : record = Chat!Edited(m, text)
    OBVIOUS
  <2>2. HasPicture(record) => HasPicture(chatArchive[m])
    BY <2>1, RecordsHave
  <2> QED
    BY <1>4, <2>1, <2>2
<1>6. OthersKeep(m)
  <2>1. \A k \in Msgs \ {m} : chatCache'[k] \in {chatCache[k], NoDoc}
    BY <1>1, CacheShows DEF Chat!Refreshed
  <2>2. \A k \in Msgs \ {m} : k \in chatExcused => k \in chatExcused'
    BY <1>1
  <2> QED
    BY <1>2, <1>3, <2>1, <2>2 DEF OthersKeep, ArchiveInv, FilesTyped
<1>7. FilesLand(m)
  BY <1>2, <1>3, <1>5 DEF FilesLand, ArchiveInv, FileFits
<1>8. TextLands(m)
  <2>1. CASE chatArchive' = [chatArchive EXCEPT ![m] = Chat!Edited(m, text)] /\ Chat!Refreshed(m, seen, text)
             /\ chatExcused' = IF Chat!Saving(m) \/ text = Blank THEN chatExcused \cup {m} ELSE chatExcused \ {m}
    <3>1. CASE ~Chat!Saving(m) /\ text # Blank
      <4>1. chatSaving'[m].step = "idle"
        BY <1>2, <3>1 DEF Chat!Saving
      <4>2. PICK record : record = Chat!Edited(m, text)
        OBVIOUS
      <4>3. chatArchive'[m] = record /\ record # NoDoc /\ record.text = text
        BY <2>1, <4>2, RecordsHave DEF ChatInv, ChatTyped
      <4>4. Chat!Remember(m, text) \/ Chat!PutIn(m, text)
        BY <2>1, <3>1 DEF Chat!Refreshed
      <4>5. chatCache'[m] \in {text, NoDoc}
        BY <4>4, CacheShows
      <4> QED
        BY <1>3, <4>1, <4>3, <4>5 DEF TextFits, TextLands
    <3>2. CASE Chat!Saving(m) \/ text = Blank
      BY <2>1, <3>2 DEF TextLands
    <3> QED
      BY <3>1, <3>2
  <2>2. CASE chatExcused' = chatExcused \cup {m}
    BY <2>2 DEF TextLands
  <2>3. CASE /\ ~chatUp \/ text = Chat!Before(m, seen)
             /\ chatExcused' = IF ~chatUp \/ text = Blank THEN chatExcused \cup {m} ELSE chatExcused
    <3>1. CASE ~chatUp \/ text = Blank
      BY <2>3, <3>1 DEF TextLands
    <3>2. CASE text # Blank /\ text = Chat!Before(m, seen)
      <4>1. Chat!Cached(m) /\ chatCache[m] # Blank /\ chatCache[m] = text
        BY <1>1, <3>2 DEF Chat!Before
      <4>2. m \in chatExcused
        BY <1>1, <4>1 DEF Chat!Cached, ArchiveInv, TextFits
      <4> QED
        BY <2>3, <4>2 DEF TextLands
    <3> QED
      BY <2>3, <3>1, <3>2
  <2> QED
    BY <1>1, <2>1, <2>2, <2>3
<1> QED
  BY <1>6, <1>7, <1>8, ArchiveMoves

LEMMA DeleteFits == ASSUME ChatInv, ArchiveInv, NEW m \in Msgs, Chat!Delete(m) PROVE ArchiveInv'
<1>1. PICK at \in {"deleted", "gone"} : chatChat' = [chatChat EXCEPT ![m].at = at]
  BY DEF Chat!Delete
<1>2. UNCHANGED <<chatSaving, chatTemp, chatFiles, chatExcused>> /\ chatChat[m].at = "live" /\ chatChat[m] \in PostRecs
  BY DEF Chat!Delete, Chat!Live, ChatInv, ChatTyped
<1>3. PICK text \in Chat!Written : text = IF Chat!Cached(m) THEN chatCache[m] ELSE Blank
  BY DEF ChatInv, ChatTyped, Chat!Cached, Chat!Written
<1>4. chatArchive' = chatArchive \/ chatArchive' = [chatArchive EXCEPT ![m] = Chat!Buried(m, text)]
  BY <1>3 DEF Chat!Delete
<1>5. \A k \in Msgs : chatCache'[k] \in {chatCache[k], NoDoc}
  <2>1. Chat!Forget({m}) \/ chatCache' = chatCache
    BY DEF Chat!Delete
  <2> QED
    BY <2>1 DEF Chat!Forget
<1>6. /\ chatChat'[m].at # "unsent" /\ chatChat'[m].text = chatChat[m].text /\ chatChat'[m].image = chatChat[m].image
      /\ \A k \in Msgs \ {m} : chatChat'[k] = chatChat[k] /\ chatArchive'[k] = chatArchive[k]
  BY <1>1, <1>2, <1>4 DEF ChatInv, ChatTyped, PostRecs
<1>7. PICK record : record = chatArchive'[m]
  OBVIOUS
<1>8. /\ HasPicture(record) => HasPicture(chatArchive[m])
      /\ chatArchive[m] # NoDoc => record # NoDoc /\ record.text = chatArchive[m].text
  <2>1. PICK buried : buried = Chat!Buried(m, text)
    OBVIOUS
  <2>2. record = chatArchive[m] \/ record = buried
    BY <1>4, <1>7, <2>1 DEF ChatInv, ChatTyped
  <2>3. /\ HasPicture(buried) => HasPicture(chatArchive[m])
        /\ chatArchive[m] # NoDoc => buried # NoDoc /\ buried.text = chatArchive[m].text
    BY <2>1, RecordsHave
  <2> QED
    BY <2>2, <2>3
<1>9. OthersKeep(m)
  BY <1>2, <1>5, <1>6 DEF OthersKeep, ArchiveInv, FilesTyped
<1>10. FilesLand(m)
  BY <1>2, <1>6, <1>7, <1>8 DEF FilesLand, ArchiveInv, FileFits
<1>11. TextLands(m)
  <2>1. m \in chatExcused \/ TextFits(chatChat[m], chatSaving[m], chatCache[m], chatArchive[m])
    BY DEF ArchiveInv
  <2> QED
    BY <1>2, <1>5, <1>6, <1>7, <1>8, <2>1 DEF TextLands, TextFits
<1> QED
  BY <1>9, <1>10, <1>11, ArchiveMoves

LEMMA PurgeFits == ASSUME ChatInv, ArchiveInv, NEW S \in SUBSET Msgs, Chat!Purge(S) PROVE ArchiveInv'
<1>1. PICK at \in {"purged", "gone"} :
        chatChat' = [m \in Msgs |-> IF m \in S THEN [chatChat[m] EXCEPT !.at = at] ELSE chatChat[m]]
  BY DEF Chat!Purge
<1>2. UNCHANGED <<chatSaving, chatTemp, chatFiles, chatExcused>> /\ chatArchive' \in {chatArchive, Chat!AllBuried(S)}
  BY DEF Chat!Purge
<1>3. \A k \in Msgs : chatCache'[k] \in {chatCache[k], NoDoc}
  BY DEF Chat!Purge, Chat!Forget
<1>4. ASSUME NEW m \in Msgs
      PROVE  /\ FileFits(chatChat[m], chatSaving[m], chatTemp[m], chatArchive[m])'
             /\ m \in chatExcused' \/ TextFits(chatChat[m], chatSaving[m], chatCache[m], chatArchive[m])'
  <2>1. /\ FileFits(chatChat[m], chatSaving[m], chatTemp[m], chatArchive[m])
        /\ m \in chatExcused \/ TextFits(chatChat[m], chatSaving[m], chatCache[m], chatArchive[m])
        /\ m \in S => chatChat[m].at = "live"
    BY DEF ArchiveInv, Chat!Purge, Chat!Live
  <2>2. /\ chatChat'[m].text = chatChat[m].text /\ chatChat'[m].image = chatChat[m].image
        /\ chatChat'[m].at = "unsent" <=> chatChat[m].at = "unsent"
    <3>1. chatChat[m] \in PostRecs
      BY DEF ChatInv, ChatTyped
    <3> QED
      BY <1>1, <2>1, <3>1 DEF PostRecs
  <2>3. \/ chatArchive'[m] = chatArchive[m]
        \/ chatArchive[m] # NoDoc /\ chatArchive'[m] = Chat!Buried(m, Blank)
    BY <1>2 DEF Chat!AllBuried
  <2>4. Blank \in Chat!Written
    BY DEF Chat!Written
  <2>5. PICK buried : buried = Chat!Buried(m, Blank)
    OBVIOUS
  <2>6. /\ HasPicture(buried) => HasPicture(chatArchive[m])
        /\ chatArchive[m] # NoDoc => buried # NoDoc /\ buried.text = chatArchive[m].text
    BY <2>4, <2>5, RecordsHave
  <2>7. PICK record : record = chatArchive'[m]
    OBVIOUS
  <2>8. /\ HasPicture(record) => HasPicture(chatArchive[m])
        /\ chatArchive[m] = NoDoc => record = NoDoc
        /\ chatArchive[m] # NoDoc => record # NoDoc /\ record.text = chatArchive[m].text
    BY <2>3, <2>5, <2>6, <2>7
  <2>9. FileFits(chatChat[m], chatSaving[m], chatTemp[m], chatArchive[m])'
    BY <1>2, <2>1, <2>2, <2>7, <2>8 DEF FileFits, HasPicture
  <2>10. m \in chatExcused' \/ TextFits(chatChat[m], chatSaving[m], chatCache[m], chatArchive[m])'
    BY <1>2, <1>3, <2>1, <2>2, <2>7, <2>8 DEF TextFits
  <2> QED
    BY <2>9, <2>10
<1> QED
  BY <1>2, <1>4 DEF ArchiveInv, FilesTyped

LEMMA ChatCrashFits == ASSUME ChatInv, ArchiveInv, Chat!Crash PROVE ArchiveInv'
<1>1. /\ UNCHANGED <<chatChat, chatTemp, chatFiles, chatArchive>> /\ Chat!Idle.step = "idle"
      /\ \A m \in Msgs : /\ chatSaving'[m] = Chat!Idle /\ chatCache'[m] = NoDoc
                         /\ m \in chatExcused \/ chatSaving[m].step # "idle" => m \in chatExcused'
  BY DEF Chat!Crash, Chat!Idle, Chat!Saving
<1>2. ASSUME NEW m \in Msgs
      PROVE  /\ FileFits(chatChat[m], chatSaving[m], chatTemp[m], chatArchive[m])'
             /\ m \in chatExcused' \/ TextFits(chatChat[m], chatSaving[m], chatCache[m], chatArchive[m])'
  <2>1. /\ FileFits(chatChat[m], chatSaving[m], chatTemp[m], chatArchive[m])
        /\ m \in chatExcused \/ TextFits(chatChat[m], chatSaving[m], chatCache[m], chatArchive[m])
    BY DEF ArchiveInv
  <2>2. FileFits(chatChat[m], chatSaving[m], chatTemp[m], chatArchive[m])'
    BY <1>1, <2>1 DEF FileFits, HasPicture
  <2>3. m \in chatExcused' \/ TextFits(chatChat[m], chatSaving[m], chatCache[m], chatArchive[m])'
    BY <1>1, <2>1 DEF TextFits
  <2> QED
    BY <2>2, <2>3
<1> QED
  BY <1>1, <1>2 DEF ArchiveInv, FilesTyped

LEMMA ArchiveSteady == SafetySpec => []ArchiveInv
<1>1. SafetyInit => ArchiveInv
  <2> SUFFICES ASSUME Chat!Init PROVE ArchiveInv
    BY DEF SafetyInit
  <2>1. FilesTyped
    BY DEF Chat!Init, FilesTyped
  <2>2. ASSUME NEW m \in Msgs
        PROVE  /\ FileFits(chatChat[m], chatSaving[m], chatTemp[m], chatArchive[m])
               /\ TextFits(chatChat[m], chatSaving[m], chatCache[m], chatArchive[m])
    <3>1. /\ chatChat[m].at = "unsent" /\ chatSaving[m].step = "idle" /\ chatArchive[m] = NoDoc /\ chatCache[m] = NoDoc
      BY DEF Chat!Init, Chat!Idle
    <3> QED
      BY <3>1 DEF FileFits, TextFits, HasPicture
  <2> QED
    BY <2>1, <2>2 DEF ArchiveInv
<1>2. ChatInv /\ ArchiveInv /\ [SafetyNext]_SafetyVars => ArchiveInv'
  <2> SUFFICES ASSUME ChatInv, ArchiveInv, [Chat!Next]_chatVars PROVE ArchiveInv'
    BY EachPartSteps
  <2>1. CASE UNCHANGED chatVars
    BY <2>1 DEF chatVars, ArchiveInv, FilesTyped, FileFits, TextFits
  <2>2. CASE Chat!Start
    BY <2>2 DEF Chat!Start, ArchiveInv, FilesTyped, FileFits, TextFits
  <2> QED
    BY <2>1, <2>2, PostFits, StoringFits, EditFits, DeleteFits, PurgeFits, ChatCrashFits DEF Chat!Next
<1> QED
  BY <1>1, <1>2, ChatSteady, PTL DEF SafetySpec

(* A record that says that a picture is stored points to a whole file,      *)
(* whichever downloads of the same picture run side by side (media.py).     *)
THEOREM StoredPicturesAreWhole == SafetySpec => []StoredIsWhole
<1>1. ArchiveInv => StoredIsWhole
  BY DEF ArchiveInv, FileFits, HasPicture, StoredIsWhole, Chat!StoredIsWhole
<1> QED
  BY <1>1, ArchiveSteady, PTL

(* A record that is not excused has the last text of the message, whatever  *)
(* the cache has forgotten (gateway.py, on_raw_message_edit).               *)
THEOREM TextsAreCurrent == SafetySpec => []TextIsCurrent
<1>1. ArchiveInv => TextIsCurrent
  BY DEF ArchiveInv, TextFits, TextIsCurrent, Chat!TextIsCurrent, Chat!Saving
<1> QED
  BY <1>1, ArchiveSteady, PTL

-----------------------------------------------------------------------------
(* The attribution of invites.                                              *)

(* The invites that are or have been.                                       *)
Known == DOMAIN invInvites \cup invGone

(* A picture of the invites as they are or were at an earlier time.         *)
Snapshot(s) ==
    DOMAIN s \subseteq Known
    /\ \A c \in DOMAIN s : s[c] \in Nat /\ (c \in DOMAIN invInvites => s[c] <= invInvites[c])

InvitesTyped ==
    /\ Snapshot(invInvites) /\ Known \subseteq Codes /\ Vanity \in DOMAIN invInvites
    /\ invGone \cap DOMAIN invInvites = {}
    /\ invCredited \in [Codes -> Nat] /\ \A c \in Codes \ Known : invCredited[c] = 0
    /\ invStored # NoDoc => Snapshot(invStored)
    /\ invRefresh = [t \in Invites!Refreshers |-> [pc |-> invRefresh[t].pc, got |-> invRefresh[t].got]]
    /\ invJoins = [j \in Writers |-> [pc |-> invJoins[j].pc, prev |-> invJoins[j].prev, got |-> invJoins[j].got]]
    /\ \A t \in Invites!Refreshers : invRefresh[t].got # NoDoc => Snapshot(invRefresh[t].got)
    /\ invReady \in BOOLEAN /\ invMuddled \in BOOLEAN

(* The handler that holds the lock is the one that compares.                *)
JoinTyped(j, join) ==
    /\ join.pc \in {"idle", "begin", "asked", "answered", "publishing"}
    /\ join.pc \in {"asked", "answered", "publishing"} <=> invLock = j
    /\ join.pc \in {"asked", "answered", "publishing"} => Snapshot(join.prev)
    /\ join.got # NoDoc => Snapshot(join.got)

(* Every use that was credited is in the snapshot.                          *)
Covers(s) == \A c \in DOMAIN invInvites : invCredited[c] <= Invites!Uses(s, c)

NotOlder(s, than) == \A c \in DOMAIN invInvites : Invites!Uses(than, c) <= Invites!Uses(s, c)

(* With the lock free the stored snapshot covers what was credited, or the  *)
(* controller is not ready and the snapshots on their way do.               *)
FreeCovers ==
    \/ invStored # NoDoc /\ Covers(invStored)
    \/ /\ ~invReady
       /\ \A t \in Invites!Refreshers :
             invRefresh[t].pc = "answered" /\ invRefresh[t].got # NoDoc /\ Vanity \in DOMAIN invRefresh[t].got
             => Covers(invRefresh[t].got)

(* The handler compares with a snapshot that covers, and what it stores in  *)
(* the end covers with what it credits itself.                              *)
JoinCovers(join) ==
    /\ join.pc \in {"asked", "answered"} => invStored # NoDoc /\ Covers(join.prev) /\ NotOlder(invStored, join.prev)
    /\ join.pc = "answered" /\ join.got # NoDoc /\ Vanity \in DOMAIN join.got => NotOlder(join.got, join.prev)
    /\ join.pc = "publishing" => join.got # NoDoc /\ (Vanity \in DOMAIN join.got => Covers(join.got))

CreditCovered ==
    /\ Covers(invInvites)
    /\ invLock = NoDoc => FreeCovers
    /\ \A j \in Writers : JoinCovers(invJoins[j])

InvitesInv ==
    /\ InvitesTyped
    /\ \A j \in Writers : JoinTyped(j, invJoins[j])
    /\ ~invMuddled => CreditCovered

LEMMA UsesAre ==
    ASSUME NEW s, Snapshot(s), NEW c
    PROVE  /\ Invites!Uses(s, c) \in Nat
           /\ c \in DOMAIN s => Invites!Uses(s, c) = s[c]
           /\ c \notin Known => Invites!Uses(s, c) = 0
           /\ c \in DOMAIN invInvites /\ InvitesTyped => Invites!Uses(s, c) <= invInvites[c] /\ invInvites[c] \in Nat
  BY DEF Snapshot, Invites!Uses, InvitesTyped

(* The invites change as Discord lets them: uses grow, no code comes back.  *)
InvitesMove ==
    /\ Known \subseteq Known' /\ Known' \subseteq Codes
    /\ DOMAIN invInvites' \cap Known \subseteq DOMAIN invInvites
    /\ \A c \in DOMAIN invInvites' :
          invInvites'[c] \in Nat /\ (c \in DOMAIN invInvites => invInvites[c] <= invInvites'[c])

LEMMA PicturesStay ==
    ASSUME InvitesTyped, InvitesMove, UNCHANGED invCredited, NEW s, Snapshot(s)
    PROVE  /\ Snapshot(s)'
           /\ Covers(s) => Covers(s)'
           /\ \A than : Snapshot(than) /\ NotOlder(s, than) => NotOlder(s, than)'
<1>1. ASSUME NEW c \in DOMAIN invInvites', c \notin DOMAIN invInvites
      PROVE  c \notin Known /\ c \in Codes
  BY <1>1 DEF InvitesMove, Known
<1>2. Snapshot(s)'
  <2>1. ASSUME NEW c \in DOMAIN s
        PROVE  c \in Known' /\ s[c] \in Nat /\ (c \in DOMAIN invInvites' => s[c] <= invInvites'[c])
    <3>1. c \in Known /\ s[c] \in Nat /\ (c \in DOMAIN invInvites => s[c] <= invInvites[c])
      BY DEF Snapshot
    <3>2. c \in DOMAIN invInvites => invInvites[c] \in Nat
      BY DEF InvitesTyped, Snapshot
    <3> QED
      BY <3>1, <3>2 DEF InvitesMove
  <2> QED
    BY <2>1 DEF Snapshot
<1>3. ASSUME Covers(s) PROVE Covers(s)'
  <2>1. ASSUME NEW c \in DOMAIN invInvites' PROVE invCredited[c] <= Invites!Uses(s, c)
    <3>1. CASE c \in DOMAIN invInvites
      BY <1>3, <3>1 DEF Covers
    <3>2. CASE c \notin DOMAIN invInvites
      BY <1>1, <3>2, UsesAre DEF InvitesTyped
    <3> QED
      BY <3>1, <3>2
  <2> QED
    BY <2>1 DEF Covers
<1>4. ASSUME NEW than, Snapshot(than), NotOlder(s, than) PROVE NotOlder(s, than)'
  <2>1. ASSUME NEW c \in DOMAIN invInvites' PROVE Invites!Uses(than, c) <= Invites!Uses(s, c)
    <3>1. CASE c \in DOMAIN invInvites
      BY <1>4, <3>1 DEF NotOlder
    <3>2. CASE c \notin DOMAIN invInvites
      BY <1>1, <1>4, <3>2, UsesAre
    <3> QED
      BY <3>1, <3>2
  <2> QED
    BY <2>1 DEF NotOlder
<1> QED
  BY <1>2, <1>3, <1>4

(* A snapshot that is fetched now covers what was credited and is not older *)
(* than one that was fetched before.                                        *)
LEMMA FetchedNow ==
    ASSUME InvitesTyped, NEW got, NEW failed, Invites!Fetched(got, failed), got # NoDoc
    PROVE  /\ Snapshot(got)
           /\ Vanity \in DOMAIN got => got = invInvites
  BY DEF Invites!Fetched, Invites!Without, InvitesTyped, Snapshot

LEMMA NowIsNotOlder == ASSUME InvitesTyped, NEW s, Snapshot(s) PROVE NotOlder(invInvites, s)
<1>1. ASSUME NEW c \in DOMAIN invInvites PROVE Invites!Uses(s, c) <= Invites!Uses(invInvites, c)
  <2>1. Snapshot(invInvites) /\ Invites!Uses(invInvites, c) = invInvites[c]
    BY UsesAre DEF InvitesTyped
  <2> QED
    BY <2>1, UsesAre
<1> QED
  BY <1>1 DEF NotOlder

(* A snapshot that covers is covered by one that is not older.              *)
LEMMA NewerCovers ==
    ASSUME InvitesTyped, NEW s, NEW than, Snapshot(s), Snapshot(than), Covers(than), NotOlder(s, than)
    PROVE  Covers(s)
<1>1. ASSUME NEW c \in DOMAIN invInvites PROVE invCredited[c] <= Invites!Uses(s, c)
  <2>1. /\ invCredited[c] <= Invites!Uses(than, c) /\ Invites!Uses(than, c) <= Invites!Uses(s, c)
        /\ Invites!Uses(than, c) \in Nat /\ Invites!Uses(s, c) \in Nat
    BY UsesAre DEF Covers, NotOlder
  <2>2. invCredited[c] \in Nat
    BY DEF InvitesTyped, Known
  <2> QED
    BY <2>1, <2>2
<1> QED
  BY <1>1 DEF Covers

LEMMA NotOlderYet ==
    ASSUME InvitesTyped, NEW s, NEW than, NEW first, Snapshot(s), Snapshot(than), Snapshot(first),
           NotOlder(s, than), NotOlder(than, first)
    PROVE  NotOlder(s, first)
<1>1. ASSUME NEW c \in DOMAIN invInvites PROVE Invites!Uses(first, c) <= Invites!Uses(s, c)
  <2>1. /\ Invites!Uses(first, c) <= Invites!Uses(than, c) /\ Invites!Uses(than, c) <= Invites!Uses(s, c)
        /\ Invites!Uses(than, c) \in Nat /\ Invites!Uses(s, c) \in Nat /\ Invites!Uses(first, c) \in Nat
    BY UsesAre DEF NotOlder
  <2> QED
    BY <2>1
<1> QED
  BY <1>1 DEF NotOlder

(* What is stored without muddling is not older and has the vanity invite.  *)
LEMMA StoredUnmuddled ==
    ASSUME InvitesTyped, NEW got, Snapshot(got), Invites!Store(got), ~invMuddled'
    PROVE  /\ ~invMuddled /\ Vanity \in DOMAIN got /\ invStored' = got
           /\ invStored # NoDoc => NotOlder(got, invStored)
<1>1. /\ ~invMuddled /\ Vanity \in DOMAIN got /\ invStored' = got /\ ~Invites!Older(got)
  BY DEF Invites!Store
<1>2. ASSUME invStored # NoDoc, NEW c \in DOMAIN invInvites
      PROVE  Invites!Uses(invStored, c) <= Invites!Uses(got, c)
  <2>1. Snapshot(invStored)
    BY <1>2 DEF InvitesTyped
  <2>2. Invites!Uses(got, c) \in Nat /\ Invites!Uses(invStored, c) \in Nat
    BY <2>1, UsesAre
  <2>3. CASE c \in DOMAIN invStored
    <3>1. Invites!Uses(invStored, c) = invStored[c] /\ invStored[c] \in Nat
      BY <2>1, <2>3, UsesAre DEF Snapshot
    <3>2. ~(Invites!Uses(got, c) < invStored[c])
      BY <1>1, <1>2, <2>3 DEF Invites!Older
    <3> QED
      BY <2>2, <3>1, <3>2
  <2>4. CASE c \notin DOMAIN invStored
    <3>1. Invites!Uses(invStored, c) = 0
      BY <2>4 DEF Invites!Uses
    <3> QED
      BY <2>2, <3>1
  <2> QED
    BY <2>3, <2>4
<1> QED
  BY <1>1, <1>2 DEF NotOlder

JoinsShaped ==
    invJoins = [j \in Writers |-> [pc |-> invJoins[j].pc, prev |-> invJoins[j].prev, got |-> invJoins[j].got]]

RefreshShaped ==
    invRefresh = [t \in Invites!Refreshers |-> [pc |-> invRefresh[t].pc, got |-> invRefresh[t].got]]

LEMMA JoinIs ==
    ASSUME JoinsShaped, NEW j \in Writers, NEW stage, NEW got
    PROVE  /\ [invJoins[j] EXCEPT !.pc = stage] = [pc |-> stage, prev |-> invJoins[j].prev, got |-> invJoins[j].got]
           /\ [invJoins[j] EXCEPT !.pc = stage, !.got = got] = [pc |-> stage, prev |-> invJoins[j].prev, got |-> got]
<1>1. PICK a, b, c : invJoins[j] = [pc |-> a, prev |-> b, got |-> c]
  BY DEF JoinsShaped
<1>2. PICK old : old = [pc |-> a, prev |-> b, got |-> c]
  OBVIOUS
<1>3. [old EXCEPT !.pc = stage] = [pc |-> stage, prev |-> b, got |-> c]
  BY <1>2
<1>4. PICK next : next = [pc |-> stage, prev |-> b, got |-> c]
  OBVIOUS
<1>5. [next EXCEPT !.got = got] = [pc |-> stage, prev |-> b, got |-> got]
  BY <1>4
<1>6. [old EXCEPT !.pc = stage, !.got = got] = [next EXCEPT !.got = got]
  BY <1>3, <1>4
<1>7. old.pc = a /\ old.prev = b /\ old.got = c
  BY <1>2
<1> QED
  BY <1>1, <1>2, <1>3, <1>5, <1>6, <1>7

LEMMA JoinAsks ==
    ASSUME JoinsShaped, NEW j \in Writers, NEW prev
    PROVE  [invJoins[j] EXCEPT !.pc = "asked", !.prev = prev] = [pc |-> "asked", prev |-> prev, got |-> invJoins[j].got]
<1>1. PICK a, b, c : invJoins[j] = [pc |-> a, prev |-> b, got |-> c]
  BY DEF JoinsShaped
<1>2. PICK old : old = [pc |-> a, prev |-> b, got |-> c]
  OBVIOUS
<1>3. PICK next : next = [pc |-> "asked", prev |-> b, got |-> c]
  OBVIOUS
<1>4. [old EXCEPT !.pc = "asked"] = next
  BY <1>2, <1>3
<1>5. [next EXCEPT !.prev = prev] = [pc |-> "asked", prev |-> prev, got |-> c]
  BY <1>3
<1>6. [old EXCEPT !.pc = "asked", !.prev = prev] = [next EXCEPT !.prev = prev]
  BY <1>4
<1> QED
  BY <1>1, <1>2, <1>5, <1>6

LEMMA JoinPut ==
    ASSUME JoinsShaped, NEW j \in Writers, NEW stage, NEW prev, NEW got,
           invJoins' = [invJoins EXCEPT ![j] = [pc |-> stage, prev |-> prev, got |-> got]]
    PROVE  /\ invJoins'[j].pc = stage /\ invJoins'[j].prev = prev /\ invJoins'[j].got = got
           /\ \A i \in Writers : i # j => invJoins'[i] = invJoins[i]
           /\ JoinsShaped'
<1>1. DOMAIN invJoins = Writers
  BY DEF JoinsShaped
<1>2. \A i \in Writers : i # j => invJoins'[i] = invJoins[i]
  BY <1>1
<1>3. invJoins'[j] = [pc |-> stage, prev |-> prev, got |-> got] /\ DOMAIN invJoins' = Writers
  BY <1>1
<1>4. invJoins' = [i \in Writers |-> [pc |-> invJoins'[i].pc, prev |-> invJoins'[i].prev, got |-> invJoins'[i].got]]
  <2>1. ASSUME NEW i \in Writers
        PROVE  invJoins'[i] = [pc |-> invJoins'[i].pc, prev |-> invJoins'[i].prev, got |-> invJoins'[i].got]
    <3>1. CASE i = j
      BY <1>3, <3>1
    <3>2. CASE i # j
      BY <1>2, <3>2 DEF JoinsShaped
    <3> QED
      BY <3>1, <3>2
  <2>2. invJoins' = [i \in Writers |-> invJoins'[i]]
    BY <1>3
  <2> QED
    BY <2>1, <2>2
<1> QED
  BY <1>2, <1>3, <1>4 DEF JoinsShaped

LEMMA JoinPutWhole ==
    ASSUME JoinsShaped, NEW j \in Writers, NEW stage, NEW prev, NEW got, NEW join,
           join = [pc |-> stage, prev |-> prev, got |-> got],
           invJoins' = [invJoins EXCEPT ![j] = join]
    PROVE  /\ invJoins'[j] = join
           /\ \A i \in Writers : i # j => invJoins'[i] = invJoins[i]
           /\ JoinsShaped'
<1>1. invJoins' = [invJoins EXCEPT ![j] = [pc |-> stage, prev |-> prev, got |-> got]]
  OBVIOUS
<1>2. DOMAIN invJoins = Writers
  BY DEF JoinsShaped
<1>3. invJoins'[j] = join /\ \A i \in Writers : i # j => invJoins'[i] = invJoins[i]
  BY <1>2
<1>4. JoinsShaped'
  BY <1>1, JoinPut
<1> QED
  BY <1>3, <1>4

LEMMA RefreshPut ==
    ASSUME RefreshShaped, NEW t \in Invites!Refreshers, NEW stage, NEW got,
           invRefresh' = [invRefresh EXCEPT ![t] = [pc |-> stage, got |-> got]]
    PROVE  /\ invRefresh'[t].pc = stage /\ invRefresh'[t].got = got
           /\ \A u \in Invites!Refreshers : u # t => invRefresh'[u] = invRefresh[u]
           /\ RefreshShaped'
<1>1. DOMAIN invRefresh = Invites!Refreshers
  BY DEF RefreshShaped
<1>2. \A u \in Invites!Refreshers : u # t => invRefresh'[u] = invRefresh[u]
  BY <1>1
<1>3. invRefresh'[t] = [pc |-> stage, got |-> got] /\ DOMAIN invRefresh' = Invites!Refreshers
  BY <1>1
<1>4. invRefresh' = [u \in Invites!Refreshers |-> [pc |-> invRefresh'[u].pc, got |-> invRefresh'[u].got]]
  <2>1. ASSUME NEW u \in Invites!Refreshers
        PROVE  invRefresh'[u] = [pc |-> invRefresh'[u].pc, got |-> invRefresh'[u].got]
    <3>1. CASE u = t
      BY <1>3, <3>1
    <3>2. CASE u # t
      BY <1>2, <3>2 DEF RefreshShaped
    <3> QED
      BY <3>1, <3>2
  <2>2. invRefresh' = [u \in Invites!Refreshers |-> invRefresh'[u]]
    BY <1>3
  <2> QED
    BY <2>1, <2>2
<1> QED
  BY <1>2, <1>3, <1>4 DEF RefreshShaped

(* A handler of which nothing changes but that the invites move on.         *)
LEMMA JoinGoesOn ==
    ASSUME InvitesTyped, InvitesMove, UNCHANGED <<invCredited, invLock, invStored>>,
           NEW j \in Writers, NEW join, JoinTyped(j, join)
    PROVE  /\ JoinTyped(j, join)'
           /\ JoinCovers(join) => JoinCovers(join)'
<1>1. JoinTyped(j, join)'
  BY PicturesStay DEF JoinTyped
<1>2. ASSUME JoinCovers(join) PROVE JoinCovers(join)'
  <2>1. ASSUME join.pc \in {"asked", "answered"}
        PROVE  invStored # NoDoc /\ Covers(join.prev)' /\ NotOlder(invStored, join.prev)'
    <3>1. invStored # NoDoc /\ Covers(join.prev) /\ NotOlder(invStored, join.prev)
      BY <1>2, <2>1 DEF JoinCovers
    <3>2. PICK s : s = invStored
      OBVIOUS
    <3>3. PICK p : p = join.prev
      OBVIOUS
    <3>4. Snapshot(s) /\ Snapshot(p)
      BY <2>1, <3>1, <3>2, <3>3 DEF InvitesTyped, JoinTyped
    <3>5. Covers(p)' /\ NotOlder(s, p)'
      BY <3>1, <3>2, <3>3, <3>4, PicturesStay
    <3> QED
      BY <3>1, <3>2, <3>3, <3>5
  <2>2. ASSUME join.pc = "answered", join.got # NoDoc, Vanity \in DOMAIN join.got PROVE NotOlder(join.got, join.prev)'
    <3>1. NotOlder(join.got, join.prev) /\ Snapshot(join.got) /\ Snapshot(join.prev)
      BY <1>2, <2>2 DEF JoinCovers, JoinTyped
    <3> QED
      BY <3>1, PicturesStay
  <2>3. ASSUME join.pc = "publishing" PROVE join.got # NoDoc /\ (Vanity \in DOMAIN join.got => Covers(join.got)')
    <3>1. join.got # NoDoc /\ (Vanity \in DOMAIN join.got => Covers(join.got)) /\ Snapshot(join.got)
      BY <1>2, <2>3 DEF JoinCovers, JoinTyped
    <3> QED
      BY <3>1, PicturesStay
  <2> QED
    BY <2>1, <2>2, <2>3 DEF JoinCovers
<1> QED
  BY <1>1, <1>2

(* A handler without the lock has no stake in the snapshot.                 *)
LEMMA JoinWithoutLock ==
    ASSUME NEW j \in Writers, NEW join, JoinTyped(j, join), invLock # j, invLock' # j,
           UNCHANGED <<invInvites, invGone>>
    PROVE  JoinTyped(j, join)' /\ JoinCovers(join)'
<1>1. join.pc \notin {"asked", "answered", "publishing"}
  BY DEF JoinTyped
<1> QED
  BY <1>1 DEF JoinTyped, JoinCovers, Snapshot, Known

LEMMA WorldMoves ==
    ASSUME InvitesInv, InvitesMove, Snapshot(invInvites)', Vanity \in DOMAIN invInvites',
           invGone' \cap DOMAIN invInvites' = {},
           UNCHANGED <<invCredited, invStored, invLock, invReady, invRefresh, invMuddled>>,
           \/ UNCHANGED invJoins
           \/ \E j \in Writers : invJoins[j].pc = "idle" /\ invJoins' = [invJoins EXCEPT ![j].pc = "begin"]
    PROVE  InvitesInv'
<1>0. InvitesTyped
  BY DEF InvitesInv
<1>1. /\ JoinsShaped'
      /\ \A j \in Writers : \/ invJoins'[j] = invJoins[j]
                            \/ /\ invJoins[j].pc = "idle" /\ invJoins'[j].pc = "begin"
                               /\ invJoins'[j].prev = invJoins[j].prev /\ invJoins'[j].got = invJoins[j].got
  <2>1. CASE UNCHANGED invJoins
    BY <1>0, <2>1 DEF InvitesTyped, JoinsShaped
  <2>2. ASSUME NEW j \in Writers, invJoins[j].pc = "idle", invJoins' = [invJoins EXCEPT ![j].pc = "begin"]
        PROVE  /\ JoinsShaped'
               /\ invJoins'[j].pc = "begin" /\ invJoins'[j].prev = invJoins[j].prev /\ invJoins'[j].got = invJoins[j].got
               /\ \A i \in Writers : i # j => invJoins'[i] = invJoins[i]
    <3>1. JoinsShaped
      BY <1>0 DEF InvitesTyped, JoinsShaped
    <3>2. PICK p, g : p = invJoins[j].prev /\ g = invJoins[j].got
      OBVIOUS
    <3>3. invJoins' = [invJoins EXCEPT ![j] = [pc |-> "begin", prev |-> p, got |-> g]]
      <4>1. [invJoins[j] EXCEPT !.pc = "begin"] = [pc |-> "begin", prev |-> p, got |-> g]
        BY <3>1, <3>2, JoinIs
      <4> QED
        BY <2>2, <4>1
    <3>4. /\ invJoins'[j].pc = "begin" /\ invJoins'[j].prev = p /\ invJoins'[j].got = g
          /\ \A i \in Writers : i # j => invJoins'[i] = invJoins[i]
          /\ JoinsShaped'
      BY <3>1, <3>3, JoinPut
    <3> QED
      BY <3>2, <3>4
  <2> QED
    BY <2>1, <2>2
<1>2. InvitesTyped'
  <2>1. \A c \in Codes \ Known' : invCredited[c] = 0
    BY <1>0 DEF InvitesTyped, InvitesMove
  <2>2. invStored' # NoDoc => Snapshot(invStored)'
    <3>1. PICK s : s = invStored
      OBVIOUS
    <3>2. s # NoDoc => Snapshot(s)'
      BY <1>0, <3>1, PicturesStay DEF InvitesTyped
    <3> QED
      BY <3>1, <3>2
  <2>3. ASSUME NEW t \in Invites!Refreshers, invRefresh'[t].got # NoDoc PROVE Snapshot(invRefresh[t].got)'
    <3>1. PICK s : s = invRefresh[t].got
      OBVIOUS
    <3>2. Snapshot(s)'
      BY <1>0, <2>3, <3>1, PicturesStay DEF InvitesTyped
    <3> QED
      BY <3>1, <3>2
  <2> QED
    BY <1>0, <1>1, <2>1, <2>2, <2>3 DEF InvitesTyped, InvitesMove, JoinsShaped
<1>3. ASSUME NEW j \in Writers PROVE JoinTyped(j, invJoins[j])' /\ (~invMuddled /\ CreditCovered => JoinCovers(invJoins[j])')
  <2>1. PICK old : old = invJoins[j]
    OBVIOUS
  <2>2. PICK new : new = invJoins'[j]
    OBVIOUS
  <2>3. JoinTyped(j, old) /\ (~invMuddled /\ CreditCovered => JoinCovers(old))
    BY <2>1 DEF InvitesInv, CreditCovered
  <2>4. JoinTyped(j, old)' /\ (~invMuddled /\ CreditCovered => JoinCovers(old)')
    BY <1>0, <2>3, JoinGoesOn
  <2>5. JoinTyped(j, new)' /\ (~invMuddled /\ CreditCovered => JoinCovers(new)')
    <3>1. CASE new = old
      BY <2>4, <3>1
    <3>2. CASE old.pc = "idle" /\ new.pc = "begin" /\ new.prev = old.prev /\ new.got = old.got
      BY <2>4, <3>2 DEF JoinTyped, JoinCovers
    <3> QED
      BY <1>1, <2>1, <2>2, <3>1, <3>2
  <2> QED
    BY <2>2, <2>5
<1>4. ASSUME ~invMuddled PROVE CreditCovered'
  <2>0. CreditCovered
    BY <1>4 DEF InvitesInv
  <2>1. Covers(invInvites)'
    <3>1. PICK now : now = invInvites'
      OBVIOUS
    <3>2. ASSUME NEW c \in DOMAIN invInvites' PROVE invCredited[c] <= Invites!Uses(now, c)
      <4>1. Invites!Uses(now, c) = invInvites'[c] /\ invInvites'[c] \in Nat
        BY <3>1, <3>2 DEF Invites!Uses, InvitesMove
      <4>2. CASE c \in DOMAIN invInvites
        <5>1. invCredited[c] <= Invites!Uses(invInvites, c) /\ Invites!Uses(invInvites, c) = invInvites[c]
          BY <2>0, <4>2 DEF CreditCovered, Covers, Invites!Uses
        <5>2. invInvites[c] <= invInvites'[c] /\ invInvites[c] \in Nat /\ invCredited[c] \in Nat
          BY <1>0, <3>2, <4>2 DEF InvitesMove, InvitesTyped, Snapshot, Known
        <5> QED
          BY <4>1, <5>1, <5>2
      <4>3. CASE c \notin DOMAIN invInvites
        <5>1. c \in Codes \ Known
          BY <3>2, <4>3 DEF InvitesMove, Known
        <5> QED
          BY <1>0, <4>1, <5>1 DEF InvitesTyped
      <4> QED
        BY <4>2, <4>3
    <3> QED
      BY <3>1, <3>2 DEF Covers
  <2>2. ASSUME invLock = NoDoc PROVE FreeCovers'
    <3>1. FreeCovers
      BY <2>0, <2>2 DEF CreditCovered
    <3>2. ASSUME invStored # NoDoc, Covers(invStored) PROVE Covers(invStored)'
      <4>1. PICK s : s = invStored
        OBVIOUS
      <4>2. Covers(s)'
        BY <1>0, <3>2, <4>1, PicturesStay DEF InvitesTyped
      <4> QED
        BY <4>1, <4>2
    <3>3. ASSUME NEW t \in Invites!Refreshers, invRefresh[t].got # NoDoc, Covers(invRefresh[t].got)
          PROVE  Covers(invRefresh[t].got)'
      <4>1. PICK s : s = invRefresh[t].got
        OBVIOUS
      <4>2. Covers(s)'
        BY <1>0, <3>3, <4>1, PicturesStay DEF InvitesTyped
      <4> QED
        BY <4>1, <4>2
    <3> QED
      BY <3>1, <3>2, <3>3 DEF FreeCovers
  <2> QED
    BY <1>3, <1>4, <2>0, <2>1, <2>2 DEF CreditCovered
<1> QED
  BY <1>2, <1>3, <1>4 DEF InvitesInv

(* A refresh asks, gets its answer, or is done without storing one.         *)
LEMMA RefreshTurns ==
    ASSUME InvitesInv, NEW t \in Invites!Refreshers, NEW stage, NEW got,
           invRefresh' = [invRefresh EXCEPT ![t] = [pc |-> stage, got |-> got]],
           UNCHANGED <<invInvites, invGone, invCredited, invJoins, invLock, invStored, invMuddled>>,
           invReady' \in BOOLEAN, invReady' => invReady,
           got # NoDoc => Snapshot(got),
           stage = "answered" /\ got # NoDoc /\ Vanity \in DOMAIN got => got = invInvites
    PROVE  InvitesInv'
<1>1. /\ invRefresh'[t].pc = stage /\ invRefresh'[t].got = got
      /\ \A u \in Invites!Refreshers : u # t => invRefresh'[u] = invRefresh[u]
      /\ RefreshShaped'
  BY RefreshPut DEF InvitesInv, InvitesTyped, RefreshShaped
<1>2. \A s : Snapshot(s)' <=> Snapshot(s)
  BY DEF Snapshot, Known
<1>3. ASSUME NEW u \in Invites!Refreshers, invRefresh'[u].got # NoDoc PROVE Snapshot(invRefresh[u].got)'
  <2>1. PICK s : s = invRefresh'[u].got
    OBVIOUS
  <2>2. Snapshot(s)
    BY <1>1, <1>3, <2>1 DEF InvitesInv, InvitesTyped
  <2> QED
    BY <1>2, <2>1, <2>2
<1>4. InvitesTyped'
  <2>1. Snapshot(invInvites)' /\ (invStored' # NoDoc => Snapshot(invStored)')
    BY DEF InvitesInv, InvitesTyped, Snapshot, Known
  <2> QED
    BY <1>1, <1>3, <2>1 DEF InvitesInv, InvitesTyped, RefreshShaped, Known
<1>5. ASSUME NEW j \in Writers PROVE JoinTyped(j, invJoins[j])'
  BY DEF InvitesInv, JoinTyped, Snapshot, Known
<1>6. ASSUME ~invMuddled PROVE CreditCovered'
  <2>0. CreditCovered
    BY <1>6 DEF InvitesInv
  <2>1. Covers(invInvites)' /\ \A j \in Writers : JoinCovers(invJoins[j])'
    BY <2>0 DEF CreditCovered, Covers, JoinCovers, NotOlder
  <2>2. ASSUME invLock = NoDoc PROVE FreeCovers'
    <3>1. FreeCovers
      BY <2>0, <2>2 DEF CreditCovered
    <3>2. CASE invStored # NoDoc /\ Covers(invStored)
      BY <3>2 DEF FreeCovers, Covers
    <3>3. CASE ~(invStored # NoDoc /\ Covers(invStored))
      <4>1. ASSUME NEW u \in Invites!Refreshers, invRefresh'[u].pc = "answered", invRefresh'[u].got # NoDoc,
                   Vanity \in DOMAIN invRefresh'[u].got
            PROVE  Covers(invRefresh[u].got)'
        <5>1. PICK s : s = invRefresh'[u].got
          OBVIOUS
        <5>2. Covers(s)
          <6>1. CASE u = t
            BY <1>1, <2>0, <4>1, <5>1, <6>1 DEF CreditCovered
          <6>2. CASE u # t
            BY <1>1, <3>1, <3>3, <4>1, <5>1, <6>2 DEF FreeCovers
          <6> QED
            BY <6>1, <6>2
        <5>3. Covers(s)'
          BY <5>2 DEF Covers
        <5> QED
          BY <5>1, <5>3
      <4>2. ~invReady'
        BY <3>1, <3>3 DEF FreeCovers
      <4> QED
        BY <4>1, <4>2 DEF FreeCovers
    <3> QED
      BY <3>2, <3>3
  <2> QED
    BY <2>1, <2>2 DEF CreditCovered
<1> QED
  BY <1>4, <1>5, <1>6 DEF InvitesInv

(* A refresh stores its answer.                                             *)
LEMMA RefreshStored ==
    ASSUME InvitesInv, NEW t \in Invites!Refreshers, NEW got,
           invRefresh[t].pc = "answered", got = invRefresh[t].got, got # NoDoc,
           invRefresh' = [invRefresh EXCEPT ![t] = [pc |-> "idle", got |-> NoDoc]],
           Invites!Store(got), invReady' = TRUE,
           UNCHANGED <<invInvites, invGone, invCredited, invJoins, invLock>>
    PROVE  InvitesInv'
<1>0. InvitesTyped /\ Snapshot(got)
  BY DEF InvitesInv, InvitesTyped
<1>1. /\ invRefresh'[t].pc = "idle" /\ invRefresh'[t].got = NoDoc
      /\ \A u \in Invites!Refreshers : u # t => invRefresh'[u] = invRefresh[u]
      /\ RefreshShaped'
  BY <1>0, RefreshPut DEF InvitesTyped, RefreshShaped
<1>2. \A s : Snapshot(s)' <=> Snapshot(s)
  BY DEF Snapshot, Known
<1>3. ASSUME NEW u \in Invites!Refreshers, invRefresh'[u].got # NoDoc PROVE Snapshot(invRefresh[u].got)'
  <2>1. PICK s : s = invRefresh'[u].got
    OBVIOUS
  <2>2. Snapshot(s)
    BY <1>0, <1>1, <1>3, <2>1 DEF InvitesTyped
  <2> QED
    BY <1>2, <2>1, <2>2
<1>4. InvitesTyped'
  <2>1. Snapshot(invInvites)'
    BY <1>0 DEF InvitesTyped, Snapshot, Known
  <2>2. Snapshot(invStored)'
    BY <1>0 DEF Snapshot, Known, Invites!Store
  <2>3. invMuddled' \in BOOLEAN
    BY DEF Invites!Store
  <2> QED
    BY <1>0, <1>1, <1>3, <2>1, <2>2, <2>3 DEF InvitesTyped, RefreshShaped, Known
<1>5. ASSUME NEW j \in Writers PROVE JoinTyped(j, invJoins[j])'
  BY DEF InvitesInv, JoinTyped, Snapshot, Known
<1>6. ASSUME ~invMuddled' PROVE CreditCovered'
  <2>1. /\ ~invMuddled /\ Vanity \in DOMAIN got /\ invStored' = got
        /\ invStored # NoDoc => NotOlder(got, invStored)
    BY <1>0, <1>6, StoredUnmuddled
  <2>2. CreditCovered
    BY <2>1 DEF InvitesInv
  <2>3. Covers(invInvites)'
    BY <2>2 DEF CreditCovered, Covers
  <2>4. invLock = NoDoc => Covers(got)
    <3> SUFFICES ASSUME invLock = NoDoc PROVE Covers(got)
      OBVIOUS
    <3>1. FreeCovers
      BY <2>2 DEF CreditCovered
    <3>2. CASE invStored # NoDoc /\ Covers(invStored)
      BY <1>0, <2>1, <3>2, NewerCovers DEF InvitesTyped
    <3>3. CASE ~(invStored # NoDoc /\ Covers(invStored))
      BY <2>1, <3>1, <3>3 DEF FreeCovers
    <3> QED
      BY <3>2, <3>3
  <2>5. invLock = NoDoc => FreeCovers'
    BY <2>1, <2>4 DEF FreeCovers, Covers
  <2>6. ASSUME NEW j \in Writers PROVE JoinCovers(invJoins[j])'
    <3>1. PICK join : join = invJoins[j]
      OBVIOUS
    <3>2. JoinCovers(join) /\ JoinTyped(j, join)
      BY <2>2, <3>1 DEF CreditCovered, InvitesInv
    <3>3. ASSUME join.pc \in {"asked", "answered"} PROVE Covers(join.prev) /\ NotOlder(got, join.prev)
      <4>1. invStored # NoDoc /\ Covers(join.prev) /\ NotOlder(invStored, join.prev) /\ Snapshot(join.prev)
        BY <3>2, <3>3 DEF JoinCovers, JoinTyped
      <4> QED
        BY <1>0, <2>1, <4>1, NotOlderYet DEF InvitesTyped
    <3>4. JoinCovers(join)'
      BY <2>1, <3>2, <3>3 DEF JoinCovers, Covers, NotOlder
    <3> QED
      BY <3>1, <3>4
  <2> QED
    BY <2>3, <2>5, <2>6 DEF CreditCovered
<1> QED
  BY <1>4, <1>5, <1>6 DEF InvitesInv

(* A step of a handler that holds the lock, takes it or does without it.    *)
LEMMA JoinTurns ==
    ASSUME InvitesInv, NEW j \in Writers, NEW stage, NEW prev, NEW got, NEW join,
           join = [pc |-> stage, prev |-> prev, got |-> got],
           invJoins' = [invJoins EXCEPT ![j] = join],
           invLock \in {NoDoc, j}, invLock' \in {NoDoc, j},
           UNCHANGED <<invInvites, invGone, invRefresh>>,
           invCredited' \in [Codes -> Nat], \A c \in Codes \ Known : invCredited'[c] = 0,
           invStored' # NoDoc => Snapshot(invStored)', invReady' \in BOOLEAN, invMuddled' \in BOOLEAN,
           JoinTyped(j, join)',
           ~invMuddled' => /\ ~invMuddled
                           /\ Covers(invInvites)'
                           /\ invLock' = NoDoc => FreeCovers'
                           /\ JoinCovers(join)'
    PROVE  InvitesInv'
<1>0. InvitesTyped /\ \A i \in Writers : JoinTyped(i, invJoins[i])
  BY DEF InvitesInv
<1>1. /\ invJoins'[j] = join
      /\ \A i \in Writers : i # j => invJoins'[i] = invJoins[i]
      /\ JoinsShaped'
  <2>1. JoinsShaped /\ DOMAIN invJoins = Writers
    BY <1>0 DEF InvitesTyped, JoinsShaped
  <2> QED
    BY <2>1, JoinPutWhole
<1>2. InvitesTyped'
  <2>1. Snapshot(invInvites)' /\ \A u \in Invites!Refreshers : invRefresh'[u].got # NoDoc => Snapshot(invRefresh[u].got)'
    BY <1>0 DEF InvitesTyped, Snapshot, Known
  <2> QED
    BY <1>0, <1>1, <2>1 DEF InvitesTyped, JoinsShaped, Known
<1>3. ASSUME NEW i \in Writers PROVE JoinTyped(i, invJoins[i])' /\ (~invMuddled' => JoinCovers(invJoins[i])')
  <2>1. CASE i = j
    BY <1>1, <2>1
  <2>2. CASE i # j
    <3>1. PICK other : other = invJoins[i] /\ other = invJoins'[i]
      BY <1>1, <2>2
    <3>2. i # NoDoc
      BY PartsAssumption
    <3>3. JoinTyped(i, other)' /\ JoinCovers(other)'
      BY <1>0, <2>2, <3>1, <3>2, JoinWithoutLock
    <3> QED
      BY <3>1, <3>3
  <2> QED
    BY <2>1, <2>2
<1>4. ~invMuddled' => CreditCovered'
  BY <1>3 DEF CreditCovered
<1> QED
  BY <1>2, <1>3, <1>4 DEF InvitesInv
(* Only what is not in question changes.                                    *)
LEMMA InvitesRest ==
    ASSUME InvitesInv, UNCHANGED <<invInvites, invGone, invCredited, invJoins, invLock, invStored, invRefresh, invReady, invMuddled>>
    PROVE  InvitesInv'
<1>1. InvitesTyped'
  BY DEF InvitesInv, InvitesTyped, Snapshot, Known
<1>2. \A j \in Writers : JoinTyped(j, invJoins[j])'
  BY DEF InvitesInv, JoinTyped, Snapshot, Known
<1>3. ~invMuddled' => CreditCovered'
  BY DEF InvitesInv, CreditCovered, Covers, FreeCovers, JoinCovers, NotOlder
<1> QED
  BY <1>1, <1>2, <1>3 DEF InvitesInv

LEMMA MemberJoinsKeeps == ASSUME InvitesInv, Invites!MemberJoins PROVE InvitesInv'
<1>0. InvitesTyped
  BY DEF InvitesInv
<1>1. PICK c \in DOMAIN invInvites \cup {NoDoc} :
          invInvites' = IF c = NoDoc THEN invInvites ELSE [invInvites EXCEPT ![c] = @ + 1]
  BY DEF Invites!MemberJoins
<1>2. UNCHANGED <<invLock, invCredited, invReady, invStored, invRefresh, invGone, invMuddled>>
  BY DEF Invites!MemberJoins
<1>3. \A d \in DOMAIN invInvites : invInvites[d] \in Nat
  BY <1>0 DEF InvitesTyped, Snapshot
<1>4. /\ DOMAIN invInvites' = DOMAIN invInvites
      /\ \A d \in DOMAIN invInvites : invInvites'[d] \in Nat /\ invInvites[d] <= invInvites'[d]
  <2>1. CASE c = NoDoc
    BY <1>1, <1>3, <2>1
  <2>2. CASE c # NoDoc
    <3>1. c \in DOMAIN invInvites /\ invInvites' = [invInvites EXCEPT ![c] = @ + 1]
      BY <1>1, <2>2
    <3> QED
      BY <1>3, <3>1
  <2> QED
    BY <2>1, <2>2
<1>5. Snapshot(invInvites)' /\ InvitesMove
  BY <1>0, <1>2, <1>4 DEF Snapshot, InvitesMove, Known, InvitesTyped
<1>6. Vanity \in DOMAIN invInvites' /\ invGone' \cap DOMAIN invInvites' = {}
  BY <1>0, <1>2, <1>4 DEF InvitesTyped
<1>7. \/ UNCHANGED invJoins
      \/ \E j \in Writers : invJoins[j].pc = "idle" /\ invJoins' = [invJoins EXCEPT ![j].pc = "begin"]
  BY DEF Invites!MemberJoins
<1> QED
  BY <1>2, <1>5, <1>6, <1>7, WorldMoves

LEMMA InviteCreatedKeeps == ASSUME InvitesInv, Invites!InviteCreated PROVE InvitesInv'
<1>0. InvitesTyped
  BY DEF InvitesInv
<1>1. PICK c \in Codes \ Known :
          invInvites' = [d \in DOMAIN invInvites \cup {c} |-> IF d = c THEN 0 ELSE invInvites[d]]
  BY DEF Invites!InviteCreated, Known
<1>2. UNCHANGED <<invJoins, invLock, invCredited, invReady, invStored, invRefresh, invGone, invMuddled>>
  BY DEF Invites!InviteCreated, Invites!Happens
<1>3. \A d \in DOMAIN invInvites : invInvites[d] \in Nat
  BY <1>0 DEF InvitesTyped, Snapshot
<1>4. /\ DOMAIN invInvites' = DOMAIN invInvites \cup {c} /\ c \notin Known
      /\ \A d \in DOMAIN invInvites' : /\ invInvites'[d] \in Nat
                                       /\ d \in DOMAIN invInvites => invInvites[d] <= invInvites'[d]
  BY <1>1, <1>3 DEF Known
<1>5. Snapshot(invInvites)' /\ InvitesMove
  BY <1>0, <1>1, <1>2, <1>4 DEF Snapshot, InvitesMove, Known, InvitesTyped
<1>6. Vanity \in DOMAIN invInvites' /\ invGone' \cap DOMAIN invInvites' = {}
  BY <1>0, <1>2, <1>4 DEF InvitesTyped, Known
<1> QED
  BY <1>2, <1>5, <1>6, WorldMoves

LEMMA InviteDeletedKeeps == ASSUME InvitesInv, Invites!InviteDeleted PROVE InvitesInv'
<1>0. InvitesTyped
  BY DEF InvitesInv
<1>1. PICK c \in DOMAIN invInvites \ {Vanity} :
          invInvites' = Invites!Without(invInvites, c) /\ invGone' = invGone \cup {c}
  BY DEF Invites!InviteDeleted
<1>2. UNCHANGED <<invJoins, invLock, invCredited, invReady, invStored, invRefresh, invMuddled>>
  BY DEF Invites!InviteDeleted, Invites!Happens
<1>3. \A d \in DOMAIN invInvites : invInvites[d] \in Nat
  BY <1>0 DEF InvitesTyped, Snapshot
<1>4. /\ DOMAIN invInvites' = DOMAIN invInvites \ {c}
      /\ \A d \in DOMAIN invInvites' : invInvites'[d] = invInvites[d]
  BY <1>1 DEF Invites!Without
<1>5. Snapshot(invInvites)' /\ InvitesMove
  BY <1>0, <1>1, <1>3, <1>4 DEF Snapshot, InvitesMove, Known, InvitesTyped
<1>6. Vanity \in DOMAIN invInvites' /\ invGone' \cap DOMAIN invInvites' = {}
  BY <1>0, <1>1, <1>4 DEF InvitesTyped
<1> QED
  BY <1>2, <1>5, <1>6, WorldMoves

(* The loop, an event and the start ask for a snapshot.                     *)
LEMMA AsksKeep ==
    ASSUME InvitesInv, \/ Invites!RefreshAsks \/ Invites!HandleEvent \/ Invites!Start
    PROVE  InvitesInv'
<1>1. PICK t \in Invites!Refreshers : invRefresh' = [invRefresh EXCEPT ![t] = [pc |-> "asked", got |-> NoDoc]]
  BY DEF Invites!RefreshAsks, Invites!HandleEvent, Invites!Start, Invites!Refreshers
<1>2. UNCHANGED <<invInvites, invGone, invCredited, invJoins, invLock, invStored, invMuddled, invReady>>
  BY DEF Invites!RefreshAsks, Invites!HandleEvent, Invites!Start
<1>3. invReady' \in BOOLEAN /\ (invReady' => invReady)
  BY <1>2 DEF InvitesInv, InvitesTyped
<1> QED
  BY <1>1, <1>2, <1>3, RefreshTurns

LEMMA RefreshAnsweredKeeps ==
    ASSUME InvitesInv, NEW t \in Invites!Refreshers, Invites!RefreshAnswered(t) PROVE InvitesInv'
<1>1. PICK got, failed : /\ Invites!Fetched(got, failed)
                         /\ invRefresh' = [invRefresh EXCEPT ![t] = [pc |-> "answered", got |-> got]]
  BY DEF Invites!RefreshAnswered
<1>2. UNCHANGED <<invInvites, invGone, invCredited, invJoins, invLock, invStored, invMuddled, invReady>>
  BY DEF Invites!RefreshAnswered
<1>3. InvitesTyped /\ invReady' \in BOOLEAN /\ (invReady' => invReady)
  BY <1>2 DEF InvitesInv, InvitesTyped
<1>4. got # NoDoc => Snapshot(got) /\ (Vanity \in DOMAIN got => got = invInvites)
  BY <1>1, <1>3, FetchedNow
<1> QED
  BY <1>1, <1>2, <1>3, <1>4, RefreshTurns

LEMMA RefreshStoresKeeps ==
    ASSUME InvitesInv, NEW t \in Invites!Refreshers, Invites!RefreshStores(t) PROVE InvitesInv'
<1>1. PICK got : got = invRefresh[t].got
  OBVIOUS
<1>2. /\ invRefresh' = [invRefresh EXCEPT ![t] = [pc |-> "idle", got |-> NoDoc]]
      /\ invRefresh[t].pc = "answered"
      /\ UNCHANGED <<invInvites, invGone, invCredited, invJoins, invLock>>
  BY DEF Invites!RefreshStores, Invites!Idle
<1>3. CASE got = NoDoc
  <2>1. invReady' = FALSE /\ UNCHANGED <<invStored, invMuddled>>
    BY <1>1, <1>3 DEF Invites!RefreshStores
  <2>2. invReady' \in BOOLEAN /\ (invReady' => invReady)
    BY <2>1
  <2> QED
    BY <1>2, <2>1, <2>2, RefreshTurns
<1>4. CASE got # NoDoc
  <2>1. Invites!Store(got) /\ invReady' = TRUE
    BY <1>1, <1>4 DEF Invites!RefreshStores
  <2> QED
    BY <1>1, <1>2, <1>4, <2>1, RefreshStored
<1> QED
  BY <1>3, <1>4
(* What is exact is the one code whose uses increased.                      *)
LEMMA AttributedIs ==
    ASSUME NEW prev, NEW got
    PROVE  Invites!Attributed(prev, got) \in Invites!Increased(prev, got) \cup {NoDoc}
<1>1. PICK S : S = Invites!Increased(prev, got)
  OBVIOUS
<1>2. Invites!Cardinality({}) = Cardinality({})
  BY DEF Invites!Cardinality, Cardinality, Invites!IsFiniteSet, IsFiniteSet
<1>3. Invites!Cardinality(S) = 1 => S # {}
  BY <1>2, FS_EmptySet
<1>4. S # {} => (CHOOSE c \in S : TRUE) \in S
  OBVIOUS
<1> QED
  BY <1>1, <1>3, <1>4 DEF Invites!Attributed

LEMMA FreeCoversRests ==
    ASSUME UNCHANGED <<invInvites, invCredited, invStored, invReady, invRefresh>>, FreeCovers PROVE FreeCovers'
  BY DEF FreeCovers, Covers

(* A handler that is done without a snapshot.                               *)
LEMMA JoinDone ==
    ASSUME InvitesInv, NEW j \in Writers, invJoins' = [invJoins EXCEPT ![j] = Invites!NoJoin],
           invLock \in {NoDoc, j}, invLock' = NoDoc,
           UNCHANGED <<invInvites, invGone, invRefresh, invCredited, invReady>>,
           invStored' # NoDoc => Snapshot(invStored)', invMuddled' \in BOOLEAN,
           ~invMuddled' => ~invMuddled /\ FreeCovers'
    PROVE  InvitesInv'
<1>1. PICK join : join = Invites!NoJoin /\ join = [pc |-> "idle", prev |-> NoDoc, got |-> NoDoc]
  BY DEF Invites!NoJoin
<1>2. invJoins' = [invJoins EXCEPT ![j] = join] /\ invLock' \in {NoDoc, j}
  BY <1>1
<1>3. JoinTyped(j, join)' /\ JoinCovers(join)'
  <2>1. join.pc = "idle" /\ join.got = NoDoc
    BY <1>1
  <2>2. j # NoDoc
    BY PartsAssumption
  <2> QED
    BY <2>1, <2>2 DEF JoinTyped, JoinCovers
<1>4. InvitesTyped
  BY DEF InvitesInv
<1>5. /\ invCredited' \in [Codes -> Nat] /\ \A c \in Codes \ Known : invCredited'[c] = 0
      /\ invReady' \in BOOLEAN
  BY <1>4 DEF InvitesTyped
<1>6. ~invMuddled' => Covers(invInvites)'
  <2> SUFFICES ASSUME ~invMuddled' PROVE Covers(invInvites)'
    OBVIOUS
  <2>1. Covers(invInvites)
    BY DEF InvitesInv, CreditCovered
  <2> QED
    BY <2>1 DEF Covers
<1> QED
  BY <1>1, <1>2, <1>3, <1>5, <1>6, JoinTurns

LEMMA JoinBeginKeeps == ASSUME InvitesInv, NEW j \in Writers, Invites!JoinBegin(j) PROVE InvitesInv'
<1>0. InvitesTyped /\ JoinTyped(j, invJoins[j])
  BY DEF InvitesInv
<1>1. /\ invJoins[j].pc = "begin" /\ invLock = NoDoc /\ j # NoDoc
      /\ UNCHANGED <<invInvites, invGone, invRefresh, invStored, invReady, invMuddled>>
  BY PartsAssumption DEF Invites!JoinBegin
<1>2. invStored' # NoDoc => Snapshot(invStored)'
  BY <1>0, <1>1 DEF InvitesTyped, Snapshot, Known
<1>3. ASSUME Invites!Seeded PROVE InvitesInv'
  <2>1. PICK got, prev : got = invJoins[j].got /\ prev = invStored
    OBVIOUS
  <2>2. PICK join : join = [pc |-> "asked", prev |-> prev, got |-> got]
    OBVIOUS
  <2>3. invJoins' = [invJoins EXCEPT ![j] = join] /\ invLock' = j /\ UNCHANGED invCredited
    <3>1. invJoins' = [invJoins EXCEPT ![j].pc = "asked", ![j].prev = invStored] /\ invLock' = j /\ UNCHANGED invCredited
      BY <1>3 DEF Invites!JoinBegin
    <3>2. [invJoins[j] EXCEPT !.pc = "asked", !.prev = prev] = join
      <4>1. JoinsShaped
        BY <1>0 DEF InvitesTyped, JoinsShaped
      <4>2. [invJoins[j] EXCEPT !.pc = "asked", !.prev = prev] = [pc |-> "asked", prev |-> prev, got |-> invJoins[j].got]
        BY <4>1, JoinAsks
      <4> QED
        BY <2>1, <2>2, <4>2
    <3>3. invJoins' = [invJoins EXCEPT ![j] = [invJoins[j] EXCEPT !.pc = "asked", !.prev = prev]]
      BY <1>0, <2>1, <3>1 DEF InvitesTyped
    <3> QED
      BY <3>1, <3>2, <3>3
  <2>4. join.pc = "asked" /\ join.prev = prev /\ join.got = got
    BY <2>2
  <2>5. Snapshot(prev) /\ (got # NoDoc => Snapshot(got)) /\ invReady /\ invStored # NoDoc
    BY <1>0, <1>3, <2>1 DEF InvitesTyped, JoinTyped, Invites!Seeded
  <2>6. JoinTyped(j, join)'
    BY <1>1, <2>3, <2>4, <2>5 DEF JoinTyped, Snapshot, Known
  <2>7. ASSUME ~invMuddled' PROVE ~invMuddled /\ Covers(invInvites)' /\ JoinCovers(join)'
    <3>1. ~invMuddled /\ Covers(invInvites) /\ Covers(prev)
      BY <1>1, <2>1, <2>5, <2>7 DEF InvitesInv, CreditCovered, FreeCovers
    <3>2. NotOlder(prev, prev)
      BY <2>5, UsesAre DEF NotOlder
    <3> QED
      BY <1>1, <2>1, <2>3, <2>4, <2>5, <3>1, <3>2 DEF Covers, NotOlder, JoinCovers
  <2>8. /\ invCredited' \in [Codes -> Nat] /\ \A c \in Codes \ Known : invCredited'[c] = 0
        /\ invReady' \in BOOLEAN /\ invMuddled' \in BOOLEAN
    BY <1>0, <1>1, <2>3 DEF InvitesTyped
  <2>9. invLock \in {NoDoc, j} /\ invLock' \in {NoDoc, j} /\ invLock' # NoDoc
    BY <1>1, <2>3
  <2> QED
    BY <1>1, <1>2, <2>2, <2>3, <2>6, <2>7, <2>8, <2>9, JoinTurns
<1>4. ASSUME ~Invites!Seeded PROVE InvitesInv'
  <2>1. invJoins' = [invJoins EXCEPT ![j] = Invites!NoJoin] /\ UNCHANGED <<invCredited, invLock>>
    BY <1>4 DEF Invites!JoinBegin, Invites!Recorded
  <2>2. ~invMuddled' => ~invMuddled /\ FreeCovers'
    BY <1>1, <2>1, FreeCoversRests DEF InvitesInv, CreditCovered
  <2>3. invLock \in {NoDoc, j} /\ invLock' = NoDoc /\ invMuddled' \in BOOLEAN
    BY <1>0, <1>1, <2>1 DEF InvitesTyped
  <2> QED
    BY <1>1, <1>2, <2>1, <2>2, <2>3, JoinDone
<1> QED
  BY <1>3, <1>4

LEMMA JoinAnsweredKeeps == ASSUME InvitesInv, NEW j \in Writers, Invites!JoinAnswered(j) PROVE InvitesInv'
<1>0. InvitesTyped /\ JoinTyped(j, invJoins[j])
  BY DEF InvitesInv
<1>1. PICK new, failed :
        /\ Invites!Fetched(new, failed)
        /\ invJoins' = [invJoins EXCEPT ![j].pc = "answered", ![j].got = new]
  BY DEF Invites!JoinAnswered
<1>2. /\ invJoins[j].pc = "asked" /\ invLock = j /\ j # NoDoc
      /\ UNCHANGED <<invInvites, invGone, invRefresh, invStored, invReady, invMuddled, invLock, invCredited>>
  BY <1>0, PartsAssumption DEF Invites!JoinAnswered, JoinTyped
<1>3. PICK prev : prev = invJoins[j].prev
  OBVIOUS
<1>4. PICK join : join = [pc |-> "answered", prev |-> prev, got |-> new]
  OBVIOUS
<1>5. invJoins' = [invJoins EXCEPT ![j] = join]
  <2>1. [invJoins[j] EXCEPT !.pc = "answered", !.got = new] = join
    BY <1>0, <1>3, <1>4, JoinIs DEF InvitesTyped, JoinsShaped
  <2>2. invJoins' = [invJoins EXCEPT ![j] = [invJoins[j] EXCEPT !.pc = "answered", !.got = new]]
    BY <1>0, <1>1 DEF InvitesTyped
  <2> QED
    BY <2>1, <2>2
<1>6. join.pc = "answered" /\ join.prev = prev /\ join.got = new
  BY <1>4
<1>7. Snapshot(prev) /\ (new # NoDoc => Snapshot(new) /\ (Vanity \in DOMAIN new => new = invInvites))
  BY <1>0, <1>1, <1>2, <1>3, FetchedNow DEF JoinTyped
<1>8. JoinTyped(j, join)'
  BY <1>2, <1>6, <1>7 DEF JoinTyped, Snapshot, Known
<1>9. ASSUME ~invMuddled' PROVE ~invMuddled /\ Covers(invInvites)' /\ JoinCovers(join)'
  <2>1. ~invMuddled /\ Covers(invInvites) /\ invStored # NoDoc /\ Covers(prev) /\ NotOlder(invStored, prev)
    BY <1>2, <1>3, <1>9 DEF InvitesInv, CreditCovered, JoinCovers
  <2>2. NotOlder(invInvites, prev)
    BY <1>0, <1>7, NowIsNotOlder
  <2> QED
    BY <1>2, <1>6, <1>7, <2>1, <2>2 DEF Covers, NotOlder, JoinCovers
<1>10. /\ invCredited' \in [Codes -> Nat] /\ \A c \in Codes \ Known : invCredited'[c] = 0
       /\ invReady' \in BOOLEAN /\ invMuddled' \in BOOLEAN
       /\ invStored' # NoDoc => Snapshot(invStored)'
  BY <1>0, <1>2 DEF InvitesTyped, Snapshot, Known
<1>11. invLock \in {NoDoc, j} /\ invLock' \in {NoDoc, j} /\ invLock' # NoDoc
  BY <1>2
<1> QED
  BY <1>2, <1>4, <1>5, <1>8, <1>9, <1>10, <1>11, JoinTurns
LEMMA JoinDecidesKeeps == ASSUME InvitesInv, NEW j \in Writers, Invites!JoinDecides(j) PROVE InvitesInv'
<1>0. InvitesTyped /\ JoinTyped(j, invJoins[j])
  BY DEF InvitesInv
<1>1. PICK prev, got : prev = invJoins[j].prev /\ got = invJoins[j].got
  OBVIOUS
<1>2. PICK code : code = Invites!Attributed(prev, got)
  OBVIOUS
<1>3. /\ invJoins[j].pc = "answered" /\ invLock = j /\ j # NoDoc
      /\ UNCHANGED <<invInvites, invGone, invRefresh, invStored, invReady, invMuddled>>
  BY <1>0, PartsAssumption DEF Invites!JoinDecides, JoinTyped
<1>4. invStored' # NoDoc => Snapshot(invStored)'
  BY <1>0, <1>3 DEF InvitesTyped, Snapshot, Known
<1>5. Snapshot(prev) /\ (got # NoDoc => Snapshot(got))
  BY <1>0, <1>1, <1>3 DEF JoinTyped
<1>6. ASSUME ~invMuddled
      PROVE  /\ Covers(invInvites) /\ invStored # NoDoc /\ Covers(prev) /\ NotOlder(invStored, prev)
             /\ got # NoDoc /\ Vanity \in DOMAIN got => NotOlder(got, prev)
  BY <1>1, <1>3, <1>6 DEF InvitesInv, CreditCovered, JoinCovers
<1>7. CASE got = NoDoc
  <2>1. invJoins' = [invJoins EXCEPT ![j] = Invites!NoJoin] /\ UNCHANGED invCredited /\ invLock' = NoDoc
    BY <1>1, <1>7 DEF Invites!JoinDecides, Invites!Recorded, Invites!Unlocked
  <2>2. ASSUME ~invMuddled' PROVE ~invMuddled /\ FreeCovers'
    <3>1. ~invMuddled /\ invStored # NoDoc /\ Covers(prev) /\ NotOlder(invStored, prev)
      BY <1>3, <1>6, <2>2
    <3>2. Covers(invStored)
      BY <1>0, <1>5, <3>1, NewerCovers DEF InvitesTyped
    <3>3. FreeCovers
      BY <3>1, <3>2 DEF FreeCovers
    <3> QED
      BY <1>3, <2>1, <3>1, <3>3, FreeCoversRests
  <2>3. invLock \in {NoDoc, j} /\ invMuddled' \in BOOLEAN
    BY <1>0, <1>3 DEF InvitesTyped
  <2> QED
    BY <1>3, <1>4, <2>1, <2>2, <2>3, JoinDone
<1>8. CASE got # NoDoc
  <2>1. PICK join : join = [pc |-> "publishing", prev |-> prev, got |-> got]
    OBVIOUS
  <2>2. PICK exact \in {code, NoDoc} :
            Invites!Recorded(j, [invJoins[j] EXCEPT !.pc = "publishing"], exact) /\ UNCHANGED invLock
    BY <1>1, <1>2, <1>8 DEF Invites!JoinDecides
  <2>3. invJoins' = [invJoins EXCEPT ![j] = join]
    <3>1. [invJoins[j] EXCEPT !.pc = "publishing"] = [pc |-> "publishing", prev |-> prev, got |-> got]
      BY <1>0, <1>1, JoinIs DEF InvitesTyped, JoinsShaped
    <3> QED
      BY <2>1, <2>2, <3>1 DEF Invites!Recorded
  <2>4. join.pc = "publishing" /\ join.prev = prev /\ join.got = got
    BY <2>1
  <2>5. \/ exact = NoDoc
        \/ exact \in DOMAIN got /\ got[exact] > Invites!Uses(prev, exact)
    BY <1>2, <2>2, AttributedIs DEF Invites!Increased
  <2>6. invCredited' = IF exact = NoDoc THEN invCredited ELSE [invCredited EXCEPT ![exact] = @ + 1]
    BY <2>2 DEF Invites!Recorded
  <2>7. exact # NoDoc => exact \in Known /\ exact \in Codes
    BY <1>0, <1>5, <1>8, <2>5 DEF Snapshot, InvitesTyped
  <2>8. /\ invCredited' \in [Codes -> Nat]
        /\ \A c \in Codes : c # exact => invCredited'[c] = invCredited[c]
        /\ exact # NoDoc => invCredited'[exact] = invCredited[exact] + 1
        /\ exact = NoDoc => invCredited' = invCredited
    BY <1>0, <2>6, <2>7 DEF InvitesTyped
  <2>9. \A c \in Codes \ Known : invCredited'[c] = 0
    <3> TAKE c \in Codes \ Known
    <3>1. exact = NoDoc \/ c # exact
      BY <2>7
    <3> QED
      BY <1>0, <2>8, <3>1 DEF InvitesTyped
  <2>10. JoinTyped(j, join)'
    BY <1>3, <1>5, <1>8, <2>2, <2>4 DEF JoinTyped, Snapshot, Known
  <2>11. ASSUME ~invMuddled' PROVE ~invMuddled /\ Covers(invInvites)' /\ JoinCovers(join)'
    <3>0. ~invMuddled /\ Covers(invInvites) /\ Covers(prev) /\ (Vanity \in DOMAIN got => NotOlder(got, prev))
      BY <1>3, <1>6, <1>8, <2>11
    <3>1. ASSUME NEW c \in DOMAIN invInvites, exact # NoDoc, c = exact
          PROVE  invCredited'[c] <= Invites!Uses(got, c) /\ invCredited'[c] <= Invites!Uses(invInvites, c)
      <4>1. Invites!Uses(got, c) = got[c] /\ got[c] \in Nat /\ got[c] > Invites!Uses(prev, c)
        BY <1>5, <1>8, <2>5, <3>1, UsesAre DEF Snapshot
      <4>2. invCredited[c] <= Invites!Uses(prev, c) /\ Invites!Uses(prev, c) \in Nat
        BY <1>5, <3>0, UsesAre DEF Covers
      <4>3. Invites!Uses(got, c) <= invInvites[c] /\ invInvites[c] \in Nat
        BY <1>0, <1>5, <1>8, UsesAre
      <4>4. Invites!Uses(invInvites, c) = invInvites[c]
        BY <1>0, UsesAre DEF InvitesTyped
      <4>5. invCredited[c] \in Nat /\ invCredited'[c] = invCredited[c] + 1
        BY <1>0, <2>7, <2>8, <3>1 DEF InvitesTyped
      <4> QED
        BY <4>1, <4>2, <4>3, <4>4, <4>5
    <3>2. ASSUME NEW c \in DOMAIN invInvites, exact = NoDoc \/ c # exact
          PROVE  invCredited'[c] = invCredited[c]
      <4>1. c \in Codes
        BY <1>0 DEF InvitesTyped, Known
      <4> QED
        BY <2>8, <3>2, <4>1
    <3>3. ASSUME NEW c \in DOMAIN invInvites PROVE invCredited'[c] <= Invites!Uses(invInvites, c)
      BY <3>0, <3>1, <3>2 DEF Covers
    <3>4. ASSUME Vanity \in DOMAIN got, NEW c \in DOMAIN invInvites PROVE invCredited'[c] <= Invites!Uses(got, c)
      <4>1. Covers(got)
        BY <1>0, <1>5, <1>8, <3>0, <3>4, NewerCovers
      <4> QED
        BY <3>1, <3>2, <4>1 DEF Covers
    <3> QED
      BY <1>3, <1>8, <2>4, <3>0, <3>3, <3>4 DEF Covers, JoinCovers
  <2>12. invReady' \in BOOLEAN /\ invMuddled' \in BOOLEAN
    BY <1>0, <1>3 DEF InvitesTyped
  <2>13. invLock \in {NoDoc, j} /\ invLock' \in {NoDoc, j} /\ invLock' # NoDoc
    BY <1>3, <2>2
  <2> QED
    BY <1>3, <1>4, <2>1, <2>3, <2>8, <2>9, <2>10, <2>11, <2>12, <2>13, JoinTurns
<1> QED
  BY <1>7, <1>8

LEMMA JoinPublishesKeeps == ASSUME InvitesInv, NEW j \in Writers, Invites!JoinPublishes(j) PROVE InvitesInv'
<1>0. InvitesTyped /\ JoinTyped(j, invJoins[j])
  BY DEF InvitesInv
<1>1. PICK got : got = invJoins[j].got
  OBVIOUS
<1>2. /\ invJoins[j].pc = "publishing" /\ invLock = j
      /\ invJoins' = [invJoins EXCEPT ![j] = Invites!NoJoin] /\ invLock' = NoDoc
      /\ UNCHANGED <<invInvites, invGone, invRefresh, invReady, invCredited>>
      /\ Invites!Store(got) \/ (invMuddled' = TRUE /\ UNCHANGED invStored)
  BY <1>0, <1>1 DEF Invites!JoinPublishes, JoinTyped, Invites!Unlocked
<1>3. got # NoDoc => Snapshot(got)
  BY <1>0, <1>1 DEF JoinTyped
<1>4. invStored' # NoDoc => Snapshot(invStored)'
  <2>1. invStored' # NoDoc => Snapshot(invStored')
    BY <1>0, <1>2, <1>3 DEF InvitesTyped, Invites!Store
  <2>2. PICK s : s = invStored'
    OBVIOUS
  <2> QED
    BY <1>2, <2>1, <2>2 DEF Snapshot, Known
<1>5. invMuddled' \in BOOLEAN
  BY <1>2 DEF Invites!Store
<1>6. ASSUME ~invMuddled' PROVE ~invMuddled /\ FreeCovers'
  <2>1. Invites!Store(got)
    BY <1>2, <1>6
  <2>2. ~invMuddled
    BY <1>6, <2>1 DEF Invites!Store
  <2>3. got # NoDoc /\ (Vanity \in DOMAIN got => Covers(got))
    BY <1>1, <1>2, <2>2 DEF InvitesInv, CreditCovered, JoinCovers
  <2>4. Vanity \in DOMAIN got /\ invStored' = got
    BY <1>0, <1>3, <1>6, <2>1, <2>3, StoredUnmuddled
  <2> QED
    BY <1>2, <2>2, <2>3, <2>4 DEF FreeCovers, Covers
<1>7. invLock \in {NoDoc, j}
  BY <1>2
<1> QED
  BY <1>2, <1>4, <1>5, <1>6, <1>7, JoinDone

LEMMA InvitesCrashKeeps == ASSUME InvitesInv, Invites!Crash PROVE InvitesInv'
<1>0. InvitesTyped
  BY DEF InvitesInv
<1>1. /\ invReady' = FALSE /\ invLock' = NoDoc
      /\ invRefresh' = [t \in Invites!Refreshers |-> [pc |-> "idle", got |-> NoDoc]]
      /\ invJoins' = [j \in Writers |-> [pc |-> "idle", prev |-> NoDoc, got |-> NoDoc]]
      /\ UNCHANGED <<invInvites, invGone, invStored, invCredited, invMuddled>>
  BY DEF Invites!Crash, Invites!Idle, Invites!NoJoin
<1>2. InvitesTyped'
  BY <1>0, <1>1 DEF InvitesTyped, Snapshot, Known
<1>3. ASSUME NEW j \in Writers PROVE JoinTyped(j, invJoins[j])' /\ JoinCovers(invJoins[j])'
  <2>1. invJoins'[j].pc = "idle" /\ invJoins'[j].got = NoDoc /\ j # NoDoc
    BY <1>1, PartsAssumption
  <2> QED
    BY <1>1, <2>1 DEF JoinTyped, JoinCovers
<1>4. ~invMuddled' => Covers(invInvites)'
  <2> SUFFICES ASSUME ~invMuddled' PROVE Covers(invInvites)'
    OBVIOUS
  <2>1. Covers(invInvites)
    BY <1>1 DEF InvitesInv, CreditCovered
  <2> QED
    BY <1>1, <2>1 DEF Covers
<1>5. FreeCovers'
  BY <1>1 DEF FreeCovers
<1> QED
  BY <1>2, <1>3, <1>4, <1>5 DEF InvitesInv, CreditCovered

LEMMA InvitesSteady == SafetySpec => []InvitesInv
<1>1. SafetyInit => InvitesInv
  <2> SUFFICES ASSUME Invites!Init PROVE InvitesInv
    BY DEF SafetyInit
  <2>1. PICK S \in {Codes, {Vanity}} : invInvites = [c \in S |-> 0]
    BY DEF Invites!Init
  <2>2. /\ DOMAIN invInvites = S /\ Vanity \in S /\ S \subseteq Codes
        /\ \A c \in S : invInvites[c] = 0
    BY <2>1, PartsAssumption
  <2>3. /\ invGone = {} /\ invLock = NoDoc /\ invReady = FALSE /\ invStored = NoDoc /\ invMuddled = FALSE
        /\ invCredited = [c \in Codes |-> 0]
        /\ invRefresh = [t \in Invites!Refreshers |-> [pc |-> "idle", got |-> NoDoc]]
        /\ invJoins = [j \in Writers |-> [pc |-> "idle", prev |-> NoDoc, got |-> NoDoc]]
    BY DEF Invites!Init, Invites!Idle, Invites!NoJoin
  <2>4. InvitesTyped
    <3>1. Known = S /\ Known \subseteq Codes /\ Vanity \in DOMAIN invInvites
      BY <2>2, <2>3 DEF Known
    <3>2. Snapshot(invInvites) /\ invGone \cap DOMAIN invInvites = {}
      BY <2>2, <2>3, <3>1 DEF Snapshot
    <3>3. invCredited \in [Codes -> Nat] /\ \A c \in Codes \ Known : invCredited[c] = 0
      BY <2>3
    <3>4. invRefresh = [t \in Invites!Refreshers |-> [pc |-> invRefresh[t].pc, got |-> invRefresh[t].got]]
      <4>1. \A t \in Invites!Refreshers : invRefresh[t].pc = "idle" /\ invRefresh[t].got = NoDoc
        BY <2>3
      <4> QED
        BY <2>3, <4>1
    <3>5. invJoins = [j \in Writers |-> [pc |-> invJoins[j].pc, prev |-> invJoins[j].prev, got |-> invJoins[j].got]]
      <4>1. \A j \in Writers : invJoins[j].pc = "idle" /\ invJoins[j].prev = NoDoc /\ invJoins[j].got = NoDoc
        BY <2>3
      <4> QED
        BY <2>3, <4>1
    <3> QED
      BY <2>3, <3>1, <3>2, <3>3, <3>4, <3>5 DEF InvitesTyped
  <2>5. ASSUME NEW j \in Writers PROVE JoinTyped(j, invJoins[j]) /\ JoinCovers(invJoins[j])
    <3>1. invJoins[j].pc = "idle" /\ invJoins[j].got = NoDoc /\ j # NoDoc
      BY <2>3, PartsAssumption
    <3> QED
      BY <2>3, <3>1 DEF JoinTyped, JoinCovers
  <2>6. Covers(invInvites)
    BY <2>2, <2>3 DEF Covers, Invites!Uses
  <2>7. FreeCovers
    BY <2>3 DEF FreeCovers
  <2> QED
    BY <2>4, <2>5, <2>6, <2>7 DEF InvitesInv, CreditCovered
<1>2. InvitesInv /\ [SafetyNext]_SafetyVars => InvitesInv'
  <2> SUFFICES ASSUME InvitesInv, [Invites!Next]_invVars PROVE InvitesInv'
    BY EachPartSteps
  <2>1. CASE UNCHANGED invVars
    BY <2>1, InvitesRest DEF invVars
  <2>2. CASE Invites!Audit
    BY <2>2, InvitesRest DEF Invites!Audit
  <2>3. CASE Invites!JoinStep
    BY <2>3, JoinBeginKeeps, JoinAnsweredKeeps, JoinDecidesKeeps, JoinPublishesKeeps DEF Invites!JoinStep
  <2>4. CASE \E t \in Invites!Refreshers : Invites!RefreshStep(t)
    BY <2>4, RefreshAnsweredKeeps, RefreshStoresKeeps DEF Invites!RefreshStep
  <2> QED
    BY <2>1, <2>2, <2>3, <2>4, MemberJoinsKeeps, InviteCreatedKeeps, InviteDeletedKeeps, AsksKeep, InvitesCrashKeeps
       DEF Invites!Next
<1> QED
  BY <1>1, <1>2, PTL DEF SafetySpec

(* A use of an invite is credited to one member at most, whatever order     *)
(* joins, refreshes, events and restarts come in, as long as the stored     *)
(* snapshot is not muddled (gateway.py, _attribute_join_locked).            *)
THEOREM UsesAreCreditedOnce == SafetySpec => []CreditedOnce
<1>1. InvitesInv => CreditedOnce
  <2> SUFFICES ASSUME InvitesInv, ~invMuddled, NEW c \in DOMAIN invInvites PROVE invCredited[c] <= invInvites[c]
    BY DEF CreditedOnce, Invites!CreditedOnce
  <2>1. InvitesTyped /\ Snapshot(invInvites) /\ Covers(invInvites)
    BY DEF InvitesInv, CreditCovered, InvitesTyped
  <2> QED
    BY <2>1, UsesAre DEF Covers
<1> QED
  BY <1>1, InvitesSteady, PTL

-----------------------------------------------------------------------------
(* The summaries.                                                           *)

Tasks == Summary!Tasks

Places0 == Destinations \cup {NoDoc}

RowRecs == [summary : Places0, claimed : BOOLEAN, delivered : BOOLEAN]

AnnouncedRecs ==
    [state : {"none", "pending", "completed", "quarantined"}, attempts : Nat, to : Places0]

WriterRecs == [pc : {"idle", "building", "marking", "publishing"}, to : Places0, tries : Int]

GatewayRecs == [pc : {"idle", "claiming", "sending", "sent", "releasing"}, to : Places0, tries : Int]

SummaryTyped ==
    /\ cardDest \in Places0
    /\ cardRow \in RowRecs
    /\ cardAnnounced \in AnnouncedRecs
    /\ cardWriter \in [Tasks -> WriterRecs]
    /\ cardGateway \in [Tasks -> GatewayRecs]
    /\ cardCards \in Nat /\ cardUnsure \in Nat

(* Whoever posts holds the claim, and no other does.                        *)
ClaimHeld ==
    /\ \A t \in Summary!Holding : cardRow.claimed
    /\ \A t, u \in Summary!Holding : t = u

(* After a post that succeeded the claim stays, and no task posts again or  *)
(* gives it back.                                                           *)
PostedOnce ==
    cardCards > cardUnsure =>
        /\ cardCards = cardUnsure + 1 /\ cardRow.claimed
        /\ \A t \in Tasks : cardGateway[t].pc \notin {"sending", "releasing"}

SummaryInv == SummaryTyped /\ ClaimHeld /\ PostedOnce

LEMMA SameCardinality == ASSUME NEW S PROVE Summary!Cardinality(S) = Cardinality(S)
  BY DEF Summary!Cardinality, Cardinality, Summary!IsFiniteSet, IsFiniteSet

LEMMA OneHolds == ASSUME ClaimHeld PROVE Summary!OnePoster
<1>1. CASE Summary!Holding = {}
  BY <1>1, FS_EmptySet, SameCardinality DEF Summary!OnePoster
<1>2. CASE Summary!Holding # {}
  <2>1. PICK t : t \in Summary!Holding
    BY <1>2
  <2>2. Summary!Holding = {t}
    BY <2>1 DEF ClaimHeld
  <2>3. Cardinality({t}) = 1
    BY FS_Singleton
  <2> QED
    BY <2>1, <2>2, <2>3, SameCardinality DEF Summary!OnePoster, ClaimHeld
<1> QED
  BY <1>1, <1>2

LEMMA SummaryBegins == ASSUME Summary!Init PROVE SummaryInv
  BY DEF Summary!Init, SummaryInv, SummaryTyped, ClaimHeld, PostedOnce, Tasks, Places0,
         RowRecs, AnnouncedRecs, WriterRecs, GatewayRecs, Summary!Holding, Summary!Idle

(* What happens to the writer leaves the claim alone.                       *)
LEMMA ClaimUntouched ==
    ASSUME SummaryInv, SummaryTyped', UNCHANGED <<cardGateway, cardCards, cardUnsure>>,
           cardRow'.claimed = cardRow.claimed
    PROVE  SummaryInv'
  BY DEF SummaryInv, ClaimHeld, PostedOnce, Summary!Holding

LEMMA InboxKeepsType ==
    ASSUME NEW inbox \in AnnouncedRecs
    PROVE  Summary!Raised(inbox) \in AnnouncedRecs /\ Summary!Handled(inbox) \in AnnouncedRecs
<1>1. inbox.attempts + 1 \in Nat
  BY DEF AnnouncedRecs
<1>2. PICK state \in {"none", "pending", "completed", "quarantined"}, attempts \in Nat :
         Summary!Raised(inbox) = [inbox EXCEPT !.attempts = attempts, !.state = state]
  BY <1>1 DEF Summary!Raised, AnnouncedRecs
<1> QED
  BY <1>2 DEF Summary!Handled, AnnouncedRecs

(* A task that ends holds nothing any more.                                 *)
LEMMA TaskEnds ==
    ASSUME SummaryInv, NEW t \in Tasks, NEW raises \in BOOLEAN, Summary!GatewayEnds(t, raises)
    PROVE  /\ cardGateway' \in [Tasks -> GatewayRecs]
           /\ cardAnnounced' \in AnnouncedRecs
           /\ cardGateway'[t].pc = "idle"
           /\ \A u \in Tasks \ {t} : cardGateway'[u] = cardGateway[u]
<1> USE DEF SummaryInv, SummaryTyped, Summary!GatewayEnds
<1>1. Summary!Idle \in GatewayRecs /\ Summary!Idle.pc = "idle"
  BY DEF Summary!Idle, GatewayRecs, Places0
<1>2. cardGateway' = [cardGateway EXCEPT ![t] = Summary!Idle]
  OBVIOUS
<1>3. cardAnnounced' \in {cardAnnounced, Summary!Raised(cardAnnounced), Summary!Handled(cardAnnounced)}
  OBVIOUS
<1>4. /\ Summary!Raised(cardAnnounced) \in AnnouncedRecs
      /\ Summary!Handled(cardAnnounced) \in AnnouncedRecs
  BY InboxKeepsType
<1> QED
  BY <1>1, <1>2, <1>3, <1>4

LEMMA SummaryKept == ASSUME SummaryInv, [Summary!Next]_cardVars PROVE SummaryInv'
<1> USE DEF SummaryInv, SummaryTyped
<1>1. CASE Summary!Configure
  BY <1>1, ClaimUntouched DEF Summary!Configure, RowRecs, AnnouncedRecs, WriterRecs, GatewayRecs, Places0
<1>2. CASE Summary!WriterCrash
  BY <1>2, ClaimUntouched DEF Summary!WriterCrash, Summary!Idle, Tasks, WriterRecs, Places0
<1>3. CASE Summary!GatewayCrash
  <2>1. /\ cardGateway' = [t \in Tasks |-> Summary!Idle]
        /\ UNCHANGED <<cardDest, cardRow, cardAnnounced, cardWriter, cardCards, cardUnsure>>
    BY <1>3 DEF Summary!GatewayCrash, Tasks
  <2>2. Summary!Idle \in GatewayRecs /\ Summary!Idle.pc = "idle"
    BY DEF Summary!Idle, GatewayRecs, Places0
  <2>3. SummaryTyped'
    BY <2>1, <2>2
  <2>4. ClaimHeld'
    BY <2>1, <2>2 DEF ClaimHeld, Summary!Holding, Tasks
  <2>5. PostedOnce'
    BY <2>1, <2>2 DEF PostedOnce
  <2> QED
    BY <2>3, <2>4, <2>5
<1>4. ASSUME NEW t \in Tasks, Summary!WriterBegin(t) PROVE SummaryInv'
  BY <1>4, ClaimUntouched DEF Summary!WriterBegin, WriterRecs, Places0
<1>5. ASSUME NEW t \in Tasks, Summary!WriterBuild(t) PROVE SummaryInv'
  BY <1>5, ClaimUntouched DEF Summary!WriterBuild, Summary!WriterEnds, Summary!Idle, WriterRecs, Places0
<1>6. ASSUME NEW t \in Tasks, Summary!WriterMark(t) PROVE SummaryInv'
  BY <1>6, ClaimUntouched DEF Summary!WriterMark, Summary!Ready, RowRecs, AnnouncedRecs, WriterRecs, GatewayRecs, Places0
<1>7. ASSUME NEW t \in Tasks, Summary!WriterPublish(t) PROVE SummaryInv'
  BY <1>7, ClaimUntouched DEF Summary!WriterPublish, Summary!WriterEnds, Summary!Idle, Summary!Announced, RowRecs, AnnouncedRecs, WriterRecs, GatewayRecs, Places0
<1>8. ASSUME NEW t \in Tasks, Summary!WriterFails(t) PROVE SummaryInv'
  <2>1. Summary!Announced(t) \in AnnouncedRecs
    BY DEF Summary!Announced, AnnouncedRecs, WriterRecs
  <2>2. cardAnnounced' \in {cardAnnounced, Summary!Announced(t)}
    BY <1>8 DEF Summary!WriterFails
  <2>3. cardWriter' = [cardWriter EXCEPT ![t] = Summary!Idle]
    BY <1>8 DEF Summary!WriterFails, Summary!WriterEnds
  <2>4. Summary!Idle \in WriterRecs
    BY DEF Summary!Idle, WriterRecs, Places0
  <2>5. SummaryTyped'
    BY <1>8, <2>1, <2>2, <2>3, <2>4 DEF Summary!WriterFails
  <2> QED
    BY <1>8, <2>5, ClaimUntouched DEF Summary!WriterFails
<1>9. ASSUME NEW t \in Tasks, Summary!GatewayBegin(t) PROVE SummaryInv'
  <2>1. CASE cardGateway' = cardGateway /\ cardAnnounced' = Summary!Handled(cardAnnounced)
    <3>1. SummaryTyped'
      BY <1>9, <2>1 DEF Summary!GatewayBegin, Summary!Handled, AnnouncedRecs
    <3> QED
      BY <1>9, <2>1, <3>1, ClaimUntouched DEF Summary!GatewayBegin
  <2>2. CASE cardAnnounced' = cardAnnounced /\ cardGateway' # cardGateway
    <3>1. PICK to \in Places0, tries \in Int :
             cardGateway' = [cardGateway EXCEPT ![t] = [pc |-> "claiming", to |-> to, tries |-> tries]]
      BY <1>9, <2>2, PartsAssumption DEF Summary!GatewayBegin, AnnouncedRecs, RowRecs
    <3> DEFINE rec == [pc |-> "claiming", to |-> to, tries |-> tries]
    <3>2. rec \in GatewayRecs /\ rec.pc = "claiming"
      BY DEF GatewayRecs
    <3>3. UNCHANGED <<cardDest, cardRow, cardWriter, cardCards, cardUnsure>>
      BY <1>9 DEF Summary!GatewayBegin
    <3> HIDE DEF rec
    <3>4. /\ cardGateway' \in [Tasks -> GatewayRecs]
          /\ cardGateway'[t].pc = "claiming"
          /\ \A u \in Tasks \ {t} : cardGateway'[u] = cardGateway[u]
      <4>1. cardGateway' = [cardGateway EXCEPT ![t] = rec]
        BY <3>1 DEF rec
      <4> QED
        BY <4>1, <3>2
    <3>5. SummaryTyped'
      BY <2>2, <3>3, <3>4
    <3>6. ClaimHeld'
      BY <3>3, <3>4 DEF ClaimHeld, Summary!Holding, Tasks
    <3>7. PostedOnce'
      BY <3>3, <3>4 DEF PostedOnce, Tasks
    <3> QED
      BY <3>5, <3>6, <3>7
  <2> QED
    BY <1>9, <2>1, <2>2, ClaimUntouched DEF Summary!GatewayBegin
<1>10. ASSUME NEW t \in Tasks, Summary!GatewayClaim(t) PROVE SummaryInv'
  <2>1. CASE Summary!Deliverable
    <3>1. /\ cardRow' = [cardRow EXCEPT !.claimed = TRUE] /\ ~cardRow.claimed
          /\ cardGateway' = [cardGateway EXCEPT ![t].pc = "sending"]
          /\ UNCHANGED <<cardDest, cardAnnounced, cardWriter, cardCards, cardUnsure>>
      BY <1>10, <2>1 DEF Summary!GatewayClaim, Summary!Deliverable
    <3>2. SummaryTyped'
      <4>1. cardRow' \in RowRecs
        BY <3>1 DEF RowRecs
      <4>2. cardGateway' \in [Tasks -> GatewayRecs]
        BY <3>1 DEF GatewayRecs
      <4> QED
        BY <3>1, <4>1, <4>2
    <3>3. cardGateway'[t].pc = "sending" /\ \A u \in Tasks \ {t} : cardGateway'[u] = cardGateway[u]
      BY <3>1 DEF GatewayRecs
    <3>4. ClaimHeld'
      BY <3>1, <3>3 DEF ClaimHeld, Summary!Holding, Tasks
    <3>5. PostedOnce'
      BY <3>1 DEF PostedOnce
    <3> QED
      BY <3>2, <3>4, <3>5
  <2>2. CASE ~Summary!Deliverable
    <3>1. Summary!GatewayEnds(t, FALSE) /\ UNCHANGED <<cardDest, cardRow, cardWriter, cardCards, cardUnsure>>
      BY <1>10, <2>2 DEF Summary!GatewayClaim
    <3>2. /\ cardGateway' \in [Tasks -> GatewayRecs]
          /\ cardAnnounced' \in AnnouncedRecs
          /\ cardGateway'[t].pc = "idle"
          /\ \A u \in Tasks \ {t} : cardGateway'[u] = cardGateway[u]
      BY <3>1, TaskEnds
    <3>3. SummaryTyped'
      BY <3>1, <3>2
    <3>4. ClaimHeld'
      BY <3>1, <3>2 DEF ClaimHeld, Summary!Holding, Tasks
    <3>5. PostedOnce'
      BY <3>1, <3>2 DEF PostedOnce
    <3> QED
      BY <3>3, <3>4, <3>5
  <2> QED
    BY <2>1, <2>2
<1>11. ASSUME NEW t \in Tasks, Summary!GatewaySend(t) PROVE SummaryInv'
  <2>1. cardGateway[t].pc = "sending" /\ UNCHANGED <<cardDest, cardRow, cardAnnounced, cardWriter>>
    BY <1>11 DEF Summary!GatewaySend
  <2>2. cardCards <= cardUnsure
    BY <2>1 DEF PostedOnce
  <2>3. t \in Summary!Holding /\ cardRow.claimed /\ \A u \in Tasks : u \in Summary!Holding => u = t
    BY <2>1 DEF ClaimHeld, Summary!Holding, Tasks
  <2>4. CASE /\ cardCards' = cardCards + 1 /\ UNCHANGED cardUnsure
             /\ cardGateway' = [cardGateway EXCEPT ![t].pc = "sent"]
    <3>1. SummaryTyped'
      BY <2>1, <2>4 DEF GatewayRecs
    <3>2. cardGateway'[t].pc = "sent" /\ \A u \in Tasks \ {t} : cardGateway'[u] = cardGateway[u]
      BY <2>4 DEF GatewayRecs
    <3>3. ClaimHeld'
      BY <2>1, <2>3, <3>2 DEF ClaimHeld, Summary!Holding, Tasks
    <3>4. PostedOnce'
      BY <2>1, <2>2, <2>3, <2>4, <3>2 DEF PostedOnce, Summary!Holding, Tasks
    <3> QED
      BY <3>1, <3>3, <3>4
  <2>5. CASE \E posted \in {0, 1} : /\ cardCards' = cardCards + posted /\ cardUnsure' = cardUnsure + posted
               /\ cardGateway' = [cardGateway EXCEPT ![t].pc = IF cardGateway[t].tries = 1 THEN "releasing" ELSE "sending",
                                                     ![t].tries = @ - 1]
    <3>1. cardCards' \in Nat /\ cardUnsure' \in Nat /\ cardCards' <= cardUnsure'
      BY <2>2, <2>5
    <3>2. /\ cardGateway' \in [Tasks -> GatewayRecs]
          /\ cardGateway'[t].pc \in {"releasing", "sending"}
          /\ \A u \in Tasks \ {t} : cardGateway'[u] = cardGateway[u]
      BY <2>5 DEF GatewayRecs
    <3>3. SummaryTyped'
      BY <2>1, <3>1, <3>2
    <3>4. ClaimHeld'
      BY <2>1, <2>3, <3>2 DEF ClaimHeld, Summary!Holding, Tasks
    <3>5. PostedOnce'
      BY <3>1 DEF PostedOnce
    <3> QED
      BY <3>3, <3>4, <3>5
  <2> QED
    BY <1>11, <2>4, <2>5 DEF Summary!GatewaySend
<1>12. ASSUME NEW t \in Tasks, Summary!GatewayMark(t) PROVE SummaryInv'
  <2>1. PICK raises \in BOOLEAN : Summary!GatewayEnds(t, raises)
    BY <1>12 DEF Summary!GatewayMark
  <2>2. /\ cardGateway' \in [Tasks -> GatewayRecs]
        /\ cardAnnounced' \in AnnouncedRecs
        /\ cardGateway'[t].pc = "idle"
        /\ \A u \in Tasks \ {t} : cardGateway'[u] = cardGateway[u]
    BY <2>1, TaskEnds
  <2>3. /\ UNCHANGED <<cardDest, cardWriter, cardCards, cardUnsure>>
        /\ cardRow' = [cardRow EXCEPT !.delivered = TRUE]
    BY <1>12 DEF Summary!GatewayMark, Summary!Delivered
  <2>4. SummaryTyped'
    BY <2>2, <2>3 DEF RowRecs
  <2>5. ClaimHeld'
    BY <1>12, <2>2, <2>3 DEF ClaimHeld, Summary!Holding, Tasks, Summary!GatewayMark
  <2>6. PostedOnce'
    BY <1>12, <2>2, <2>3 DEF PostedOnce, Tasks, Summary!GatewayMark
  <2> QED
    BY <2>4, <2>5, <2>6
<1>13. ASSUME NEW t \in Tasks, Summary!GatewayRelease(t) PROVE SummaryInv'
  <2>1. PICK raises \in BOOLEAN : Summary!GatewayEnds(t, raises)
    BY <1>13 DEF Summary!GatewayRelease
  <2>2. /\ cardGateway' \in [Tasks -> GatewayRecs]
        /\ cardAnnounced' \in AnnouncedRecs
        /\ cardGateway'[t].pc = "idle"
        /\ \A u \in Tasks \ {t} : cardGateway'[u] = cardGateway[u]
    BY <2>1, TaskEnds
  <2>3. /\ UNCHANGED <<cardDest, cardWriter, cardCards, cardUnsure>>
        /\ cardRow' = [cardRow EXCEPT !.claimed = FALSE]
    BY <1>13 DEF Summary!GatewayRelease, Summary!Released
  <2>4. SummaryTyped'
    BY <2>2, <2>3 DEF RowRecs
  <2>5. ClaimHeld'
    BY <1>13, <2>2, <2>3 DEF ClaimHeld, Summary!Holding, Tasks, Summary!GatewayRelease
  <2>6. PostedOnce'
    BY <1>13, <2>2, <2>3 DEF PostedOnce, Tasks, Summary!GatewayRelease
  <2> QED
    BY <2>4, <2>5, <2>6
<1>14. ASSUME NEW t \in Tasks, Summary!GatewayFails(t) PROVE SummaryInv'
  <2>1. PICK raises \in BOOLEAN : Summary!GatewayEnds(t, raises)
    BY <1>14 DEF Summary!GatewayFails
  <2>2. /\ cardGateway' \in [Tasks -> GatewayRecs]
        /\ cardAnnounced' \in AnnouncedRecs
        /\ cardGateway'[t].pc = "idle"
        /\ \A u \in Tasks \ {t} : cardGateway'[u] = cardGateway[u]
    BY <2>1, TaskEnds
  <2>3. /\ UNCHANGED <<cardDest, cardWriter, cardCards, cardUnsure>>
        /\ cardRow' = cardRow
    BY <1>14 DEF Summary!GatewayFails
  <2>4. SummaryTyped'
    BY <2>2, <2>3
  <2>5. ClaimHeld'
    BY <1>14, <2>2, <2>3 DEF ClaimHeld, Summary!Holding, Tasks, Summary!GatewayFails
  <2>6. PostedOnce'
    BY <1>14, <2>2, <2>3 DEF PostedOnce, Tasks, Summary!GatewayFails
  <2> QED
    BY <2>4, <2>5, <2>6
<1>15. CASE UNCHANGED cardVars
  BY <1>15 DEF cardVars, ClaimHeld, PostedOnce, Summary!Holding
<1> QED
  BY <1>1, <1>2, <1>3, <1>4, <1>5, <1>6, <1>7, <1>8, <1>9, <1>10, <1>11, <1>12, <1>13, <1>14, <1>15
     DEF Summary!Next, Summary!WriterStep, Summary!GatewayStep, Tasks

LEMMA SummarySteady == SafetySpec => []SummaryInv
<1>1. SafetyInit => SummaryInv
  BY SummaryBegins DEF SafetyInit
<1>2. SummaryInv /\ [SafetyNext]_SafetyVars => SummaryInv'
  BY EachPartSteps, SummaryKept
<1> QED
  BY <1>1, <1>2, PTL DEF SafetySpec

(* The handler and the reconciliation never post one summary side by side   *)
(* (repository.py, claim_session_summary_delivery).                         *)
THEOREM SummaryHasOnePoster == SafetySpec => []OnePoster
<1>1. SummaryInv => OnePoster
  BY OneHolds DEF OnePoster, SummaryInv
<1> QED
  BY <1>1, SummarySteady, PTL

(* A second card is posted only after a post that failed with its card made *)
(* (gateway.py, handle_summary).                                            *)
THEOREM SummaryHasOneCard == SafetySpec => []OneCardUnlessUnsure
<1>1. SummaryInv => OneCardUnlessUnsure
  BY DEF OneCardUnlessUnsure, Summary!OneCardUnlessUnsure, SummaryInv, SummaryTyped, PostedOnce
<1> QED
  BY <1>1, SummarySteady, PTL

(* What is marked or about to be marked as delivered has a card.            *)
CardStands ==
    /\ cardRow.delivered => cardCards > 0
    /\ \A t \in Tasks : cardGateway[t].pc = "sent" => cardCards > 0

LEMMA CardStandsOn == ASSUME SummaryInv, CardStands, [Summary!Next]_cardVars PROVE CardStands'
<1> USE DEF SummaryInv, SummaryTyped, CardStands
(* Mostly the cards stay, and no task comes to its mark.                    *)
<1>1. ASSUME cardCards' = cardCards, cardRow'.delivered => cardRow.delivered,
             \A u \in Tasks : cardGateway'[u].pc = "sent" => cardGateway[u].pc = "sent"
      PROVE  CardStands'
  BY <1>1
<1>2. ASSUME UNCHANGED <<cardRow, cardGateway, cardCards>> PROVE CardStands'
  BY <1>1, <1>2
<1>3. CASE Summary!Configure \/ Summary!WriterCrash
  BY <1>2, <1>3 DEF Summary!Configure, Summary!WriterCrash
<1>4. ASSUME NEW t \in Tasks, Summary!WriterBegin(t) \/ Summary!WriterBuild(t) \/ Summary!WriterPublish(t) \/ Summary!WriterFails(t)
      PROVE  CardStands'
  BY <1>2, <1>4 DEF Summary!WriterBegin, Summary!WriterBuild, Summary!WriterPublish, Summary!WriterFails
<1>5. ASSUME NEW t \in Tasks, Summary!WriterMark(t) PROVE CardStands'
  <2>1. UNCHANGED <<cardGateway, cardCards>> /\ cardRow' = [cardRow EXCEPT !.summary = cardWriter[t].to]
    BY <1>5 DEF Summary!WriterMark, Summary!Ready
  <2> QED
    BY <1>1, <2>1 DEF RowRecs
<1>6. CASE Summary!GatewayCrash
  <2>1. UNCHANGED <<cardRow, cardCards>> /\ \A u \in Tasks : cardGateway'[u].pc = "idle"
    BY <1>6 DEF Summary!GatewayCrash, Summary!Idle, Tasks, Summary!Tasks
  <2> QED
    BY <1>1, <2>1
<1>7. ASSUME NEW t \in Tasks, Summary!GatewayBegin(t) PROVE CardStands'
  <2>1. UNCHANGED <<cardRow, cardCards>>
    BY <1>7 DEF Summary!GatewayBegin
  <2>2. \A u \in Tasks : cardGateway'[u].pc = "sent" => cardGateway[u].pc = "sent"
    BY <1>7 DEF Summary!GatewayBegin, GatewayRecs
  <2> QED
    BY <1>1, <2>1, <2>2
<1>8. ASSUME NEW t \in Tasks, NEW raises \in BOOLEAN, Summary!GatewayEnds(t, raises)
      PROVE  \A u \in Tasks : cardGateway'[u].pc = "sent" => cardGateway[u].pc = "sent"
  BY <1>8, TaskEnds
<1>9. ASSUME NEW t \in Tasks, Summary!GatewayClaim(t) PROVE CardStands'
  <2>1. cardCards' = cardCards /\ cardRow'.delivered = cardRow.delivered
    BY <1>9 DEF Summary!GatewayClaim, RowRecs
  <2>2. CASE Summary!Deliverable
    <3>1. cardGateway' = [cardGateway EXCEPT ![t].pc = "sending"]
      BY <1>9, <2>2 DEF Summary!GatewayClaim
    <3> QED
      BY <1>1, <2>1, <3>1 DEF GatewayRecs
  <2>3. CASE ~Summary!Deliverable
    BY <1>1, <1>8, <1>9, <2>1, <2>3 DEF Summary!GatewayClaim
  <2> QED
    BY <2>2, <2>3
<1>10. ASSUME NEW t \in Tasks, Summary!GatewaySend(t) PROVE CardStands'
  <2>1. cardCards' \in Nat /\ cardCards' >= cardCards /\ cardRow' = cardRow
    BY <1>10 DEF Summary!GatewaySend
  <2>2. CASE cardCards' = cardCards + 1
    BY <2>1, <2>2
  <2>3. CASE cardCards' # cardCards + 1
    <3>1. cardGateway' = [cardGateway EXCEPT ![t].pc = IF cardGateway[t].tries = 1 THEN "releasing" ELSE "sending",
                                             ![t].tries = @ - 1]
      BY <1>10, <2>3 DEF Summary!GatewaySend
    <3>2. cardGateway'[t].pc # "sent" /\ \A u \in Tasks \ {t} : cardGateway'[u] = cardGateway[u]
      BY <3>1 DEF GatewayRecs
    <3>3. cardCards > 0 => cardCards' > 0
      BY <2>1
    <3> QED
      BY <2>1, <3>2, <3>3
  <2> QED
    BY <2>2, <2>3
<1>11. ASSUME NEW t \in Tasks, Summary!GatewayMark(t) PROVE CardStands'
  <2>1. cardCards' = cardCards /\ cardCards > 0
    BY <1>11 DEF Summary!GatewayMark
  <2> QED
    BY <2>1
<1>12. ASSUME NEW t \in Tasks, Summary!GatewayRelease(t) PROVE CardStands'
  <2>1. cardCards' = cardCards /\ cardRow' = [cardRow EXCEPT !.claimed = FALSE] /\ Summary!GatewayEnds(t, TRUE)
    BY <1>12 DEF Summary!GatewayRelease, Summary!Released
  <2>2. cardRow'.delivered = cardRow.delivered
    BY <2>1 DEF RowRecs
  <2> QED
    BY <1>1, <1>8, <2>1, <2>2
<1>13. ASSUME NEW t \in Tasks, Summary!GatewayFails(t) PROVE CardStands'
  BY <1>1, <1>8, <1>13 DEF Summary!GatewayFails
<1>14. CASE UNCHANGED cardVars
  BY <1>2, <1>14 DEF cardVars
<1> QED
  BY <1>3, <1>4, <1>5, <1>6, <1>7, <1>9, <1>10, <1>11, <1>12, <1>13, <1>14
     DEF Summary!Next, Summary!WriterStep, Summary!GatewayStep, Tasks, Summary!Tasks

(* A summary is marked as delivered only once a card was posted, by the     *)
(* handler or by the sweep (gateway.py, handle_summary, _deliver_pending).  *)
THEOREM DeliveredArePosted == SafetySpec => []DeliveredMeansPosted
<1>1. SafetyInit => CardStands
  BY DEF SafetyInit, Summary!Init, Summary!Idle, CardStands, Tasks, Summary!Tasks
<1>2. SummaryInv /\ CardStands /\ [SafetyNext]_SafetyVars => CardStands'
  BY EachPartSteps, CardStandsOn
<1>3. CardStands => DeliveredMeansPosted
  BY DEF CardStands, DeliveredMeansPosted, Summary!DeliveredMeansPosted
<1> QED
  BY <1>1, <1>2, <1>3, SummarySteady, PTL DEF SafetySpec

-----------------------------------------------------------------------------
(* The journal of the commands.                                             *)

SlashPlaces == {"unborn", "enabled?", "access?", "options?", "resolve", "write", "audit", "answer", "answered", "lost"}

SlashRecs == [pc : SlashPlaces, route : Slash!Routes, admin : BOOLEAN, result : Slash!Results]

Stages == {"invocation", "rejected", "effect"}

(* What has been written and noted of a command, by the place it stands at. *)
CommandFits(c, n, stage, missed) ==
    /\ n \in 0 .. Slash!Writes[c.route]
    /\ c.pc = "unborn" => n = 0
    /\ stage # NoDoc => c.pc \in {"answer", "answered", "lost"}
    /\ c.pc \in {"answer", "answered"} => stage # NoDoc \/ missed
    /\ c.result = "ok" => n = Slash!Writes[c.route] /\ c.pc \in {"audit", "answer", "answered", "lost"}
    /\ stage = "effect" => n = Slash!Writes[c.route]
    /\ stage = "invocation" => c.route \notin Slash!MutatingRoutes

SlashInv ==
    /\ cmdCall \in [Interactions -> SlashRecs]
    /\ cmdDid \in [Interactions -> Nat]
    /\ cmdAudit \in [Interactions -> Stages \cup {NoDoc}]
    /\ \A i \in Interactions : CommandFits(cmdCall[i], cmdDid[i], cmdAudit[i], i \in cmdUnaudited)

LEMMA WritesAreCounted == Slash!Writes \in [Slash!Routes -> Nat]
  BY DEF Slash!Writes

(* A step of one command leaves the others alone.                           *)
LEMMA CommandMoves ==
    ASSUME SlashInv, NEW i \in Interactions, NEW c \in SlashRecs, NEW n \in Nat,
           NEW stage \in Stages \cup {NoDoc}, NEW missed \in BOOLEAN,
           cmdCall' = [cmdCall EXCEPT ![i] = c], cmdDid' = [cmdDid EXCEPT ![i] = n],
           cmdAudit' = [cmdAudit EXCEPT ![i] = stage],
           cmdUnaudited' = IF missed THEN cmdUnaudited \cup {i} ELSE cmdUnaudited,
           CommandFits(c, n, stage, missed \/ i \in cmdUnaudited)
    PROVE  SlashInv'
<1>1. ASSUME NEW k \in Interactions
      PROVE  CommandFits(cmdCall'[k], cmdDid'[k], cmdAudit'[k], k \in cmdUnaudited')
  <2>1. CASE k = i
    <3>1. cmdCall'[k] = c /\ cmdDid'[k] = n /\ cmdAudit'[k] = stage
      BY <2>1 DEF SlashInv
    <3>2. missed \/ i \in cmdUnaudited => k \in cmdUnaudited'
      BY <2>1
    <3> QED
      BY <3>1, <3>2 DEF CommandFits
  <2>2. CASE k # i
    <3>1. cmdCall'[k] = cmdCall[k] /\ cmdDid'[k] = cmdDid[k] /\ cmdAudit'[k] = cmdAudit[k]
      BY <2>2 DEF SlashInv
    <3>2. k \in cmdUnaudited => k \in cmdUnaudited'
      OBVIOUS
    <3>3. CommandFits(cmdCall[k], cmdDid[k], cmdAudit[k], k \in cmdUnaudited)
      BY DEF SlashInv
    <3> QED
      BY <3>1, <3>2, <3>3 DEF CommandFits
  <2> QED
    BY <2>1, <2>2
<1>2. /\ cmdCall' \in [Interactions -> SlashRecs] /\ cmdDid' \in [Interactions -> Nat]
      /\ cmdAudit' \in [Interactions -> Stages \cup {NoDoc}]
  BY DEF SlashInv
<1> QED
  BY <1>1, <1>2 DEF SlashInv

(* Where a command goes when nothing is noted.                              *)
LEMMA CommandGoes ==
    ASSUME SlashInv, NEW i \in Interactions, NEW place \in SlashPlaces, NEW result \in Slash!Results,
           Slash!Goes(i, place, result), NEW n \in Nat, cmdDid' = [cmdDid EXCEPT ![i] = n],
           UNCHANGED <<cmdAudit, cmdUnaudited>>,
           cmdCall[i].pc \notin {"answer", "answered", "lost"},
           n \in 0 .. Slash!Writes[cmdCall[i].route],
           place \in {"access?", "options?", "resolve", "write", "audit"},
           result = "ok" => n = Slash!Writes[cmdCall[i].route] /\ place = "audit"
    PROVE  SlashInv'
<1> DEFINE c == [cmdCall[i] EXCEPT !.pc = place, !.result = result]
<1>1. cmdCall[i] \in SlashRecs
  BY DEF SlashInv
<1>2. c \in SlashRecs /\ c.pc = place /\ c.result = result /\ c.route = cmdCall[i].route
  BY <1>1 DEF SlashRecs
<1>3. cmdCall' = [cmdCall EXCEPT ![i] = c]
  BY DEF Slash!Goes
<1>4. cmdAudit' = [cmdAudit EXCEPT ![i] = NoDoc]
  BY DEF SlashInv, CommandFits
<1>5. CommandFits(c, n, NoDoc, FALSE \/ i \in cmdUnaudited)
  BY <1>2, PartsAssumption DEF CommandFits
<1> QED
  BY <1>2, <1>3, <1>4, <1>5, CommandMoves

LEMMA SlashKept == ASSUME SlashInv, [Slash!Next]_cmdVars PROVE SlashInv'
<1>1. CASE UNCHANGED cmdVars
  BY <1>1 DEF cmdVars, SlashInv
<1>2. CASE Slash!Crash
  <2>1. cmdCall' \in [Interactions -> SlashRecs]
    BY <1>2 DEF Slash!Crash, SlashInv, SlashRecs, SlashPlaces
  <2>2. ASSUME NEW i \in Interactions
        PROVE  CommandFits(cmdCall'[i], cmdDid'[i], cmdAudit'[i], i \in cmdUnaudited')
    <3>1. cmdDid'[i] = cmdDid[i] /\ cmdAudit'[i] = cmdAudit[i] /\ cmdUnaudited' = cmdUnaudited
      BY <1>2 DEF Slash!Crash
    <3>2. cmdCall'[i] = cmdCall[i] \/ cmdCall'[i] = [cmdCall[i] EXCEPT !.pc = "lost"]
      BY <1>2 DEF Slash!Crash
    <3>3. cmdCall[i] \in SlashRecs /\ CommandFits(cmdCall[i], cmdDid[i], cmdAudit[i], i \in cmdUnaudited)
      BY DEF SlashInv
    <3>4. CASE cmdCall'[i] = cmdCall[i]
      BY <3>1, <3>3, <3>4
    <3>5. CASE cmdCall'[i] = [cmdCall[i] EXCEPT !.pc = "lost"]
      BY <3>1, <3>3, <3>5 DEF CommandFits, SlashRecs
    <3> QED
      BY <3>2, <3>4, <3>5
  <2> QED
    BY <1>2, <2>1, <2>2 DEF Slash!Crash, SlashInv
<1>3. ASSUME NEW i \in Interactions,
             \/ \E r \in Slash!Routes, admin \in BOOLEAN : Slash!Receive(i, r, admin)
             \/ Slash!Proceeds(i)
             \/ Slash!EnabledLookupFails(i) \/ Slash!AccessLookupFails(i) \/ Slash!HandlerRaises(i)
      PROVE  SlashInv'
  <2>1. /\ cmdCall[i] \in SlashRecs /\ cmdDid[i] \in 0 .. Slash!Writes[cmdCall[i].route] /\ cmdDid[i] \in Nat
        /\ CommandFits(cmdCall[i], cmdDid[i], cmdAudit[i], i \in cmdUnaudited)
        /\ Slash!Writes[cmdCall[i].route] \in Nat
    BY WritesAreCounted DEF SlashInv, CommandFits, SlashRecs
  <2>2. ASSUME NEW r \in Slash!Routes, NEW admin \in BOOLEAN, Slash!Receive(i, r, admin) PROVE SlashInv'
    <3> DEFINE c == [Slash!NoCall EXCEPT !.pc = "enabled?", !.route = r, !.admin = admin]
    <3>1. c \in SlashRecs /\ c.pc = "enabled?" /\ c.route = r /\ c.result = "none"
      BY DEF Slash!NoCall, SlashRecs, SlashPlaces, Slash!Results
    <3>2. cmdCall[i].pc = "unborn"
      BY <2>2 DEF Slash!Receive, Slash!NoCall
    <3>3. cmdDid[i] = 0 /\ cmdAudit[i] = NoDoc
      BY <2>1, <3>2 DEF CommandFits
    <3>4. CommandFits(c, 0, NoDoc, FALSE \/ i \in cmdUnaudited)
      BY <3>1, WritesAreCounted, PartsAssumption DEF CommandFits
    <3>5. /\ cmdCall' = [cmdCall EXCEPT ![i] = c] /\ cmdDid' = [cmdDid EXCEPT ![i] = 0]
          /\ cmdAudit' = [cmdAudit EXCEPT ![i] = NoDoc] /\ cmdUnaudited' = cmdUnaudited
      BY <2>2, <3>3 DEF Slash!Receive, SlashInv
    <3> QED
      BY <3>1, <3>4, <3>5, CommandMoves
  <2>3. cmdDid = [cmdDid EXCEPT ![i] = cmdDid[i]]
    BY DEF SlashInv
  <2>4. CASE Slash!CheckEnabled(i) \/ Slash!EnabledLookupFails(i) \/ Slash!CheckAccess(i)
             \/ Slash!AccessLookupFails(i) \/ Slash!CheckOptions(i) \/ Slash!Resolve(i)
    <3>1. PICK place \in {"access?", "options?", "resolve", "write", "audit"},
               result \in Slash!Results \ {"ok"} : Slash!Goes(i, place, result)
      BY <2>4, Zenon DEF Slash!CheckEnabled, Slash!EnabledLookupFails, Slash!CheckAccess, Slash!AccessLookupFails,
         Slash!CheckOptions, Slash!Resolve, Slash!WhenDisabled, Slash!Results
    <3>2. cmdDid' = cmdDid /\ UNCHANGED <<cmdAudit, cmdUnaudited>>
          /\ cmdCall[i].pc \in {"enabled?", "access?", "options?", "resolve"}
      BY <2>4 DEF Slash!CheckEnabled, Slash!EnabledLookupFails, Slash!CheckAccess, Slash!AccessLookupFails,
         Slash!CheckOptions, Slash!Resolve
    <3>3. place \in SlashPlaces /\ result \in Slash!Results /\ result # "ok"
      BY DEF SlashPlaces
    <3> QED
      BY <2>1, <2>3, <3>1, <3>2, <3>3, CommandGoes
  <2>5. CASE Slash!Write(i) \/ Slash!HandlerRaises(i)
    <3>1. cmdCall[i].pc = "write" /\ UNCHANGED <<cmdAudit, cmdUnaudited>>
      BY <2>5 DEF Slash!Write, Slash!HandlerRaises
    <3>2. cmdAudit[i] = NoDoc /\ cmdCall[i].result # "ok"
      BY <2>1, <3>1 DEF CommandFits
    <3>3. CASE Slash!Write(i) /\ cmdDid[i] < Slash!Writes[cmdCall[i].route]
      <4>1. cmdDid' = [cmdDid EXCEPT ![i] = cmdDid[i] + 1] /\ cmdCall' = [cmdCall EXCEPT ![i] = cmdCall[i]]
            /\ cmdAudit' = [cmdAudit EXCEPT ![i] = NoDoc]
        BY <3>1, <3>2, <3>3 DEF Slash!Write, SlashInv
      <4>2. CommandFits(cmdCall[i], cmdDid[i] + 1, NoDoc, FALSE \/ i \in cmdUnaudited)
        BY <2>1, <3>1, <3>2, <3>3, PartsAssumption DEF CommandFits
      <4>3. cmdDid[i] + 1 \in Nat
        BY <2>1
      <4> QED
        BY <2>1, <3>1, <4>1, <4>2, <4>3, CommandMoves
    <3>4. CASE Slash!Write(i) /\ ~(cmdDid[i] < Slash!Writes[cmdCall[i].route])
      <4>1. cmdDid' = [cmdDid EXCEPT ![i] = cmdDid[i]] /\ Slash!Goes(i, "audit", "ok")
        BY <2>3, <3>4 DEF Slash!Write
      <4>2. cmdDid[i] = Slash!Writes[cmdCall[i].route]
        BY <2>1, <3>4
      <4> QED
        BY <2>1, <3>1, <4>1, <4>2, CommandGoes DEF SlashPlaces, Slash!Results
    <3>5. CASE Slash!HandlerRaises(i)
      <4>1. PICK n \in {cmdDid[i], cmdDid[i] + 1} : cmdDid' = [cmdDid EXCEPT ![i] = n]
        BY <2>3, <3>5 DEF Slash!HandlerRaises
      <4>2. n \in Nat /\ n \in 0 .. Slash!Writes[cmdCall[i].route]
        BY <2>1, <3>5 DEF Slash!HandlerRaises
      <4>3. Slash!Goes(i, "audit", "error")
        BY <3>5 DEF Slash!HandlerRaises, Slash!AfterRaise
      <4> QED
        BY <3>1, <4>1, <4>2, <4>3, CommandGoes DEF SlashPlaces, Slash!Results
    <3> QED
      BY <2>5, <3>3, <3>4, <3>5
  <2>6. CASE Slash!Audit(i)
    <3> DEFINE c == [cmdCall[i] EXCEPT !.pc = "answer"]
               stage == Slash!Stage(cmdCall[i].route, cmdCall[i].result)
    <3>1. cmdCall[i].pc = "audit" /\ cmdCall' = [cmdCall EXCEPT ![i] = c] /\ cmdDid' = [cmdDid EXCEPT ![i] = cmdDid[i]]
      BY <2>3, <2>6 DEF Slash!Audit
    <3>2. c \in SlashRecs /\ c.pc = "answer" /\ c.route = cmdCall[i].route /\ c.result = cmdCall[i].result
      BY <2>1 DEF SlashRecs, SlashPlaces
    <3>3. CASE cmdAudit' = [cmdAudit EXCEPT ![i] = stage] /\ cmdUnaudited' = cmdUnaudited
      <4>1. stage \in Stages /\ stage # NoDoc
        BY PartsAssumption DEF Slash!Stage, Stages
      <4>2. CommandFits(c, cmdDid[i], stage, FALSE \/ i \in cmdUnaudited)
        BY <2>1, <3>2, <4>1 DEF CommandFits, Slash!Stage
      <4> QED
        BY <2>1, <3>1, <3>2, <3>3, <4>1, <4>2, CommandMoves
    <3>4. CASE cmdAudit' = cmdAudit /\ cmdUnaudited' = cmdUnaudited \cup {i}
      <4>1. cmdAudit[i] = NoDoc
        BY <2>1, <3>1 DEF CommandFits
      <4>2. cmdAudit' = [cmdAudit EXCEPT ![i] = NoDoc]
        BY <3>4, <4>1 DEF SlashInv
      <4>3. CommandFits(c, cmdDid[i], NoDoc, TRUE \/ i \in cmdUnaudited)
        BY <2>1, <3>2, PartsAssumption DEF CommandFits
      <4> QED
        BY <2>1, <3>1, <3>2, <3>4, <4>2, <4>3, CommandMoves
    <3> QED
      BY <2>6, <3>3, <3>4 DEF Slash!Audit
  <2>7. CASE Slash!Answer(i)
    <3> DEFINE c == [cmdCall[i] EXCEPT !.pc = "answered"]
    <3>1. /\ cmdCall[i].pc = "answer" /\ cmdCall' = [cmdCall EXCEPT ![i] = c]
          /\ cmdDid' = [cmdDid EXCEPT ![i] = cmdDid[i]] /\ cmdUnaudited' = cmdUnaudited
          /\ cmdAudit' = [cmdAudit EXCEPT ![i] = cmdAudit[i]] /\ cmdAudit[i] \in Stages \cup {NoDoc}
      BY <2>3, <2>7 DEF Slash!Answer, SlashInv
    <3>2. c \in SlashRecs /\ c.pc = "answered" /\ c.route = cmdCall[i].route /\ c.result = cmdCall[i].result
      BY <2>1 DEF SlashRecs, SlashPlaces
    <3>3. CommandFits(c, cmdDid[i], cmdAudit[i], FALSE \/ i \in cmdUnaudited)
      BY <2>1, <3>1, <3>2 DEF CommandFits
    <3> QED
      BY <2>1, <3>1, <3>2, <3>3, CommandMoves
  <2> QED
    BY <1>3, <2>2, <2>4, <2>5, <2>6, <2>7 DEF Slash!Proceeds
<1> QED
  BY <1>1, <1>2, <1>3 DEF Slash!Next

LEMMA SlashSteady == SafetySpec => []SlashInv
<1>1. SafetyInit => SlashInv
  <2> SUFFICES ASSUME Slash!Init PROVE SlashInv
    BY DEF SafetyInit
  <2>1. Slash!NoCall \in SlashRecs /\ Slash!NoCall.pc = "unborn" /\ Slash!NoCall.result = "none"
    BY DEF Slash!NoCall, SlashRecs, SlashPlaces, Slash!Routes, Slash!Results
  <2>2. CommandFits(Slash!NoCall, 0, NoDoc, FALSE)
    <3>1. Slash!Writes[Slash!NoCall.route] \in Nat
      BY <2>1, WritesAreCounted DEF SlashRecs
    <3>2. NoDoc \notin {"invocation", "rejected", "effect"}
      BY PartsAssumption
    <3> QED
      BY <2>1, <3>1, <3>2 DEF CommandFits
  <2>3. \A i \in Interactions : CommandFits(Slash!NoCall, 0, NoDoc, i \in cmdUnaudited)
    BY <2>2 DEF CommandFits
  <2> QED
    BY <2>1, <2>3 DEF Slash!Init, SlashInv
<1>2. SlashInv /\ [SafetyNext]_SafetyVars => SlashInv'
  BY EachPartSteps, SlashKept
<1> QED
  BY <1>1, <1>2, PTL DEF SafetySpec

(* Who was answered stands in the journal, unless the journal failed, and a *)
(* crash leaves nobody answered without it (services/commands.py,           *)
(* _audit_command).                                                         *)
THEOREM AnsweredAreAudited == SafetySpec => []AnsweredIsAudited
<1>1. SlashInv => AnsweredIsAudited
  BY DEF SlashInv, CommandFits, AnsweredIsAudited, Slash!AnsweredIsAudited
<1> QED
  BY <1>1, SlashSteady, PTL

(* A confirmed effect in the journal stands for all writes of its route, of *)
(* whichever call failed, and a mutating route never for a mere invocation  *)
(* (services/commands.py, effect_proved).                                   *)
THEOREM NotedEffectsAreProved == SafetySpec => []EffectsAreProved
<1>1. SlashInv => EffectsAreProved
  BY DEF SlashInv, CommandFits, EffectsAreProved, Slash!EffectsAreProved
<1> QED
  BY <1>1, SlashSteady, PTL
=============================================================================
