------------------------ MODULE GuildSettingsProofs ------------------------
(* Proofs about GuildSettings, for any writers, intents, number of attempts *)
(* and bounds.                                                              *)
EXTENDS GuildSettings, TLAPS

Active(w) == pc[w] \in {"reading", "writing"}

(* Every attempt that a call has used up was lost to a write of another;    *)
(* one that holds a stale object is about to be lost as well.               *)
AttemptsAreLost ==
    \A w \in Writers :
        /\ Active(w) => left[w] >= 1 /\ wins >= since[w] + Attempts - left[w]
        /\ pc[w] = "writing" /\ copy[w].rev # Revision => wins > since[w] + Attempts - left[w]
        /\ pc[w] = "conflict" => wins >= since[w] + Attempts

SettingsInv == TypeOK /\ CopiesAreCurrent /\ AttemptsAreLost

-----------------------------------------------------------------------------

(* What is loaded, and what an intent makes of it, are settings again. *)
LEMMA LoadedIsValue == ASSUME NEW v \in Values PROVE Loaded(v) \in Values
  BY DEF Values, Loaded, Modes, Places

LEMMA FreshIsValue == Fresh \in Values
  BY DEF Fresh, Values, Modes, Places, TrackingModes, NoActivity

LEMMA AppliedIsValue ==
    ASSUME NEW i \in Intents, NEW v \in Values
    PROVE  Applied(i, v) \in Values
<1> USE DEF Values, Prepared, Places, TrackingModes
<1>1. CASE i \in Connects
  BY <1>1 DEF Connects, Applied
<1>2. CASE i \in Joins
  BY <1>2 DEF Joins, Applied
<1>3. CASE i \in SetsMode
  BY <1>3 DEF SetsMode, Applied
<1>4. CASE i \in Adds
  BY <1>4 DEF Adds, Applied
<1>5. CASE i \in Removes
  BY <1>5 DEF Removes, Applied
<1>6. CASE i \in Applies
  BY <1>6 DEF Applies, Applied
<1>7. CASE i \in Plain
  <2>1. CASE i.op \in {"disconnect", "leave", "connected", "disconnected", "fallback"}
    BY <2>1 DEF Applied
  <2>2. CASE i.op = "untrack all"
    BY <2>2 DEF Applied, Tracking, Listed
  <2>3. CASE i.op = "clear activity"
    <3>1. NoActivity \in [Kinds \cup {"other"} -> Places]
      BY DEF NoActivity
    <3> QED
      BY <2>3, <3>1 DEF Applied
  <2> QED
    BY <1>7, <2>1, <2>2, <2>3 DEF Plain
<1>8. CASE i \in Tracks
  BY ZenonT(40), <1>8 DEF Tracks, Applied, Tracking, Listed
<1>9. CASE i \in SetsTracked
  BY <1>9 DEF SetsTracked, Applied, Listed
<1>10. CASE i \in SetsTracking
  BY <1>10 DEF SetsTracking, Applied
<1>11. CASE i \in SetsActivity
  BY <1>11 DEF SetsActivity, Applied
<1> QED
  BY <1>1, <1>2, <1>3, <1>4, <1>5, <1>6, <1>7, <1>8, <1>9, <1>10, <1>11 DEF Intents

LEMMA CurrentTypes ==
    ASSUME TypeOK
    PROVE  Value \in Values /\ Revision \in Nat
  BY FreshIsValue DEF TypeOK, Value, Revision, Docs

LEMMA IntentTypes ==
    ASSUME TypeOK, NEW w \in Writers, pc[w] # "idle"
    PROVE  intent[w] \in Intents
  BY DEF TypeOK

-----------------------------------------------------------------------------

(* What a write stores, read back. *)
LEMMA StoredIsRead ==
    ASSUME TypeOK, NEW w \in Writers, Stored(w)
    PROVE  Value' = copy[w].value /\ Revision' = Revision + 1 /\ doc' \in Docs /\ wins' = wins + 1
<1>1. doc' = [rev |-> Revision + 1, value |-> copy[w].value]
  BY DEF Stored
<1>2. doc' \in Docs
  BY <1>1, CurrentTypes DEF TypeOK, Docs
<1>3. doc' # NoDoc
  BY <1>2, SettingsAssumption DEF Docs
<1> QED
  BY <1>1, <1>2, <1>3 DEF Value, Revision, Stored

LEMMA TypesKept == ASSUME TypeOK, AttemptsAreLost, [Next]_vars PROVE TypeOK'
<1> USE SettingsAssumption
<1>1. ASSUME NEW w \in Writers, NEW i \in Incoming, Call(w, i) PROVE TypeOK'
  BY <1>1 DEF TypeOK, Call, InitialAttempts
<1>2. ASSUME NEW w \in Writers, Read(w) PROVE TypeOK'
  <2>1. intent[w] \in Intents
    BY <1>2, IntentTypes DEF Read
  <2>2. [rev |-> Revision, value |-> Applied(intent[w], Loaded(Value))] \in Docs
    BY <2>1, CurrentTypes, LoadedIsValue, AppliedIsValue DEF Docs
  <2> QED
    BY <1>2, <2>1, <2>2 DEF TypeOK, Read, Ended
<1>3. ASSUME NEW w \in Writers, Write(w) PROVE TypeOK'
  <2>1. doc' \in Docs /\ wins' \in Nat
    BY <1>3, StoredIsRead DEF Write, TypeOK
  <2> QED
    BY <1>3, <2>1 DEF TypeOK, Write, Ended
<1>4. ASSUME NEW w \in Writers, Conflict(w) PROVE TypeOK'
  BY <1>4 DEF TypeOK, Conflict, GivesUp, Again, Ended, AttemptsAreLost, Active
<1>5. ASSUME NEW w \in Writers, Fail(w) PROVE TypeOK'
  <2>1. doc' \in Docs \cup {NoDoc} /\ wins' \in Nat
    BY <1>5, StoredIsRead DEF Fail, TypeOK
  <2> QED
    BY <1>5, <2>1 DEF TypeOK, Fail, Ended
<1>6. ASSUME NEW w \in Writers, Return(w) PROVE TypeOK'
  BY <1>6 DEF TypeOK, Return, Ended
<1>7. CASE UNCHANGED vars
  BY <1>7 DEF TypeOK, vars
<1> QED
  BY <1>1, <1>2, <1>3, <1>4, <1>5, <1>6, <1>7 DEF Next

(* A write leaves every other object in hand behind. *)
LEMMA CopiesKept == ASSUME SettingsInv, [Next]_vars PROVE CopiesAreCurrent'
<1> USE DEF SettingsInv
<1>1. ASSUME NEW w \in Writers, NEW i \in Incoming, Call(w, i) PROVE CopiesAreCurrent'
  BY <1>1 DEF CopiesAreCurrent, Call, TypeOK, Value, Revision
<1>2. ASSUME NEW w \in Writers, Read(w) PROVE CopiesAreCurrent'
  <2>1. Value' = Value /\ Revision' = Revision /\ Revision \in Nat
    BY <1>2, CurrentTypes DEF Read, Value, Revision
  <2> QED
    BY <1>2, <2>1 DEF CopiesAreCurrent, Read, TypeOK
<1>3. ASSUME NEW w \in Writers, Write(w) PROVE CopiesAreCurrent'
  <2>1. Revision' = Revision + 1 /\ Revision \in Nat
    BY <1>3, StoredIsRead, CurrentTypes DEF Write
  <2>2. \A x \in Writers : copy[x].rev \in Nat
    BY DEF TypeOK, Docs
  <2> QED
    BY <1>3, <2>1, <2>2 DEF CopiesAreCurrent, Write, TypeOK
<1>4. ASSUME NEW w \in Writers, Conflict(w) PROVE CopiesAreCurrent'
  BY <1>4 DEF CopiesAreCurrent, Conflict, Again, TypeOK, Value, Revision
<1>5. ASSUME NEW w \in Writers, Fail(w) PROVE CopiesAreCurrent'
  <2>1. CASE Stored(w)
    <3>1. Revision' = Revision + 1 /\ Revision \in Nat
      BY <2>1, StoredIsRead, CurrentTypes
    <3>2. \A x \in Writers : copy[x].rev \in Nat
      BY DEF TypeOK, Docs
    <3> QED
      BY <1>5, <3>1, <3>2 DEF CopiesAreCurrent, Fail, TypeOK
  <2>2. CASE UNCHANGED <<doc, wins, lastMode>>
    BY <1>5, <2>2 DEF CopiesAreCurrent, Fail, TypeOK, Value, Revision
  <2> QED
    BY <1>5, <2>1, <2>2 DEF Fail
<1>6. ASSUME NEW w \in Writers, Return(w) PROVE CopiesAreCurrent'
  BY <1>6 DEF CopiesAreCurrent, Return, TypeOK, Value, Revision
<1>7. CASE UNCHANGED vars
  BY <1>7 DEF CopiesAreCurrent, vars, Value, Revision
<1> QED
  BY <1>1, <1>2, <1>3, <1>4, <1>5, <1>6, <1>7 DEF Next

LEMMA LossesKept == ASSUME SettingsInv, [Next]_vars PROVE AttemptsAreLost'
<1> USE SettingsAssumption DEF SettingsInv, Active
<1>1. ASSUME NEW w \in Writers, NEW i \in Incoming, Call(w, i) PROVE AttemptsAreLost'
  BY <1>1 DEF AttemptsAreLost, Call, TypeOK, Revision, InitialAttempts
<1>2. ASSUME NEW w \in Writers, Read(w) PROVE AttemptsAreLost'
  <2>1. Revision' = Revision
    BY <1>2 DEF Read, Revision
  <2> QED
    BY <1>2, <2>1 DEF AttemptsAreLost, Read, TypeOK
<1>3. ASSUME NEW w \in Writers, Write(w) PROVE AttemptsAreLost'
  <2>1. wins' = wins + 1
    BY <1>3, StoredIsRead DEF Write
  <2> QED
    BY <1>3, <2>1 DEF AttemptsAreLost, Write, TypeOK
<1>4. ASSUME NEW w \in Writers, Conflict(w) PROVE AttemptsAreLost'
  <2>1. Revision' = Revision /\ copy[w].rev # Revision
    BY <1>4 DEF Conflict, Revision, Matches
  <2> QED
    BY <1>4, <2>1 DEF AttemptsAreLost, Conflict, GivesUp, Again, TypeOK
<1>5. ASSUME NEW w \in Writers, Fail(w) PROVE AttemptsAreLost'
  <2>1. CASE Stored(w)
    <3>1. wins' = wins + 1
      BY <2>1, StoredIsRead
    <3> QED
      BY <1>5, <3>1 DEF AttemptsAreLost, Fail, TypeOK
  <2>2. CASE UNCHANGED <<doc, wins, lastMode>>
    BY <1>5, <2>2 DEF AttemptsAreLost, Fail, TypeOK, Revision
  <2> QED
    BY <1>5, <2>1, <2>2 DEF Fail
<1>6. ASSUME NEW w \in Writers, Return(w) PROVE AttemptsAreLost'
  BY <1>6 DEF AttemptsAreLost, Return, TypeOK, Revision, Ended
<1>7. CASE UNCHANGED vars
  BY <1>7 DEF AttemptsAreLost, vars, Revision
<1> QED
  BY <1>1, <1>2, <1>3, <1>4, <1>5, <1>6, <1>7 DEF Next

LEMMA SettingsInduction == Spec => []SettingsInv
<1>1. Init => SettingsInv
  BY SettingsAssumption, FreshIsValue DEF Init, SettingsInv, TypeOK, CopiesAreCurrent, AttemptsAreLost, Active, Ended, Docs
<1>2. SettingsInv /\ [Next]_vars => SettingsInv'
  BY TypesKept, CopiesKept, LossesKept DEF SettingsInv
<1> QED
  BY <1>1, <1>2, PTL DEF Spec

-----------------------------------------------------------------------------

(* The settings, the objects in hand and the counters stay well formed.     *)
THEOREM SettingsTypeCorrect == Spec => []TypeOK
  BY SettingsInduction, PTL DEF SettingsInv

(* No object that will be accepted takes back what another writer did.      *)
THEOREM NoLostUpdate == Spec => []CopiesAreCurrent
  BY SettingsInduction, PTL DEF SettingsInv

(* A caller that is refused has lost every one of its attempts to a write   *)
(* that went through. *)
THEOREM RefusalsAreEarned == Spec => []ConflictsAreEarned
<1>1. SettingsInv => ConflictsAreEarned
  BY DEF SettingsInv, AttemptsAreLost, ConflictsAreEarned
<1> QED
  BY <1>1, SettingsInduction, PTL

(* An accepted object is the intent applied to the settings of the moment.  *)
LEMMA AcceptedIsApplied ==
    ASSUME SettingsInv, NEW w \in Writers, pc[w] = "writing", Matches(w), Stored(w)
    PROVE  Value' = Applied(intent[w], Loaded(Value))
  BY StoredIsRead DEF SettingsInv, CopiesAreCurrent, Matches

(* The abstract module has the same intents and the same effects. *)
LEMMA SameIntents == Atomic!Intents = Intents
  BY DEF Atomic!Intents, Intents, Atomic!Connects, Connects, Atomic!Joins, Joins, Atomic!SetsMode, SetsMode,
         Atomic!Adds, Adds, Atomic!Removes, Removes, Atomic!Applies, Applies, Atomic!Plain, Plain, Atomic!Modes, Modes,
         Atomic!Tracks, Tracks, Atomic!SetsTracked, SetsTracked, Atomic!SetsTracking, SetsTracking,
         Atomic!SetsActivity, SetsActivity, Atomic!TrackingModes, TrackingModes, Atomic!Places, Places

LEMMA SameEffects ==
    ASSUME NEW i, NEW v
    PROVE  /\ Atomic!Loaded(v) = Loaded(v)
           /\ Atomic!Skips(i, v) = Skips(i, v)
           /\ Atomic!Applied(i, v) = Applied(i, v)
  BY DEF Atomic!Loaded, Loaded, Atomic!Skips, Skips, Atomic!Applied, Applied, Atomic!Prepared, Prepared,
         Atomic!Tracking, Tracking, Atomic!Listed, Listed, Atomic!NoActivity, NoActivity

LEMMA StepsAreAtomic == ASSUME SettingsInv, [Next]_vars PROVE [Atomic!Next]_(Atomic!vars)
<1> USE DEF SettingsInv, Atomic!vars
<1>1. ASSUME NEW w \in Writers, NEW i \in Incoming, Call(w, i) PROVE Atomic!Next
  <2>1. Outcome[w] = "idle" /\ Outcome' = [Outcome EXCEPT ![w] = "pending"] /\ Value' = Value
    BY <1>1 DEF Call, Outcome, TypeOK, Value
  <2>2. i \in Atomic!Intents
    BY SettingsAssumption, SameIntents
  <2>3. Atomic!Call(w)
    BY <1>1, <2>1, <2>2 DEF Call, Atomic!Call
  <2> QED
    BY <2>3 DEF Atomic!Next
<1>2. ASSUME NEW w \in Writers, Read(w) PROVE [Atomic!Next]_(Atomic!vars)
  <2>1. CASE Skips(intent[w], Loaded(Value))
    <3>1. Outcome[w] = "pending" /\ Outcome' = [Outcome EXCEPT ![w] = "skipped"] /\ Value' = Value
      BY <1>2, <2>1 DEF Read, Outcome, TypeOK, Value
    <3>2. Atomic!Skip(w)
      BY <1>2, <2>1, <3>1, SameEffects DEF Read, Atomic!Skip, Atomic!Ends
    <3> QED
      BY <3>2 DEF Atomic!Next
  <2>2. CASE ~Skips(intent[w], Loaded(Value))
    BY <1>2, <2>2 DEF Read, Outcome, TypeOK, Value
  <2> QED
    BY <2>1, <2>2
<1>3. ASSUME NEW w \in Writers, Write(w) PROVE Atomic!Next
  <2>1. Outcome[w] = "pending" /\ Outcome' = [Outcome EXCEPT ![w] = "applied"]
    BY <1>3 DEF Write, Outcome, TypeOK
  <2>2. Value' = Applied(intent[w], Loaded(Value))
    BY <1>3, AcceptedIsApplied DEF Write
  <2>3. Atomic!Succeed(w)
    BY <1>3, <2>1, <2>2, SameEffects DEF Write, Atomic!Succeed, Atomic!Ends, Atomic!Apply
  <2> QED
    BY <2>3 DEF Atomic!Next
<1>4. ASSUME NEW w \in Writers, Conflict(w) PROVE [Atomic!Next]_(Atomic!vars)
  <2>1. CASE GivesUp(w)
    <3>1. Outcome[w] = "pending" /\ Outcome' = [Outcome EXCEPT ![w] = "conflict"] /\ Value' = Value
      BY <1>4, <2>1 DEF Conflict, Outcome, TypeOK, Value
    <3>2. Atomic!Refuse(w)
      BY <1>4, <3>1 DEF Conflict, Atomic!Refuse, Atomic!Ends
    <3> QED
      BY <3>2 DEF Atomic!Next
  <2>2. CASE ~GivesUp(w)
    BY <1>4, <2>2 DEF Conflict, Again, Outcome, TypeOK, Value
  <2> QED
    BY <2>1, <2>2
<1>5. ASSUME NEW w \in Writers, Fail(w) PROVE Atomic!Next
  <2>1. Outcome[w] = "pending" /\ Outcome' = [Outcome EXCEPT ![w] = "failed"]
    BY <1>5 DEF Fail, Outcome, TypeOK
  <2>2. Value' = Applied(intent[w], Loaded(Value)) \/ Value' = Value
    <3>1. CASE Matches(w) /\ Stored(w)
      BY <1>5, <3>1, AcceptedIsApplied DEF Fail
    <3>2. CASE UNCHANGED <<doc, wins, lastMode>>
      BY <3>2 DEF Value
    <3> QED
      BY <1>5, <3>1, <3>2 DEF Fail
  <2>3. Atomic!Break(w)
    BY <1>5, <2>1, <2>2, SameEffects DEF Fail, Atomic!Break, Atomic!Ends, Atomic!Apply
  <2> QED
    BY <2>3 DEF Atomic!Next
<1>6. ASSUME NEW w \in Writers, Return(w) PROVE Atomic!Next
  <2>1. Outcome[w] \notin {"idle", "pending"} /\ Outcome' = [Outcome EXCEPT ![w] = "idle"] /\ Value' = Value
    BY <1>6 DEF Return, Outcome, TypeOK, Value, Ended
  <2>2. Atomic!Return(w)
    BY <1>6, <2>1 DEF Return, Atomic!Return
  <2> QED
    BY <2>2 DEF Atomic!Next
<1>7. CASE UNCHANGED vars
  BY <1>7 DEF vars, Value, Outcome
<1> QED
  BY <1>1, <1>2, <1>3, <1>4, <1>5, <1>6, <1>7 DEF Next

(* The compare-and-set writers implement the atomic updates of              *)
(* AtomicSettings. *)
THEOREM SettingsAreAtomic == Spec => ImplementsAtomicSettings
<1>1. Init => Atomic!Init
  BY FreshIsValue DEF Init, Atomic!Init, Value, Outcome, Atomic!Values, Values, Atomic!Modes, Modes, Atomic!Places, Places, Atomic!TrackingModes, TrackingModes
<1>2. SettingsInv /\ [Next]_vars => [Atomic!Next]_(Atomic!vars)
  BY StepsAreAtomic
<1> QED
  BY <1>1, <1>2, SettingsInduction, PTL DEF Spec, Atomic!Spec, ImplementsAtomicSettings
=============================================================================
