--------------------------- MODULE SlashCommands ---------------------------
(* The commands service: an interaction is checked against what the         *)
(* dashboard switched off and against the access of its route, carried out, *)
(* noted in web_audit_logs with the stage that was reached, and answered.   *)
(* Calls of Mongo and Discord may raise; what the dashboard has set may be  *)
(* anything at the moment it is read, for it changes at any time.           *)
EXTENDS Naturals, FiniteSets

CONSTANTS
    Interactions,
    None,
    MaxTroubles  \* bound: calls that raise, and crashes

VARIABLES
    call,     \* on_interaction, by interaction
    did,      \* writes an interaction has made
    audit,    \* its record in web_audit_logs: a stage
    unaudited,\* history: interactions whose record could not be stored
    troubles

vars == <<call, did, audit, unaudited, troubles>>

(* One route of each kind: a read; a write after Discord was asked; two     *)
(* deletions; the same of anybody; the settings, which check their own      *)
(* policy; the switch of the soundboard. *)
Routes == {"inspect", "connect", "trusted remove", "stalker stop", "settings summary-clear", "settings soundboard"}
AdminByDefault == {"connect", "trusted remove"}                                 \* ADMIN_BY_DEFAULT_ROOTS
Legacy == {"inspect", "settings summary-clear", "settings soundboard"}          \* _dispatch_legacy_voice_command
MutatingRoutes == {"connect", "trusted remove", "stalker stop", "settings summary-clear"}
Overrides == {"", "all", "admin"}

(* The writes of a route: remove_trusted_user and the subscriptions;        *)
(* remember_fallback_summary_channel and clear_summary_channel. *)
Writes == [r \in Routes |-> IF r = "inspect" THEN 0
                            ELSE IF r \in {"trusted remove", "settings summary-clear"} THEN 2 ELSE 1]
AsksDiscord == {"connect"}

NoCall == [pc |-> "unborn", route |-> "inspect", admin |-> FALSE, result |-> "none"]

Init ==
    /\ call = [i \in Interactions |-> NoCall]
    /\ did = [i \in Interactions |-> 0]
    /\ audit = [i \in Interactions |-> None]
    /\ unaudited = {}
    /\ troubles = 0

-----------------------------------------------------------------------------
Goes(i, pc, result) == call' = [call EXCEPT ![i].pc = pc, ![i].result = result]

Receive(i, r, admin) ==
    /\ call[i] = NoCall
    /\ call' = [call EXCEPT ![i] = [NoCall EXCEPT !.pc = "enabled?", !.route = r, !.admin = admin]]
    /\ UNCHANGED <<did, audit, unaudited, troubles>>

(* Slip: the refusal is answered at once. *)
AnsweredAtOnce == "answer"

(* A disabled command is noted too. *)
WhenDisabled == "audit"

(* _command_enabled: what the dashboard has switched off just now. *)
CheckEnabled(i) ==
    /\ call[i].pc = "enabled?"
    /\ \E on \in BOOLEAN : IF on THEN Goes(i, "access?", "none") ELSE Goes(i, WhenDisabled, "disabled")
    /\ UNCHANGED <<did, audit, unaudited, troubles>>

(* When Mongo does not answer, every command is on. *)
EnabledLookupFails(i) ==
    /\ call[i].pc = "enabled?" /\ troubles < MaxTroubles /\ troubles' = troubles + 1
    /\ Goes(i, "access?", "none")
    /\ UNCHANGED <<did, audit, unaudited>>

(* _route_access_ok, and can_use_voice_command for the legacy routes. *)
Allowed(r, admin, override) ==
    /\ (override = "admin" \/ (override = "" /\ r \in AdminByDefault)) => admin
    /\ (r \in Legacy /\ override # "all") => admin

CheckAccess(i) ==
    /\ call[i].pc = "access?"
    /\ \E override \in Overrides :
          IF Allowed(call[i].route, call[i].admin, override)
          THEN Goes(i, "options?", "none") ELSE Goes(i, "audit", "permissions")
    /\ UNCHANGED <<did, audit, unaudited, troubles>>

(* _command_access_map: without an answer the defaults hold. *)
AccessLookupFails(i) ==
    /\ call[i].pc = "access?" /\ troubles < MaxTroubles /\ troubles' = troubles + 1
    /\ IF Allowed(call[i].route, call[i].admin, "")
       THEN Goes(i, "options?", "none") ELSE Goes(i, "audit", "permissions")
    /\ UNCHANGED <<did, audit, unaudited>>

(* The options may be refused (ValueError), or the subcommand unknown. *)
CheckOptions(i) ==
    /\ call[i].pc = "options?"
    /\ \/ Goes(i, IF call[i].route \in AsksDiscord THEN "resolve" ELSE "write", "none")
       \/ Goes(i, "audit", "rejected")
       \/ Goes(i, "audit", "unknown")
    /\ UNCHANGED <<did, audit, unaudited, troubles>>

(* _resolve_voice_target_channel and _bot_member await Discord. *)
Resolve(i) ==
    /\ call[i].pc = "resolve"
    /\ \E found \in BOOLEAN : IF found THEN Goes(i, "write", "none") ELSE Goes(i, "audit", "rejected")
    /\ UNCHANGED <<did, audit, unaudited, troubles>>

(* One write of the handler, or its return. *)
Write(i) ==
    /\ call[i].pc = "write"
    /\ IF did[i] < Writes[call[i].route]
       THEN did' = [did EXCEPT ![i] = @ + 1] /\ UNCHANGED call
       ELSE Goes(i, "audit", "ok") /\ UNCHANGED did
    /\ UNCHANGED <<audit, unaudited, troubles>>

(* on_interaction turns what a handler raises into "Command failed"; the    *)
(* call may have been carried out all the same. *)
AfterRaise == [pc |-> "audit", result |-> "error"]

HandlerRaises(i) ==
    /\ call[i].pc = "write" /\ did[i] < Writes[call[i].route]
    /\ troubles < MaxTroubles /\ troubles' = troubles + 1
    /\ Goes(i, AfterRaise.pc, AfterRaise.result)
    /\ did' \in {did, [did EXCEPT ![i] = @ + 1]}
    /\ UNCHANGED <<audit, unaudited>>

(* effect_proved and classify_stage. *)
Stage(route, result) ==
    IF result # "ok" THEN "rejected" ELSE IF route \in MutatingRoutes THEN "effect" ELSE "invocation"

(* _audit_command; a failure of the journal is only logged. *)
Audit(i) ==
    /\ call[i].pc = "audit" /\ call' = [call EXCEPT ![i].pc = "answer"]
    /\ \/ audit' = [audit EXCEPT ![i] = Stage(call[i].route, call[i].result)] /\ UNCHANGED <<unaudited, troubles>>
       \/ /\ troubles < MaxTroubles /\ troubles' = troubles + 1
          /\ unaudited' = unaudited \cup {i} /\ UNCHANGED audit
    /\ UNCHANGED did

Answer(i) ==
    /\ call[i].pc = "answer" /\ call' = [call EXCEPT ![i].pc = "answered"]
    /\ UNCHANGED <<did, audit, unaudited, troubles>>

(* The service dies with whatever it had in hand; or the answer raises. *)
Crash ==
    /\ troubles < MaxTroubles /\ troubles' = troubles + 1
    /\ call' = [i \in Interactions |-> IF call[i].pc \in {"unborn", "answered"} THEN call[i] ELSE [call[i] EXCEPT !.pc = "lost"]]
    /\ UNCHANGED <<did, audit, unaudited>>

Proceeds(i) == CheckEnabled(i) \/ CheckAccess(i) \/ CheckOptions(i) \/ Resolve(i) \/ Write(i) \/ Audit(i) \/ Answer(i)

Next ==
    \/ Crash
    \/ \E i \in Interactions :
          \/ \E r \in Routes, admin \in BOOLEAN : Receive(i, r, admin)
          \/ Proceeds(i)
          \/ EnabledLookupFails(i) \/ AccessLookupFails(i) \/ HandlerRaises(i)

Spec == Init /\ [][Next]_vars

FairSpec == Spec /\ \A i \in Interactions : WF_vars(Proceeds(i))

-----------------------------------------------------------------------------
Results == {"none", "ok", "disabled", "permissions", "rejected", "unknown", "error"}

(* The interactions are well formed; one that was refused before its        *)
(* handler began has written nothing (services/commands.py, on_interaction).*)
TypeOK ==
    /\ \A i \in Interactions :
          /\ call[i].pc \in {"unborn", "enabled?", "access?", "options?", "resolve", "write", "audit", "answer", "answered", "lost"}
          /\ call[i].route \in Routes /\ call[i].result \in Results
          /\ did[i] \in 0 .. Writes[call[i].route]
          /\ call[i].result \in {"disabled", "permissions", "rejected", "unknown"} => did[i] = 0
    /\ audit \in [Interactions -> {None, "invocation", "rejected", "effect"}]
    /\ unaudited \subseteq Interactions /\ troubles \in 0 .. MaxTroubles

(* An interaction the journal shows with a confirmed effect has made all    *)
(* its writes, and one whose journal shows an invocation of a mutating      *)
(* route does not exist, however the calls failed (R26-04;                  *)
(* services/commands.py, effect_proved). *)
EffectsAreProved ==
    \A i \in Interactions :
        /\ audit[i] = "effect" => did[i] = Writes[call[i].route]
        /\ audit[i] = "invocation" => call[i].route \notin MutatingRoutes

(* Who was answered stands in the journal, unless the journal failed        *)
(* (services/commands.py, _audit_command before the answer). *)
AnsweredIsAudited == \A i \in Interactions : call[i].pc = "answered" => audit[i] # None \/ i \in unaudited

(* An interaction the service received is answered, or the service died     *)
(* over it (services/commands.py, on_interaction). *)
EveryoneAnswered ==
    \A i \in Interactions : []<>(call[i].pc \in {"unborn", "answered", "lost"})

=============================================================================
