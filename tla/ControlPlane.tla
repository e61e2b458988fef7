---------------------------- MODULE ControlPlane ----------------------------
(* The control plane: jobs that the dashboard queues are taken off two      *)
(* subjects of core NATS, one at a time each, and carried out on Mongo and  *)
(* Discord.  A configuration is the number of times it was saved; each call *)
(* of Mongo or Discord is a step, and may raise.                            *)
EXTENDS Naturals, Sequences, FiniteSets, SequencesExt

CONSTANTS
    Jobs,        \* web_apply_jobs
    Voice,       \* modules that are settings of the guild: common, voice/settings, voice/access
    Others,      \* modules that are only cached
    None,
    MaxTroubles  \* bound: calls that raise, and crashes

VARIABLES
    config,    \* web_module_configs
    job,       \* web_apply_jobs
    queue,     \* messages on their way, by subject
    up, ready, \* the service; Discord's on_ready
    handler,   \* the callback under way, by subject
    settings,  \* what guild_settings took over: the last module, and how recent
    cached,    \* bot_runtime_module_cache
    did,       \* what an operation has done so far
    dropped,   \* history: jobs whose message was lost, or whose failure could not be noted
    troubles

vars == <<config, job, queue, up, ready, handler, settings, cached, did, dropped, troubles>>

Modules == Voice \cup Others
Subjects == {"apply", "ops"}

(* connect, disconnect, trusted, stalker; unmute, autorole; jump; status    *)
(* and inspect; anything else, or without its arguments. *)
Operations == {"write", "write and act", "act", "look", "bad"}
Writes(op) == op \in {"write", "write and act"}
Acts(op) == op \in {"act", "write and act"}
NeedOf(op) == (IF Writes(op) THEN {"write"} ELSE {}) \cup (IF Acts(op) THEN {"act"} ELSE {})

Unused == [state |-> "unused", what |-> None, need |-> 0]
Free == [pc |-> "free", job |-> None, value |-> 0]
SubjectOf(j) == IF job[j].what \in Modules THEN "apply" ELSE "ops"

Init ==
    /\ config = [m \in Modules |-> 0]
    /\ job = [j \in Jobs |-> Unused]
    /\ queue = [s \in Subjects |-> <<>>]
    /\ up = TRUE /\ ready = FALSE
    /\ handler = [s \in Subjects |-> Free]
    /\ settings = [module |-> None, value |-> 0]
    /\ cached = [m \in Modules |-> 0]
    /\ did = [j \in Jobs |-> {}]
    /\ dropped = {}
    /\ troubles = 0

-----------------------------------------------------------------------------
(* The dashboard saves a configuration or is asked for an operation, notes  *)
(* the job, and then publishes its message: two of its workers may do that  *)
(* in any order. *)
Save(j, m) ==
    /\ job[j] = Unused
    /\ config' = [config EXCEPT ![m] = @ + 1]
    /\ job' = [job EXCEPT ![j] = [state |-> "saved", what |-> m, need |-> config[m] + 1]]
    /\ UNCHANGED <<queue, up, ready, handler, settings, cached, did, dropped, troubles>>

Ask(j, op) ==
    /\ job[j] = Unused
    /\ job' = [job EXCEPT ![j] = [state |-> "saved", what |-> op, need |-> 0]]
    /\ UNCHANGED <<config, queue, up, ready, handler, settings, cached, did, dropped, troubles>>

(* Core NATS keeps nothing for a service that is not there. *)
Publish(j) ==
    /\ job[j].state = "saved"
    /\ job' = [job EXCEPT ![j].state = "queued"]
    /\ IF up THEN queue' = [queue EXCEPT ![SubjectOf(j)] = Append(@, j)] /\ UNCHANGED dropped
       ELSE dropped' = dropped \cup {j} /\ UNCHANGED queue
    /\ UNCHANGED <<config, up, ready, handler, settings, cached, did, troubles>>

Crash ==
    /\ up /\ troubles < MaxTroubles /\ troubles' = troubles + 1
    /\ up' = FALSE /\ ready' = FALSE
    /\ dropped' = dropped \cup UNION {ToSet(queue[s]) : s \in Subjects}
                          \cup {handler[s].job : s \in {t \in Subjects : handler[t].pc # "free"}}
    /\ queue' = [s \in Subjects |-> <<>>] /\ handler' = [s \in Subjects |-> Free]
    /\ UNCHANGED <<config, job, settings, cached, did>>

Start == ~up /\ up' = TRUE /\ UNCHANGED <<config, job, queue, ready, handler, settings, cached, did, dropped, troubles>>

OnReady ==
    /\ up /\ ~ready /\ ready' = TRUE
    /\ UNCHANGED <<config, job, queue, up, handler, settings, cached, did, dropped, troubles>>

-----------------------------------------------------------------------------
(* The callbacks.  A subscription awaits one before it takes the next. *)

Goes(s, pc) == handler' = [handler EXCEPT ![s].pc = pc]

(* A message is delivered at most once. *)
AfterTaking(messages) == Tail(messages)

Take(s) ==
    /\ handler[s].pc = "free" /\ queue[s] # <<>>
    /\ handler' = [handler EXCEPT ![s] = [Free EXCEPT !.pc = "begin", !.job = Head(queue[s])]]
    /\ queue' = [queue EXCEPT ![s] = AfterTaking(@)]
    /\ UNCHANGED <<config, job, up, ready, settings, cached, did, dropped, troubles>>

(* Slip: the configuration that came with the message. *)
MessageSays(j) == job[j].need

(* apply_settings reads the stored configuration of the module. *)
Found(j) == config[job[j].what]

ReadConfig ==
    /\ handler["apply"].pc = "begin"
    /\ LET j == handler["apply"].job
       IN  handler' = [handler EXCEPT !["apply"].pc = IF job[j].what \in Voice THEN "settings" ELSE "cache",
                                      !["apply"].value = Found(j)]
    /\ UNCHANGED <<config, job, queue, up, ready, settings, cached, did, dropped, troubles>>

(* _apply_voice_config: one compare-and-set of the whole document, every    *)
(* field from this module. *)
StoreSettings ==
    /\ handler["apply"].pc = "settings" /\ Goes("apply", "cache")
    /\ settings' = [module |-> job[handler["apply"].job].what, value |-> handler["apply"].value]
    /\ UNCHANGED <<config, job, queue, up, ready, cached, did, dropped, troubles>>

CacheModule ==
    /\ handler["apply"].pc = "cache" /\ Goes("apply", "mark")
    /\ cached' = [cached EXCEPT ![job[handler["apply"].job].what] = handler["apply"].value]
    /\ UNCHANGED <<config, job, queue, up, ready, settings, did, dropped, troubles>>

(* _execute_operation up to its first effect. *)
BeginOperation ==
    /\ handler["ops"].pc = "begin"
    /\ LET op == job[handler["ops"].job].what
       IN  Goes("ops", IF op = "bad" THEN "error" ELSE IF Writes(op) THEN "write" ELSE IF Acts(op) THEN "act" ELSE "mark")
    /\ UNCHANGED <<config, job, queue, up, ready, settings, cached, did, dropped, troubles>>

ChangeSettings ==
    /\ handler["ops"].pc = "write"
    /\ LET j == handler["ops"].job
       IN  /\ did' = [did EXCEPT ![j] = @ \cup {"write"}]
           /\ Goes("ops", IF Acts(job[j].what) THEN "act" ELSE "mark")
    /\ UNCHANGED <<config, job, queue, up, ready, settings, cached, dropped, troubles>>

(* _edit_member_voice, _add_member_role, _move_member wait until Discord is *)
(* ready, and hold up the operations behind. *)
ActOnDiscord ==
    /\ handler["ops"].pc = "act" /\ ready /\ Goes("ops", "mark")
    /\ did' = [did EXCEPT ![handler["ops"].job] = @ \cup {"act"}]
    /\ UNCHANGED <<config, job, queue, up, ready, settings, cached, dropped, troubles>>

(* _mark_job "applied"; flags, status and event go with it. *)
MarkApplied(s) ==
    /\ handler[s].pc = "mark" /\ Goes(s, "publish")
    /\ job' = [job EXCEPT ![handler[s].job].state = "applied"]
    /\ UNCHANGED <<config, queue, up, ready, settings, cached, did, dropped, troubles>>

PublishResult(s) ==
    /\ handler[s].pc = "publish"
    /\ handler' = [handler EXCEPT ![s] = Free]
    /\ UNCHANGED <<config, job, queue, up, ready, settings, cached, did, dropped, troubles>>

(* Whatever raises ends in the except branch. *)
Raised(pc) == "error"

(* A call of Mongo, Discord or NATS raises; a member, a role, a channel or  *)
(* the guild is not there. *)
Raise(s) ==
    /\ handler[s].pc \in {"begin", "settings", "cache", "write", "act", "mark", "publish"}
    /\ handler[s].pc = "act" => ready
    /\ troubles < MaxTroubles /\ troubles' = troubles + 1
    /\ Goes(s, Raised(handler[s].pc))
    /\ UNCHANGED <<config, job, queue, up, ready, settings, cached, did, dropped>>

(* The except branch notes the failure, also when "applied" was noted       *)
(* before; a reply follows, and the error goes to the log. *)
StateAfter(state) == "failed"

MarkFailed(s) ==
    /\ handler[s].pc = "error"
    /\ job' = [job EXCEPT ![handler[s].job].state = StateAfter(@)]
    /\ handler' = [handler EXCEPT ![s] = Free]
    /\ UNCHANGED <<config, queue, up, ready, settings, cached, did, dropped, troubles>>

MarkRaises(s) ==
    /\ handler[s].pc = "error" /\ troubles < MaxTroubles /\ troubles' = troubles + 1
    /\ dropped' = dropped \cup {handler[s].job}
    /\ handler' = [handler EXCEPT ![s] = Free]
    /\ UNCHANGED <<config, job, queue, up, ready, settings, cached, did>>

-----------------------------------------------------------------------------
Works(s) ==
    \/ Take(s) \/ MarkApplied(s) \/ PublishResult(s) \/ MarkFailed(s)
    \/ s = "apply" /\ (ReadConfig \/ StoreSettings \/ CacheModule)
    \/ s = "ops" /\ (BeginOperation \/ ChangeSettings \/ ActOnDiscord)

Next ==
    \/ \E j \in Jobs, m \in Modules : Save(j, m)
    \/ \E j \in Jobs, op \in Operations : Ask(j, op)
    \/ \E j \in Jobs : Publish(j)
    \/ Crash \/ Start \/ OnReady
    \/ \E s \in Subjects : Works(s) \/ Raise(s) \/ MarkRaises(s)

Spec == Init /\ [][Next]_vars

(* The service is restarted, Discord gets ready, and a callback goes on. *)
FairSpec == Spec /\ WF_vars(Start) /\ WF_vars(OnReady) /\ \A s \in Subjects : WF_vars(Works(s))

-----------------------------------------------------------------------------
Numbers == 0 .. Cardinality(Jobs)

(* The jobs, the messages and the callbacks are well formed, and a callback *)
(* works on a job that was published (controlplane.py, apply_settings). *)
TypeOK ==
    /\ config \in [Modules -> Numbers] /\ cached \in [Modules -> Numbers]
    /\ job \in [Jobs -> [state : {"unused", "saved", "queued", "applied", "failed"},
                         what : Modules \cup Operations \cup {None}, need : Numbers]]
    /\ settings \in [module : Voice \cup {None}, value : Numbers]
    /\ \A s \in Subjects :
          /\ queue[s] \in Seq(Jobs)
          /\ handler[s].pc # "free" => job[handler[s].job].state \in {"queued", "applied"}
    /\ dropped \subseteq Jobs /\ did \in [Jobs -> SUBSET {"write", "act"}]

(* A module that was applied is in force at least as it was saved for that  *)
(* job, in the cache and in the settings of the guild, however the messages *)
(* overtook each other; only another module of the settings may have        *)
(* replaced the latter (controlplane.py, apply_settings). *)
AppliedIsCurrent ==
    \A j \in Jobs : (job[j].state = "applied" /\ job[j].what \in Modules) =>
        /\ cached[job[j].what] >= job[j].need
        /\ settings.module = job[j].what => settings.value >= job[j].need

(* An operation marked as applied has made its change of the settings and   *)
(* its call of Discord (controlplane.py, execute_operation). *)
AppliedIsWhole ==
    \A j \in Jobs : (job[j].state = "applied" /\ job[j].what \in Operations) => did[j] = NeedOf(job[j].what)

(* A job whose message was published ends as applied or failed, unless the  *)
(* message was lost or the failure could not be stored: no job waits behind *)
(* one that raised (controlplane.py, _handle_apply_msg, _handle_ops_msg). *)
JobsEnd ==
    \A j \in Jobs : []<>(job[j].state # "queued" \/ j \in dropped)
=============================================================================
