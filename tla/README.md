# Verification of the voice tracker

TLA+ models of the Discord voice tracker in this repository, TLC
configurations that check them on small instances, and TLAPS proofs of what
matters most for every instance. The reference is the source; where a doc says
something else, the model follows the source and a run shows the difference.

* [The system](#the-system)
* [Modules](#modules)
* [Runs](#runs)
* [Proofs](#proofs)
* [What the code and its docs disagree about](#what-the-code-and-its-docs-disagree-about)
* [Abstractions](#abstractions)
* [What is left](#what-is-left)

## The system

Seven containers (`docker-compose.yml`: gateway, tracker, writer, commands,
activity, stalker, controlplane) around one MongoDB and one NATS server. Every
container has `restart: unless-stopped`. Only the gateway talks to the Discord
gateway; the others consume what it publishes. NATS is a transport without
memory; MongoDB holds the journal and everything that must survive.

| Part (source) | State | Operations | Interacts with |
|---|---|---|---|
| Event journal and inbox (`voice_tracker/eventlog.py`) | `event_log` (journal), `event_inbox` (a row per consumer and event: state, attempts, lease token and expiry) | `record`, `claim`, `complete`, `fail_attempt`, `quarantine_poison`, `_mark_deferred_sync`, `_quarantine_orphan`, `deliver` | wire callbacks and sweep ticks of the same and of other processes call `deliver` concurrently |
| Order gate and durable publisher (`eventlog.py`) | `event_log.seq`, `event_seq` (counter of a scope), `event_scope_progress` (watermark of a consumer in a scope) | `DurablePublisher._publish_ordered`, `_gate_scan_sync`, `_gate_cleared`, `_advance_progress_sync` | publisher and gates of all consumers write the same seq; `deliver` calls itself for predecessors |
| Journal sweep (`eventlog.py`) | `event_sweep_state` (cursor) | `sweep_pending`: retry, forward and gap pass; `republish_pending`, `pending_stats` | reads journal and inbox between the deliveries of others |
| Single-writer lease (`supervise.py`, `gateway.py`) | one document: fence, owner, instance, expiry, stopped | `claim_single_writer`, `ensure_current`, `renew`, `release` | every publishing task of the gateway checks it before it acts |
| Supervisor and heartbeat (`supervise.py`) | task states, failure counters, heartbeat document | `spawn`, `beat`, `fail`, restarts with back-off | the health check reads the heartbeat |
| Message bus (`bus.py`) | none | signed envelopes, `publish`, `subscribe` | hands raw messages to `deliver` and `_quarantine_orphan` |
| Voice session tracker (`voice_tracker/tracker.py`, `services/tracker.py`) | sessions in memory; `voice_sessions`, `voice_session_participants` | `Start`, `HandleVoiceEvent`, join, leave, move | publishes closed sessions; the reaper changes its documents behind its back |
| Orphan reaper (`gateway.py`, `_reap_orphan_voice_sessions`) | none | closes sessions without live members | writes the tracker's collections |
| Summary writer and delivery (`summary.py`, `services/writer.py`, `gateway.py`) | summary fields of the session | generate, mark ready, claim, send, mark delivered, reconcile | event handler, 60 s reconciliation and gateway at once |
| Sleep timers (`sleep_timers.py`, `sleep_executor.py`, `sleep_audit.py`) | one document per user with a revision, audit outbox | set, cancel, `claim_due`, `finish`, `mark_stale_unknown`, projection | commands and site set, gateway executes, projector empties the outbox |
| Voice presence (`voice_presence.py`) | generation, dirty marks, evidence documents | seed, observe, disconnect, `proves_presence` | the timer executor disconnects nobody without its proof |
| Settings (`repository.py`, `domain.py`) | guild settings with revision | `mutate` with three CAS attempts | commands, site and gateway write them |
| Managed voice and soundboard (`services/gateway.py`) | `guild.voice_client`, a lock and a hold-off per guild | `reconcile_guild` from a 5 s loop and from handlers, `on_voice_channel_effect` | settings, Discord |
| Invite attribution (`services/gateway.py`) | `guild_invite_snapshots`, `invite_catalog`, `member_join_attributions` | join handlers under a lock, 60 s refresh, refresh by invite events, audit | Discord REST |
| Roles and nicknames (`services/gateway.py`) | `member_role_state`, `member_nickname_state`, the cached member | snapshot on a leave, restore on a rejoin, reconciliation every 300 s, auto role | Discord REST and events |
| Chat messages (`services/gateway.py`, `media.py`) | 5000 cached texts, `chat_messages`, files of pictures | new, edited, deleted, purged messages; downloads | the dashboard reads the archive |
| Slash commands (`services/commands.py`, `commands.py`, `site_audit.py`) | `web_audit_logs` | enabled, access, options, handler, journal, answer | settings, timers, trust |
| Activity and stalker (`services/activity.py`, `services/stalker.py`) | `stalker_subscriptions` | consumers that post | inbox; commands, gateway and control plane change trust and subscriptions |
| Control plane (`services/controlplane.py`) | `web_apply_jobs`, `bot_runtime_module_cache` | `apply_settings`, `execute_operation`; off by default | settings, Discord |
| Migrations (`migrate.py`, `schema.py`) | lock and manifest documents | lock, run, verify | any container at start |
| Health check (`healthcheck.py`) | none | `evaluate` over the heartbeat | Docker restarts nothing on it, but reports it |
| Configuration, time, retention, backup, deployment scripts | files and reports | pure or read-only | |

What is hard here:

* **Interleaving.** Every Mongo call runs in a thread of its own and between two
  of them anything may happen: two processes (or the wire and the sweep of one)
  deliver the same event at the same time; publisher and consumer set the same
  seq; the gateway's successor runs while the old process drains.
* **Crash and restart.** No Mongo transaction is used; a container may die
  between any two calls, and leaves a lease, a row without seq, a cursor behind.
* **Delivery.** Core NATS loses, and journal plus wire duplicate; the inbox turns
  that into at least one effect and one acknowledgement.
* **Time.** Leases are compared with clocks that were read earlier, in Python,
  not in the database.
* **Ordering.** `voice.events` of one (guild, user) are handled in order although
  three ways bring them.
* **Fairness of the sweep.** Limits of pages and budgets decide whether a row is
  ever looked at.

What makes each part correct:

* Inbox: a live lease excludes other attempts; only the holder settles; settled is
  for ever; nothing is given up before its tries are spent; everything is settled
  in the end.
* Gate: an event is claimed only after all its predecessors completed; the
  watermark passes completed events only; a scope without a quarantine drains.
* Sweep: no journal row gets out of sight; stuck rows do not stop the others.
* Lease: nobody takes over a running lease, and only the process that holds it
  renews or stops it: a late renewal or release of a superseded process leaves its
  successor's lease as it is; a superseded process is fenced off after a bounded
  number of acts; somebody serves again.
* Sessions: once the events of a user are handled, Mongo has him where Discord has
  him; who left for good does not stay recorded; a start announces every closed
  session.
* Summaries: one poster at a time; a card in the end; no second card but after a
  post whose failure was reported wrongly.
* Sleep timers: one disconnect per timer; what is recorded of it is true; no
  request applied twice, no audit event lost; a claim of the holder is closed.
* Presence: evidence that is no longer certain proves nothing.
* Settings: no lost update; a conflict only after three lost attempts.
* Trust: whoever is told of an event was trusted when the stalker took it up; who
  is trusted no more loses his subscriptions, by the stalker at the latest.
* Managed voice: the bot comes back to its channel; a sound costs nobody his place
  where no rule was in force.
* Invites: a use is credited once; every handler gives the lock back.
* Members: what somebody had when he left is back after he rejoins, or owed.
* Messages: the archive has the last text, deletions are not undone, a stored
  picture is whole.
* Control plane and commands: no job and no user waits for ever; what is noted as
  an effect was one.
* Migrations: the schema comes up whoever dies; what is done exists; a rollback is
  blocked while it must be.
* Health: a service that works becomes healthy, one that stalls is reported.

`PROJECT.json` lists the hazards one by one, at the line where they bite.

## Modules

### EventInbox, AtLeastOnce

`EventInbox` is one consumer's inbox. A *call* is one execution of `deliver` or
`_quarantine_orphan`; its program counter stands between two Mongo operations.

| Module | Code |
|---|---|
| `inbox[e]` | the row of `event_inbox`: state, attempts, token |
| `expired` | leases whose `leaseExpiresAt` has passed |
| `call[c]` | the coroutine: where it stands and the row it read |
| `ClaimInsert`, `ClaimFind`, `ClaimUpdate` | the three operations of `claim`: insert, `find_one` after a duplicate key, the fenced take-over or re-claim |
| `Complete`, `FailAttempt` | the writes filtered by state and token |
| `MarkDeferred` | the upsert of `_mark_deferred_sync`; its duplicate key is an exception |
| `QuarantineOrphan`, `QuarantinePoison` | messages that have no journal row, or cannot be decoded |
| `AbandonedLeaseExpires`, `LeaseOverrun` | 120 s pass after the holder died, or under a slow handler |

The order gate is an input here: it lets a call through or not. `AtLeastOnce` is
the promise without leases: tries, effects, acknowledgement only after an effect,
surrender only after `max_deliver` tries. `EventInbox` implements it through the
mapping `Promise` (completed is *done*, quarantined is *dead*).

### OrderedDelivery

One scope (guild, user) of `voice.events` at one consumer: the publisher, the
gate and the recursion of `deliver`. A worker's `stack` holds the frames of the
recursive calls, the gate's locals in each. `claim` is one step (EventInbox takes
it apart), the reads and writes of the gate are separate: `ScanRow` (own row),
`ScanBump`, `ScanAssign` (the race for the seq), `ScanPredecessors` (the page of
predecessors with their states at that moment), then one predecessor after
another from that list while others move on (`PassCompleted`,
`DeliverPredecessor`, `EndOfScan`). `Return` hands the result to the caller as
`_gate_cleared` reads it.

Two history variables say where the code gives up its own rule, so that the
properties can be stated sharply: `unsequenced` (the publisher stopped before
setting a seq) and `outraced` (the gate lost the race for a seq).

### EventSweep

`sweep_pending` of one consumer over a journal into which publishers insert late:
`ReadClock` fixes `createdAt`, `Insert` may come up to `MaxLate` later, and rows
of equal `createdAt` are told apart by `_id`. The tick is `StartTick`/`Retry`
(retry pass over the oldest unfinished rows), `FetchPage`/`Forward`/`SavePosition`
(page past the cursor, the settled rows of which were read with the page),
`ReadWindow`/`FillGap`/`EndTick` (window of `Gap` below the new cursor).
`AbortTick` is an exception or a crash anywhere. `WireDelivers` is everything
that reaches the inbox without the sweep. `Stuck` are the rows that stay deferred
for ever behind a quarantined predecessor.

### WriterLease

The lease document and the gateway processes: the guard of each (claim, renewals,
drain, release, exit, restart) and its publishing tasks, which check in one call
(`EndCheck`) and act in the next (`Act`). Time is relative: `left` is what the
lease still runs, and each pending call carries the age of the clock it read, so
that a claim, renewal or check decides with a time up to `MaxLag` old.

### VoiceSessions

One guild's voice sessions: the tracker, the two collections it writes, and the
gateway's reaper, which writes the same collections from another process and
knows nothing of the tracker's memory.

| Module | Code |
|---|---|
| `place` | the voice states in the gateway's cache |
| `queue[u]` | `voice.events` of a user the tracker has not completed, in order |
| `session`, `interval` | `voice_sessions`, `voice_session_participants`; `told` is `closedEventPublishedAt` |
| `mem[c]` | `Service._sessions`: the session of a channel and the interval of each user in it |
| `handler[u]`, `thread` | the coroutine `HandleVoiceEvent` of a user's first event, and whose coroutine runs |
| `boot` | where `Service.Start` stands |
| `reaper` | where `_reap_orphan_voice_sessions` stands, and the voice states it read at its start |
| `ListActive` ... `Ready`, `BootSkips` | `Start`: load or close each active session, then announce what is not marked; an exception skips one session |
| `LeaveKnown`, `CloseSession` | `_leave` from memory |
| `LeaveUnknown`, `FindParticipant`, `CloseParticipant`, `AnyoneLeft`, `CloseSession` | `_leave_from_repository` |
| `CreateSession`, `CreateParticipant`, `AlreadyPresent` | `_join` |
| `Publish`, `Mark` | the rest of the handler after a close |
| `Fails`, `LoseAnswer` | a call raises before, or after, it took effect |

A join or a leave makes synchronous Mongo calls under a lock, so no other handler
of the tracker runs until it ends or awaits a publish; the reaper and crashes come
in between any two calls. In the same way the gateway sees no voice event while
the reaper works, except during its publishes. `spoilt` is a history of what went
wrong, so that a property can name the one trouble it does not survive.

### SleepTimer, AtMostOnce

One member's document of `voice_sleep_timers`, the calls that change it and the
gateways that execute it.

| Module | Code |
|---|---|
| `doc` | the document: revision, status, the request whose timer it is, fence, `recentRequests` (`seen`), `auditPending` (`pending`) |
| `call[c]`: `Read`, `Write` | `_mutate`: the snapshot is judged (`Verdict`: busy, repeated, full, or applied) and replaced under the filter of its revision and status |
| `gate[g]` | the executor loop of a gateway: `RecoverCheck`, `RecoverList`, `RecoverMark` (`recover_stale`), `ClaimCheck`, `Claim`, `DecideAgainst`/`DecideFor`, `Patch`, `FinishCheck`, `Finish` |
| `ProjectRead`, `ProjectInsert`, `Pull` | `project_pending`, per event an insert into the log and an exact `$pull` |
| `lease` | the fence of `WriterLease`; `ensure_current` compares, the next call acts |

`AtMostOnce` is a one-shot: armed, called off or replaced while nobody has taken
it, taken once, its deed done once and by the one who took it; closed, a deed that
was under way may still land once. `SleepTimer` implements it (`OneShot`).
Histories (`phase`, `patched`, `landed`, `changes`, `issued`) record what no
document keeps.

### VoicePresence

`voice_presence.py` for one guild. Callbacks of discord.py are tasks: `spawned` in
order, then in the `queue` at the one asyncio lock, whose head works.
`Disconnected` takes no lock, as in the code. `_persist` is `Writing` (memory is
emptied, the document built with the generation of that moment) and `Written`.
`seed` iterates a dictionary that `Seen` changes under it. The Discord connection
is `off`, `resuming` (transitions are `missed` and replayed by RESUMED) or `on`;
READY starts with what Discord knows. `proves_presence` is `ProveBegin`,
`ProveLocal`, `ProveStored`, `Answer`, with `dirty` looked at before and after.

### GuildSettings, SettingsIntents, AtomicSettings

`SettingsIntents` has the fields of `guild_settings` that writers share, what
`from_mongo` makes of a stored document (`Loaded`), what `_prepare_for_save` does
(`Prepared`) and every intent of the commands, the site and the gateway with its
effect (`Applied`) and its refusal to write (`Skips`). `GuildSettings` is
`mutate_guild_settings`: `Read` applies the intent to what was read, `Write` is the
compare-and-set (with the branch for a missing document or one of before
revisions), `Again` a lost attempt, `GivesUp` the third. `AtomicSettings`
promises that an intent is applied once to the settings of that moment or not at
all, and that the caller is told which; `GuildSettings` implements it (`Atomic`).

### SummaryDelivery

One closed session. `writer` and `gateway` each have an `event` task (the inbox
handler) and a `sweep` task (the 60 s reconciliation); all four work on `row`, the
summary fields of the session. `WriterBegin` ... `WriterPublish` is
`_generate_and_publish`; `GatewayBegin`, `GatewayClaim`, `GatewaySend`,
`GatewayMark`, `GatewayRelease` are `handle_summary` and `_deliver_pending` with
the claim and its release. A post may fail with or without its card. `closed` and
`announced` are the inbox rows of the two events, with their attempts.

### ManagedVoice

`reconcile_guild` called by the 5 s loop and by handlers of the bot's own voice
state, one after the other at an `asyncio.Lock` (`lock`, `waiters`): `Locks`,
`Leaves`, `Resolves`, `Joins`, with every await a place where settings, Discord or
the connection change (`Configure`, `Meddle`, `Dropped`). A failure sets `held`
(`_retry_after`). `Plays`, `Hears`, `Finds`, `Kicks` are the soundboard handler.

### InviteAttribution

Discord's `invites` with their uses, the stored snapshot and the catalog. A join
handler takes the guild's lock, reads the snapshot, fetches (regular invites and
the vanity invite are two requests), decides, records, publishes, stores
(`JoinBegin` ... `JoinPublishes`); the refreshes of the loop and of invite events
take no lock (`RefreshAsks`, `RefreshAnswered`, `RefreshStores`). `gone` are the
invites that were deleted, which the audit has to mark. `muddled`
records that an older snapshot replaced a newer one, or one was stored without
the vanity invite or not at all.

### MemberRestore

One member's roles or nickname (`aspect`: the two are twin functions) over leaves
and rejoins. `Dispatch` hands Discord's events to `on_member_join`,
`on_member_remove` and `on_member_update`; a task holds the live cached member or
one that is no more updated (`Object`). The restore is `JoinBegin` or
`ReconcileResolve`, `Lookup`, `AssignRole`/`AssignNickname`, `Finish`; a role that
failed or could not be looked up stays owed (`Saved`). `LeaveSave` takes the
snapshot, `ReconcileCurrent` syncs the members without debts. `owed` is what the
snapshot of the last undisturbed leave promises.

### ChatMessages

`on_message` remembers the text, stores attachments (`Fetch`, `Part`, `Write`,
`Move`: the `.part` file, which two downloads of one picture may share, and its
rename) and writes the record with the text of before (`Ends`). `Edit`, `Delete`,
`Purge` come in between. `cache` and `order` are the 5000 texts that edits are
compared with. `archive` keeps state, text and attachment as the repository's
updates write them (`Recorded`, `Edited`, `Buried`, `AllBuried`).

### TrustedWatchers

The list of trusted users and the subscriptions, which four processes change with
one Mongo call per step: `TrustedAdd`, `TrustedRemove`, `CommandDeletes`,
`StalkerCommand`, `StalkerWrite` (slash commands), `MemberLeaves`, `LeaveDeletes`
(gateway), `ControlTrusts` (control plane), and the stalker, which reads the
subscribers, the trusted users, prunes, resolves the channel and sends DMs
(`TakeEvent`, `ReadTrusted`, `Prune`, `Resolve`, `SendDM`, `Finish`).

### ControlPlane, SlashCommands

`ControlPlane` takes messages of two subjects, one at a time each, finds the job,
reads the stored configuration (not the message's), writes the settings and the
cache or carries an operation out, marks the job and publishes. Any call may raise
(`Raise`), and the except branch marks the job (`MarkFailed`). `SlashCommands` is
`on_interaction` with one route of each kind: `CheckEnabled`, `CheckAccess`,
`CheckOptions`, `Resolve`, `Write`, `Audit`, `Answer`.

### SchemaMigrations

Runners of `migrate up` under one lock whose lease runs out (`Expire`): `Begin`
reads the statuses before the lock, `Acquire`, then per migration `MarkRunning`, its
step (`Apply`, idempotent, or `Check`, `Merge`, `Build` of the one over duplicates),
`MarkDone` or `MarkFailed`; `Verify` writes the version, `Release` gives the lock
back. Three migrations, the second over duplicates, stand for the twelve.

### ServiceHealth

A supervisor with a critical loop, a plain one and the heartbeat; an iteration
`works`, `fails` (and says so), `raises` (the loop falls and is started again after
the back-off) or `hangs`. `doc` is the heartbeat document with its age, `Healthy`
the answer of `evaluate`. Time passes when nothing is due (`Pass`).

### Instances

The `MC*` modules declare the model values and symmetry sets. A definition that a
comment calls a *slip* is a mistake a change of the code could make; no action
uses it, and each property is known to fail when a slip replaces its original.

Four of them put several systems into one run. `MCVoiceSafety`,
`MCDataSafety`, `MCServiceProgress` and `MCGatewayProgress` extend the instance of
one module and take the others with `INSTANCE ... WITH`, each with variables of its
own. `part`, chosen in the first state and kept, says which system a behaviour is
about: it takes the steps of its `Next`, the others stay in one first state. The
states of the run are therefore the union, not the product, of those of the
systems, and each system has exactly the behaviours it has alone. An invariant of
a system is checked in every state (in the first state it holds, or `part = "x" =>`
guards it); a liveness property `P` reads `<>[](part = "x") => P`, and the fairness
of a system is asked only where `part` names it. These runs do not claim anything
about the systems acting on one another; where they do, they are in one module
(tracker and reaper; writer and gateway; commands, gateway, control plane and
stalker; both gateways and the callers of a timer), or one is an input of the other.

## Runs

| Run | Bounds | Shows |
|---|---|---|
| `inbox` | 2 calls; a journalled event, an orphan, a poison message; `max_deliver` 2; a crash, a lease overrun, a gate block | lease exclusion, fencing, no early surrender, settled for ever, refinement of `AtLeastOnce` |
| `ordered` | 2 events, 2 workers, 2 scans, a publication cut short, a failure that quarantines, a lost worker | order, watermark, seq set once and in journal order |
| `ordered_drains` | 2 events, 2 workers, a lease overrun | the scope drains although the workers defer to one another |
| `ordered_seq_race` | as above, no faults | *violation*: see below |
| `timers` | a request to set, its repeat and a request to cancel; 2 gateways, 2 fences; a crash or failed call | one PATCH per timer, truthful ends, no request applied twice, no audit event lost, PATCH only while claimed, refinement of `AtMostOnce` |
| `voice_safety` | sessions: 2 users, 2 channels, 2 voice events, 2 troubles; presence: 2 users, 2 channels, 2 moves, 1 lost connection, 1 failed write, a clock that passes the deadline | rows are true when quiet; a proof of presence is right, memory at rest is true |
| `data_safety` | settings: 2 writers, 4 calls, 4 intents, a missing or an old document, 1 failed write; trust: 2 watchers, 1 target, 1 crash; control: 2 jobs, 2 troubles; migrations: 2 runners, 3 steps, 2 troubles; invites: 2 joins, a plain and the vanity invite, 1 invite event, 1 trouble, no audit; chat: 2 messages, 2 edits, a cache of 1, a shared picture, 1 trouble; summary: 3 changes of the channel, 2 troubles; commands: one, 2 troubles | no update of the settings is lost and conflicts are earned; who is told was trusted; an applied job is in force; a rollback is blocked while it must be; a use is credited once; tombstones stay; one poster at a time; an answered command is in the audit log |
| `service_progress` | sweep: 2 events, one stuck, clock to 6, window 3; inbox: 2 calls; timers: 1 call, 2 gateways, 2 troubles; summary: 2 troubles; members: 3 moves, 1 trouble, 3 guilds; one watcher, two jobs, two runners | no journal row is forgotten; deliveries settle, a summary is posted, a member gets back what he is owed |
| `gateway_progress` | lease: 2 gateways, 3 grants, 2 faults, a delay of 1 in a lease of 2; sessions: 2 users, 1 channel, 3 voice events, 1 trouble; bot: 2 channels, 3 moves, 1 trouble; invites: 1 join, 1 invite event, 1 trouble; health: 2 loops, 2 changes | a superseded task acts once at most; a running lease is renewed and stopped by its own holder and taken over by nobody; sessions of the absent are closed, the bot returns, a stall is reported |
| `settings_off` | settings as in `data_safety`, no failed write | *violation* |
| `chat_purged` | 2 messages, 2 edits, a cache of 1, 1 trouble | *violation* |
| `schema_parallel` | 2 runners, 3 steps, 2 troubles | *violation* |

Why the bounds are enough to be interesting: two concurrent calls and one
overrun give every pair of claims a take-over can produce; `max_deliver` 2 has a
retry and a surrender; two events of a scope are a predecessor and a successor,
and two workers can each work on the other's; a window of 3 with a clock to 6
lets rows drop out of the window; three grants let a process be superseded twice.
Two troubles give a crash followed by a start that skips a session, which is the
only way the tracker forgets a row; two voice events a join and a leave, a change
of channel, or two joins. A set, its repeat and a cancel give every pair of a timer
and its history; two fences a superseded gateway and its successor. Four calls of
two writers let a call lose three attempts. Two jobs of one module are applied in
the other order. Three moves of a member are a leave, a rejoin and a change or a
second leave. Two joins at a time share the lock. A cache of one text makes every
second message evict the first. Larger instances were explored while the models
were written, with no other result: three events per scope, two publishing tasks
per gateway, the sessions with four events (ten million states, not finished). What
the bounds hide is covered by the proofs where there are any.

The runs check the properties that say most. The modules state more, which hold in
the same instances and can be added to their configurations: among them
`LiveLeaseOwnsRow` of the inbox, `InsertsNeverCollide` and `AllAnnouncedAtStart` of
the sessions, `SteadyAreTold`, `DoneExists`, `AppliedIsWhole`,
`StoredIsWhole`, `TextIsCurrent`, `OneCardUnlessUnsure` and `DeliveredMeansPosted`, the type invariants of the parts
of a common run (`PartTypesOK`), and the liveness of the parts whose own property
is not in the two progress runs. Some of these are proved (below).

Deadlock is checked except where a behaviour ends because its bounds are used up
(`timers`, `data_safety` and the two progress runs): there, that everybody
gets to the end is a liveness property.

### Fairness

Weak fairness everywhere but in `OrderedDelivery`, and of these only:

* inbox: each call goes on (its coroutine runs unless its process dies, which is a
  separate, bounded action), an abandoned lease expires, and the sweep
  (`sweep_loop`, every 15 s, 60 s for the gateway) delivers what can be delivered;
* `OrderedDelivery`: the same and the publisher goes on; strong fairness for the
  sweep's `Deliver`, because a busy worker disables it now and then;
* sweep: its own steps. The wire may lose every message;
* lease: containers are restarted (`restart: unless-stopped`), calls are answered,
  time passes. No gateway is owed a successful claim;
* sessions: `Start` goes on, a handler that raised is tried again by the sweep,
  the reaper comes back every 120 s. In the code an event is quarantined after
  `max_deliver` tries; the bound on troubles is below it, except after the lost
  answer of an insert;
* timers: a gateway that is not served starts, its loops (1 s executor, projector)
  come round, a due time passes;
* summary: the two reconciliations, and a handler that has begun; neither event is
  owed a delivery. An operator configures a channel;
* members: the gateway starts, Discord dispatches, tasks go on, the 300 s
  reconciliation comes round;
* bot: dead connections are noticed, the 5 s loop, handlers and hold-offs go on;
* invites: handlers, the 60 s refresh and the audit go on;
* trust: commands that have begun and the stalker go on, and the target's next
  event comes;
* control plane: the process is restarted, Discord gets ready, a call returns or
  raises. Nobody is owed a message (the commands' `FairSpec` asks the same; no run
  uses it);
* migrations: runners that have begun go on, a lease runs out, an operator runs
  `up` again and resolves duplicates that differ;
* health: whatever does not hang goes on and time passes.

Users, moderators and troubles owe nothing and are bounded.

## Proofs

All are checked by TLAPS for any values of the constants that satisfy the modules'
assumptions.

* **EventInboxProofs.** The inductive invariant relates each call's locals to the
  row: a token is used once, a call that holds a token newer than the row's is
  impossible, a token in `handled` belongs to an event that was claimed, attempts
  never exceed the claims granted, and so on. `TypeOK` and the safety properties
  alone are not inductive, because they say nothing of a call that has lost its
  lease and will still write. From it follow `TypeCorrect`, `LeaseExcludes`,
  `LiveLeaseOwns`, `AckIsFenced`, `InnocentSpared`, `SettledForever`, and
  `Refinement`: every step is a step of `AtLeastOnce` or a stutter.
* **EventSweepProofs.** `NothingIsForgotten`: under `MaxPause + MaxLate < Gap`
  and a journal that fits into `scan_limit`. The invariant says that a row behind
  the cursor without an inbox row came in after the last gap pass read its window
  (`BehindCursorIsLate`), that the tick's page holds what the cursor is going to pass
  (`PageInOrder`, `PageLeftPastCursor`) and that a window once read is complete up
  to late rows (`WindowComplete`).
* **WriterLeaseProofs.** `FencedAfterOneAct` (the invariant: a task that has acted
  once while superseded is idle or its check is bound to fail),
  and `RunningLeaseIsTheHolders`. The latter speaks of each process and what it does:
  its claim is refused while a lease runs (`NoneClaims`, from the bounds on delays in
  `TypeOK`), and its renewal or release matches only what carries its own fence
  (`HoldersKeep`, `HolderMoves`). That two processes never have the same fence
  (`FencesGranted`) makes the one that matches the holder.
* **GuildSettingsProofs.** `NoLostUpdate`, `RefusalsAreEarned` and
  `SettingsAreAtomic`, for any writers, intents and number of attempts. An object
  whose revision is still the stored one was made from what is stored
  (`CopiesAreCurrent`): revisions only grow, and no copy is ahead of the document.
  A call that has spent its attempts has seen as many writes of others since it
  began (`wins - since`), which is what makes a conflict earned. The refinement
  needs the first: the write of a current copy is the intent applied to the value
  of that moment, and every other step leaves the value alone.

* **OrderedDeliveryProofs.** `OrderInvariant`, and from it `GateTypeCorrect`,
  `ScopeStaysOrdered`, `WatermarkIsSound`, `SeqIsJournalOrder` and `SeqIsKept`, for
  any number of events, workers, scans and faults. The difficulty is that a frame
  of `deliver` acts on a list of predecessors it read long ago, below any number of
  frames of the same worker. What it read is therefore stated through facts that
  only grow and hold on every frame of every stack (`StillSeen`): a seq that was
  set stays, a completed event stays completed, a recorded event stays recorded. A
  seq that somebody drew fits above those of all earlier events (`Fits`), whether
  or not it will win; the watermark is the seq of a completed event all of whose
  predecessors are completed. `OrderedWhenRegular` alone is not inductive: it says
  nothing of a worker that has passed half its predecessors.
* **SleepTimerProofs.** `TimerInvariant`, and from it `TimerTypeCorrect`,
  `TimerPatchedOnce`, `TimerEndIsTruthful`, `RequestAppliedOnce`,
  `TimerAuditComplete`, the action property `PatchSeesClaim` and the refinement
  `TimersAreOneShot` of `AtMostOnce`, for any number of gateways, calls, requests,
  fences and troubles. The document tells the fate of its timer (`phase` of its
  request); a snapshot with the revision of the document differs from it in
  events that were projected meanwhile and in nothing else; the claims of two gateways
  are apart, because a fence belongs to one gateway and a claim raises the
  revision. What a superseded gateway holds is older than the document, so that its
  write meets the filter.
* **VoiceSafetyProofs**, the sessions. `TrackerInvariant` and `RecordsAreTruthful`, for any
  number of users, channels, moves and troubles. The invariant speaks of runs in
  which the reaper met no live row, no answer of a write was lost and the gateway
  missed no move (`Clean`): these are the histories that `TruthfulWhenQuiet` excludes,
  and after them the rows are indeed wrong. Crashes, failed calls, a start that
  skips sessions and retries are all in. For every user the queue leads from the
  place the rows have to the place he is in; the memory is the active rows of its
  sessions; and for each place a handler can stand at, `MayBeIn` and `MustBeIn`
  say where its user can still be, or has to be, recorded: between two calls of a
  handler a user is in one place more or one less than the rows say when it ends.
  Three more theorems concern all behaviours, spoilt or not, or say themselves what
  they except. `SessionsTypeCorrect`: rows, memory, start, reaper and handlers stay
  well formed (`WellFormed`: every id that anybody remembers is that of a row, an
  active interval lies in an active session, and rows are only added and closed).
  `SessionsAreAnnounced`: when a start has come up every closed session has been
  announced, but for the one the reaper is about to announce and for histories in
  which a start skipped a session or a round of the reaper was cut short. A row that
  is marked was announced before (`AnnouncedFits`), and a start at work still has
  before it each closed session that nobody announced (`ReplayFits`).
  `JoinsNeverCollide`: neither insert of a join meets an active row of its kind, since
  the memory, or the part of a start that is still to come, knows every active row
  (`KnowsRows`), whatever the reaper closes beside it; it excepts histories with a
  lost answer or a skipped session.
* **VoiceSafetyProofs**, the evidence of presence. `PresenceInvariant`, and from it
  `YesIsRealAlways` and `RestIsTruthful`, for any number of users, channels, moves, lost
  connections and failed writes, and any deadline. What memory holds of a user, a
  document under way says of him, or a seed is about to note, need not be so at
  that moment: the truth runs ahead of the callbacks, the callbacks ahead of the
  lock, and a lost connection ahead of all. The invariant says how far: an observation is
  `Sound` if it is so, or news of the user that are still missed, spawned or queued
  *behind* it will replace it, or a READY is on its way, which will renew everything.
  A stay that began after the observation has a break (a leave or a join) among
  those news. The rest is what makes this inductive. `Linked`: the news of a user
  form a chain from what the client has seen to where he is, each beginning where
  the one before ended. `Lined`: only the first task works, seeds are in the order of
  their generations with no proof behind them, `dirty` counts the queued news of a
  user exactly. `Evident`: memory, the document the first task is writing, the users a
  seed has visited and the proof under way are sound. That `dirty` is looked at before
  and after the lookup is what closes the proof of `YesIsReal`: news that come in
  between leave it above zero. `SafetyRecordsAreTruthful` carries `RecordsAreTruthful`
  over to the run's specification.
* **DataSafetyProofs.** The parts of `MCDataSafety`, for the specification of that
  run and any values of its constants: any members, jobs, runners, migrations,
  invites, messages, channels and bounds. A step of the whole is a step of a part
  or leaves it alone (`EachPartSteps`); each part has an invariant of its own.
  - Trust: a delivery under way keeps notes of who was trusted since the event was
    taken up; the list it read is within them (`OnlyTrustedAreTold`,
    `SteadyWatchersAreTold`).
  - Migrations: marks and effects only grow, and a runner that stands after a step
    has the mark, or the effect, of the step before, whoever holds the lock
    (`UniqueBlocksRollback`, `WhatIsDoneExists`).
  - Control plane: what a handler read is at least as new as its job and no older
    than what is in force; a handler at work has not been overtaken, since a
    subject has one message at a time (`AppliedModulesAreCurrent`,
    `AppliedOperationsAreWhole`).
  - Archive: every write of the archive keeps a tombstone, and a deletion has left
    one or its handler still will (`TombstonesStay`). Beside it (`ArchiveInv`): a `.part`
    file is whole before it is moved and no other download's; what a handler will
    write, what the cache shows and what the record has is the message's text, unless
    the message is excused (`StoredPicturesAreWhole`, `TextsAreCurrent`).
  - Invites: the stored snapshot covers every use that was credited; the holder of
    the lock compares with a snapshot that covers them, and what it will store
    covers what it credits (`UsesAreCreditedOnce`). This fails once an older
    snapshot replaces a newer one, which is what `muddled` records.
  - Summary: the claim in the row names the task that posts, so there is one; a
    card was posted by the claim that stands, or its failure was reported wrongly;
    who is about to mark the delivery has posted
    (`SummaryHasOnePoster`, `SummaryHasOneCard`, `DeliveredArePosted`).
  - Commands: what a command has written and what is noted of it, by the place it
    stands at; a result `ok` comes after the last write only, and nothing is written
    once something is noted (`AnsweredAreAudited`, `NotedEffectsAreProved`).

The assumptions on the constants are what the code has by construction: limits are
numbers, at least one attempt is made, the unique index is one of the migrations, the
vanity invite is an invite, the deadline is a time (`DeadlineAssumption`). `PartsAssumption` and `NamesAssumption` of
`MCDataSafety` add that a value for "nothing" is none of the things it stands
beside and that an operation of the control plane is not named as a module is.

Only model-checked: all liveness (fairness and ENABLED are out of the prover's
reach), and what the modules `ManagedVoice`, `MemberRestore` and `ServiceHealth`
promise, which is mostly liveness. Every safety property of a run that passes is
stated by a theorem. Of what no run lists, the type invariants of the parts of
`MCDataSafety` and of the presence module have none.

## What the code and its docs disagree about

Each of these has a run that ends in a violation.

1. `ordered_seq_race`: `_gate_scan_sync` draws a seq for its own event, loses
   `find_one_and_update` to the publisher, and returns `{"gate": "none"}`
   (`eventlog.py:595`): the event is claimed with no look at its predecessors.
   ADR-0002 (4a) promises full order in the scope.
2. `settings_off`: `/settings activity mode:off` stores an empty list of event types,
   which `from_mongo` (`domain.py:414`) loads as the full list.
3. `schema_parallel`: nothing renews the 120 s lease of the migration lock while a
   migration runs (`migrate.heartbeat` has no caller); a second runner applies
   beside the first. `migrate.py:307` says parallel migrations are not allowed.
4. `chat_purged`: a purge marks what is in the archive; a message whose pictures are
   still being stored is recorded afterwards as a living one (`gateway.py:2508`).
   The single deletion leaves a tombstone for this case.

Met on the way, without a run of their own:

* Bus. The forward pass moves the cursor past a pause of any length before the gap
  pass looks `gap_seconds` below it, so a row inserted a moment late before the
  pause is never seen by the sweep (`eventlog.py:1046`; the proof's assumption
  `MaxPause + MaxLate < Gap` is needed). As many rows stuck behind a quarantined
  event as the retry pass reads (`limit`) starve the rest (`eventlog.py:845`). A
  take-over of an expired lease grants an attempt whatever `attempts` says
  (`eventlog.py:302` against the docstring, line 12). A publication cut short
  between insert and seq leaves a row that is numbered after its successors
  (`eventlog.py:1133` against ADR-0002:58; `SeqFollowsJournal` is stated for
  publications that were not cut short).
* Lease. Between `ensure_current` and the act the lease can pass on
  (`supervise.py:103`; `OneStaleActPerTask` says how far that goes). The restart of a
  crashed container is refused until its own lease expires (`supervise.py:148`).
* Sessions. The reaper closes a session between the two inserts of a join; the
  tracker goes on with it from memory: later joins of the same user are dropped
  as present (`tracker.py:197`), those of others go into the closed session.
  ADR-0002:119 promises get-or-create, and `create_session` only inserts; a retried
  join whose insert had lost its answer raises a duplicate key every time
  (`InsertsNeverCollide` excludes it).
* Sleep timers. A gateway that passes `ensure_current`, is superseded, and claims a
  timer after its successor has listed the executing ones, and then dies, leaves it
  executing until the successor's loop is started anew (`gateway.py:2914`;
  `HoldersClaimEnds` excludes such a claim).
* Presence. A document that survives READY is of an older generation and proves
  nothing, but stays until the user moves.
* Summaries. ADR-0002:121 calls the gateway's handling an idempotent edit; the code
  posts, and a post that fails after Discord made its card is made again
  (`OneCardUnlessUnsure` allows that). A claim whose gateway died is never taken
  back (`SummaryPosted` excludes it).
* Settings. A managed channel that is emptied leaves `connectedAt` as it was.
* Commands. `MUTATING_ROUTES` lacks the soundboard switch: a change of it is noted
  as a mere invocation.
* Messages. An edit that empties the text leaves the old one in the cache, so that
  an edit back to it goes unnoticed.
* Members. A leave before a failed restore was retried replaces what was owed by
  what the member has (README.md:11-14 speaks of retries); a restore that was under
  way may overwrite the snapshot of a leave.
* Invites. A refresh that was overtaken stores its older answer, and the next join
  is charged with uses that were credited already; so does a failed fetch of the
  vanity invite, which is taken for its absence.
* Supervisor. The number of attempts behind the back-off is never reset.
* Migrations. Statuses are read before the lock is taken; `up --only N` writes the
  whole version when the indexes fit.

## Abstractions

* A payload is its event's identity. An error message, a reason, a log line is
  nothing. Signatures are checked by `Poison` or not `Poison`.
* `OrderedDelivery`: `orderAt` and `_id` sort as the publisher records; the page
  of the gate (`GATE_WINDOW`) holds all predecessors; the back-fill of `scope` and
  `orderAt` in rows older than these fields is left out; `claim` is atomic.
* `EventSweep`: `deliver` is one step; rows in state `processing` are *open*, as the
  retry pass treats them once expired.
* `republish_pending` repeats messages on a transport the models already let lose
  and repeat everything; `pending_stats` only reads.
* `WriterLease`: a fence stands for the random owner; a lease that ran out longer
  than `MaxLag` ago is as good as one that ran out `MaxLag` ago.
* `VoiceSessions`: times, durations and names are left out; every channel is
  tracked, and settings do not change; bots are not users; a user's events come in
  order and one at a time, which is `OrderedDelivery`'s business; ids are
  positions in a sequence, since rows are never deleted.
* `SleepTimer`: the lease is its fence; the due time is a flag; the proof of
  presence is an answer that may be either, `VoicePresence` says when it is yes.
* `VoicePresence`: one guild; time is a clock that passes the deadline.
* `GuildSettings`: the fields two writers share; lists are sets; the many switches
  that one command sets and no other reads are left out.
* `SummaryDelivery`: a summary is told apart by the channel it was made for.
* `ManagedVoice`: the settings change atomically; `connectedAt` is whether it is set.
* `InviteAttribution`: an attribution is the invite it names or none.
* `ChatMessages`: texts are compared only; a picture is its digest; what is
  published afterwards is left out.
* `ControlPlane`: a configuration is how often it was saved; operations are told
  apart by whether they write, act on Discord, or neither.
* `SlashCommands`: one route of each kind; the dashboard may have set anything when
  it is read.
* `SchemaMigrations`: what a migration builds is there or not.
* `ServiceHealth`: times are small numbers in the order of the code's: a healthy
  run, the interval, the cap of the back-off, the limits of the contract.

Not modelled, and why: see `PROJECT.json` (components). Wording, templates,
parsing of the environment, read-only reports and deployment scripts have no
state that a model checker could help with; the activity consumer posts what the
inbox hands it; the message bus has no state and its promise is that of a transport
that may lose, repeat and reorder. Reactions and the events that the gateway only
publishes on touch nothing that is read again.

## What is left

1. An abstract specification of the sessions (intervals of a user that do not
   overlap) and the theorem that the memory agrees with Mongo while nobody reaps.
2. `SleepTimer` with `VoicePresence` in one module, so that the time between proof
   and PATCH is in one behaviour.
