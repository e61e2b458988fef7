--------------------------- MODULE MemberRestore ---------------------------
(* What the gateway keeps of one member's roles, or of his nickname, over a *)
(* leave and a rejoin.  Both are handled by twin functions; "aspect" says   *)
(* which of them a behaviour is about: a value is a set of roles, or at     *)
(* most one nickname.  Repository calls do not suspend the event loop, so a *)
(* step runs from one await to the next.                                    *)
EXTENDS Naturals, Sequences, FiniteSets

CONSTANTS
    Names,      \* roles, or nicknames
    Guilds,     \* the guilds to look at: is the restore enabled, which roles
                \* _autorole_is_safe refuses, the auto role or None
    None,
    MaxMoves,   \* bound: joins, leaves, changes and deletions
    MaxTroubles \* bound: crashes and failed calls

VARIABLES
    aspect,   \* "roles" or "nickname"
    guild,    \* one of Guilds: restore, unsafe, auto
    here, has,\* Discord: is the member in the guild, and what he has
    gone,     \* roles deleted from the guild
    up,       \* the gateway is connected
    cache,    \* its cached member: here, value
    events,   \* dispatched by Discord and not handled yet
    doc,      \* member_role_state / member_nickname_state, or None
    tasks,    \* on_member_join, on_member_remove, the reconciliation
    owed,     \* history: what the snapshot of the last leave promises
    moves, troubles

vars == <<aspect, guild, here, has, gone, up, cache, events, doc, tasks, owed, moves, troubles>>
discord == <<here, has, gone>>

Tasks == {"join", "leave", "reconcile"}
Values == IF aspect = "roles" THEN SUBSET Names ELSE {{}} \cup {{n} : n \in Names}

(* A task holds the cached member (live), or an object nobody updates any   *)
(* more: one that has left the cache, or one that was fetched. *)
Idle == [pc |-> "idle", live |-> FALSE, seen |-> {}, read |-> {}, kept |-> {}, todo |-> {}, bad |-> FALSE]
Object(t) == (IF tasks[t].live THEN cache.value ELSE tasks[t].seen) \ gone

Snapshot(value, pending) == [value |-> value, pending |-> pending]

(* _sync_member_role_state and _sync_member_nickname_state: nothing is owed. *)
Synced(value) == Snapshot(value, FALSE)

(* _autorole_is_safe, of a role that exists *)
Safe(r) == r \notin guild.unsafe \cup gone

Init ==
    /\ aspect \in {"roles", "nickname"} /\ guild \in Guilds
    /\ aspect = "nickname" => guild.auto = None
    /\ here = TRUE /\ gone = {}
    /\ has = IF aspect = "roles" THEN Names ELSE {CHOOSE n \in Names : TRUE}
    /\ up = FALSE /\ cache = [here |-> FALSE, value |-> {}] /\ events = <<>>
    /\ doc = None /\ tasks = [t \in Tasks |-> Idle]
    /\ owed = {} /\ moves = 0 /\ troubles = 0

Cost(n) == troubles + n <= MaxTroubles /\ troubles' = troubles + n
Trouble == Cost(1)
Calm == Cost(0)
Failing(ok) == IF ok THEN 0 ELSE 1

-----------------------------------------------------------------------------
(* Discord, and what the connected gateway is told of it. *)
Told(kind, value) ==
    events' = IF up THEN Append(events, [kind |-> kind, value |-> value]) ELSE events

Moves == moves < MaxMoves /\ moves' = moves + 1

Leave ==
    /\ Moves /\ here
    /\ here' = FALSE /\ has' = {}
    /\ owed' = {}
    /\ Told("leave", {})
    /\ UNCHANGED <<aspect, guild, gone, up, cache, doc, tasks, troubles>>

Join ==
    /\ Moves /\ ~here
    /\ here' = TRUE
    /\ Told("join", {})
    /\ UNCHANGED <<aspect, guild, has, gone, up, cache, doc, tasks, owed, troubles>>

(* A moderator, or the member himself.  Nobody owes him what was taken. *)
Change ==
    /\ Moves /\ here
    /\ \E v \in Values \ {has} :
        /\ v \cap gone = {}
        /\ has' = v
        /\ owed' = IF aspect = "roles" THEN owed \ (has \ v) ELSE {}
        /\ Told("update", v)
    /\ UNCHANGED <<aspect, guild, here, gone, up, cache, doc, tasks, troubles>>

DeleteRole ==
    /\ Moves /\ aspect = "roles"
    /\ \E r \in Names \ gone :
        /\ gone' = gone \cup {r}
        /\ has' = has \ {r} /\ owed' = owed \ {r}
        /\ cache' = [cache EXCEPT !.value = @ \ {r}]
    /\ UNCHANGED <<aspect, guild, here, up, events, doc, tasks, troubles>>

-----------------------------------------------------------------------------
(* on_member_join hands the cached member over; on_member_remove takes it   *)
(* out of the cache, where the other tasks' object stays behind;            *)
(* on_member_update saves a nickname at once, and no roles. *)
Frozen == [t \in Tasks |-> IF tasks[t].live THEN [tasks[t] EXCEPT !.live = FALSE, !.seen = cache.value] ELSE tasks[t]]

(* _record_member_nickname_change *)
Recorded(value) == IF aspect = "nickname" /\ value # cache.value THEN Synced(value) ELSE doc

Dispatch ==
    /\ up /\ events # <<>>
    /\ events' = Tail(events)
    /\ LET e == Head(events) IN
        \/ /\ e.kind = "join" /\ tasks["join"].pc = "idle"
           /\ cache' = [here |-> TRUE, value |-> e.value]
           /\ tasks' = [tasks EXCEPT !["join"] = [Idle EXCEPT !.pc = "begin", !.live = TRUE]]
           /\ UNCHANGED doc
        \/ /\ e.kind = "leave" /\ tasks["leave"].pc = "idle"
           /\ cache' = [here |-> FALSE, value |-> {}]
           /\ tasks' = [Frozen EXCEPT !["leave"] = [Idle EXCEPT !.pc = "save", !.seen = cache.value]]
           /\ UNCHANGED doc
        \/ /\ e.kind = "update"
           /\ cache' = [cache EXCEPT !.value = e.value \ gone]
           /\ doc' = Recorded(e.value)
           /\ UNCHANGED tasks
    /\ UNCHANGED <<aspect, guild, here, has, gone, up, owed, moves, troubles>>

-----------------------------------------------------------------------------
(* The restore: what follows "begin" until the task is through with it.  In *)
(* the end the join goes on with the auto role, the reconciliation with the *)
(* members it has not saved yet. *)
Through(t) == [tasks EXCEPT ![t] = [Idle EXCEPT !.pc = IF t = "reconcile" THEN "current"
                                                       ELSE IF aspect = "roles" /\ guild.auto # None THEN "autorole" ELSE "idle"]]

(* Early returns of _restore_member_roles and _restore_member_nickname;     *)
(* what they find settled is then saved as it is. *)
ToRestore(t) ==
    /\ guild.restore /\ doc # None
    /\ t = "reconcile" => doc.pending
    /\ IF aspect = "roles" THEN doc.value # {} ELSE doc.value # Object(t)

RestoreBegins(t, object) ==
    IF ToRestore(t)
    THEN /\ tasks' = [tasks EXCEPT ![t] = [object EXCEPT !.pc = IF aspect = "roles" THEN "lookup" ELSE "assign",
                                                         !.read = doc.value]]
         /\ UNCHANGED doc
    ELSE /\ doc' = Synced((IF object.live THEN cache.value ELSE object.seen) \ gone)
         /\ tasks' = Through(t)

(* Slip: only what could be restored is kept. *)
SavedWithoutFailed(t, kept, bad) == Snapshot(IF bad THEN Object(t) ELSE kept, bad)

(* save_member_role_snapshot or mark_member_roles_restored *)
Saved(t, kept, bad) == Snapshot(kept, bad)

(* A restore that succeeded is followed by a sync of what the cache has;    *)
(* either call of the repository may raise. *)
Finish(t, kept, bad, failed) ==
    /\ tasks' = Through(t)
    /\ \/ /\ doc' = IF bad THEN Saved(t, kept, bad) ELSE Synced(Object(t))
          /\ Cost(failed)
       \/ /\ doc' \in {doc} \cup (IF bad THEN {} ELSE {Saved(t, kept, bad)})
          /\ Cost(failed + 1)

JoinBegin ==
    /\ tasks["join"].pc = "begin"
    /\ RestoreBegins("join", tasks["join"])
    /\ UNCHANGED <<aspect, guild, discord, up, cache, events, owed, moves, troubles>>

(* _role_lookup_map; a role that is not found is pruned only if the fetch   *)
(* has succeeded. *)
Lookup(t) ==
    /\ tasks[t].pc = "lookup"
    /\ \E fetched \in BOOLEAN :
           LET lost == IF fetched THEN {} ELSE tasks[t].read \cap gone
               kept == Object(t) \cup lost
               todo == {r \in tasks[t].read \ Object(t) : Safe(r)}
           IN IF todo = {} THEN Finish(t, kept, lost # {}, Failing(fetched))
              ELSE /\ Cost(Failing(fetched))
                   /\ tasks' = [tasks EXCEPT ![t].pc = "assign", ![t].kept = kept,
                                             ![t].todo = todo, ![t].bad = lost # {}]
                   /\ UNCHANGED doc
    /\ UNCHANGED <<aspect, guild, discord, up, cache, events, owed, moves>>

(* add_roles and edit reach the member if he is there. *)
Given(value) ==
    /\ has' = value
    /\ IF value # has THEN Told("update", value) ELSE UNCHANGED events

AssignRole(t) ==
    /\ tasks[t].pc = "assign" /\ aspect = "roles"
    /\ \E r \in tasks[t].todo, ok, done \in BOOLEAN :
        /\ ok => done /\ here /\ r \notin gone
        /\ done => here /\ r \notin gone
        /\ IF done THEN Given(has \cup {r}) ELSE UNCHANGED <<has, events>>
        /\ LET todo == tasks[t].todo \ {r}
               kept == tasks[t].kept \cup {r}
               bad == tasks[t].bad \/ ~ok
               failed == Failing(ok \/ ~here \/ r \in gone)
           IN IF todo = {} THEN Finish(t, kept, bad, failed)
              ELSE /\ Cost(failed)
                   /\ tasks' = [tasks EXCEPT ![t].kept = kept, ![t].todo = todo, ![t].bad = bad]
                   /\ UNCHANGED doc
    /\ UNCHANGED <<aspect, guild, here, gone, up, cache, owed, moves>>

(* A nickname that cannot be set stays pending. *)
AssignNickname(t) ==
    /\ tasks[t].pc = "assign" /\ aspect = "nickname"
    /\ \E ok, done \in BOOLEAN :
        /\ ok => done
        /\ done => here
        /\ IF done THEN Given(tasks[t].read) ELSE UNCHANGED <<has, events>>
        /\ Finish(t, tasks[t].read, ~ok, Failing(ok \/ ~here))
    /\ UNCHANGED <<aspect, guild, here, gone, up, cache, owed, moves>>

(* A repository call raises, or the bot's member is not found. *)
RestoreFails(t) ==
    /\ tasks[t].pc \in {"begin", "lookup"}
    /\ Trouble
    /\ tasks' = Through(t)
    /\ UNCHANGED <<aspect, guild, discord, up, cache, events, doc, owed, moves>>

(* The auto role is added after the restore; a failure is only logged. *)
GiveAutoRole ==
    /\ tasks["join"].pc = "autorole"
    /\ tasks' = [tasks EXCEPT !["join"] = Idle]
    /\ \/ /\ here /\ Safe(guild.auto)
          /\ Given(has \cup {guild.auto}) /\ Calm
       \/ /\ IF here /\ Safe(guild.auto) THEN Trouble ELSE Calm
          /\ UNCHANGED <<has, events>>
    /\ UNCHANGED <<aspect, guild, here, gone, up, cache, doc, owed, moves>>

-----------------------------------------------------------------------------

(* _save_member_role_snapshot and _save_member_nickname_snapshot *)
Left(seen) ==
    Snapshot(IF aspect = "nickname" /\ seen = {} /\ doc # None THEN doc.value ELSE seen, TRUE)

(* The gateway has caught up and nobody else is at work on the snapshot. *)
Undisturbed == guild.restore /\ ~here /\ events = <<>> /\ \A t \in {"join", "reconcile"} : tasks[t].pc = "idle"

LeaveSave ==
    /\ tasks["leave"].pc = "save"
    /\ tasks' = [tasks EXCEPT !["leave"] = Idle]
    /\ LET seen == Object("leave")
           indebted == aspect = "nickname" /\ seen = {} /\ doc # None /\ doc.pending
           promised == IF aspect = "roles" THEN seen \ guild.unsafe ELSE IF indebted THEN doc.value ELSE seen
       IN \/ /\ doc' = Left(seen) /\ Calm
             /\ owed' = IF Undisturbed THEN promised ELSE {}
          \/ Trouble /\ UNCHANGED <<doc, owed>>
    /\ UNCHANGED <<aspect, guild, discord, up, cache, events, moves>>

-----------------------------------------------------------------------------
(* reconcile_member_state_once, in on_ready and every 300 s. *)
ReconcileList ==
    /\ up /\ tasks["reconcile"].pc = "idle"
    /\ tasks' = [tasks EXCEPT !["reconcile"] = IF doc = None THEN [Idle EXCEPT !.pc = "current"]
                                               ELSE [Idle EXCEPT !.pc = "resolve", !.bad = doc.pending]]
    /\ UNCHANGED <<aspect, guild, discord, up, cache, events, doc, owed, moves, troubles>>

(* mark_member_roles_pending: the value is read again. *)
Absent == IF tasks["reconcile"].bad \/ doc = None THEN doc ELSE [doc EXCEPT !.pending = TRUE]

ReconcileResolve ==
    /\ tasks["reconcile"].pc = "resolve"
    /\ \/ /\ cache.here /\ Calm
          /\ RestoreBegins("reconcile", [Idle EXCEPT !.live = TRUE])
       \/ /\ ~cache.here /\ here /\ Calm
          /\ RestoreBegins("reconcile", [Idle EXCEPT !.seen = has])
       \/ /\ ~cache.here
          /\ IF here THEN Trouble ELSE Calm
          /\ doc' = Absent
          /\ tasks' = Through("reconcile")
    /\ UNCHANGED <<aspect, guild, discord, up, cache, events, owed, moves>>

(* _sync_current_guild_member_roles: members of the cache, debts left out. *)
Current == cache.here /\ (doc # None => ~doc.pending)

ReconcileCurrent ==
    /\ tasks["reconcile"].pc = "current"
    /\ doc' = IF Current THEN Synced(cache.value) ELSE doc
    /\ tasks' = [tasks EXCEPT !["reconcile"] = Idle]
    /\ UNCHANGED <<aspect, guild, discord, up, cache, events, owed, moves, troubles>>

-----------------------------------------------------------------------------
(* The gateway is told all members when it connects. *)
Start ==
    /\ ~up
    /\ up' = TRUE
    /\ cache' = [here |-> here, value |-> has]
    /\ UNCHANGED <<aspect, guild, discord, events, doc, tasks, owed, moves, troubles>>

Crash ==
    /\ up /\ Trouble
    /\ up' = FALSE
    /\ cache' = [here |-> FALSE, value |-> {}] /\ events' = <<>>
    /\ tasks' = [t \in Tasks |-> Idle]
    /\ UNCHANGED <<aspect, guild, discord, doc, owed, moves>>

RestoreStep(t) == Lookup(t) \/ AssignRole(t) \/ AssignNickname(t)
JoinStep == JoinBegin \/ RestoreStep("join") \/ GiveAutoRole
ReconcileStep == ReconcileResolve \/ RestoreStep("reconcile") \/ ReconcileCurrent

Next ==
    \/ Leave \/ Join \/ Change \/ DeleteRole \/ Dispatch
    \/ JoinStep \/ LeaveSave \/ ReconcileList \/ ReconcileStep
    \/ \E t \in {"join", "reconcile"} : RestoreFails(t)
    \/ Start \/ Crash

Spec == Init /\ [][Next]_vars

(* Compose restarts the gateway, Discord dispatches, an awaited call        *)
(* returns, and the reconciliation runs every 300 s. *)
FairSpec == Spec /\ WF_vars(Start) /\ WF_vars(Dispatch) /\ WF_vars(JoinStep) /\ WF_vars(LeaveSave)
                 /\ WF_vars(ReconcileList) /\ WF_vars(ReconcileStep)

-----------------------------------------------------------------------------
TypeOK ==
    /\ has \in Values /\ owed \in Values /\ cache \in [here : BOOLEAN, value : Values]
    /\ doc = None \/ doc \in [value : SUBSET Names, pending : BOOLEAN]
    /\ \A t \in Tasks : /\ tasks[t].pc \in {"idle", "begin", "lookup", "assign", "autorole", "save", "resolve", "current"}
                        /\ tasks[t].todo \subseteq Names /\ tasks[t].kept \subseteq Names
    /\ aspect = "nickname" => has \in Values /\ (doc # None => doc.value \in Values)

(* When members and failures have come to rest, what is stored is what the  *)
(* member has, with no debt left; of an absent member it is a debt. *)
Converges == <>[](IF here THEN doc # None /\ doc = Snapshot(has, FALSE) ELSE doc # None => doc.pending)

(* What the member had when he last left is back after a rejoin, whatever   *)
(* crashes or fails: his roles, and a nickname even if he left once more    *)
(* before he got it back.  It holds where no restore was under way and no   *)
(* event waited when the leave was saved (either may spoil the snapshot). *)
OwedRestored == <>[](here => owed \subseteq has)
=============================================================================
