-------------------------- MODULE TrustedWatchers --------------------------
(* The trusted users, their subscriptions to other members, and the DMs of  *)
(* the stalker service.  Four processes share the two collections: the      *)
(* commands service, the gateway (a member who leaves loses his access),    *)
(* the control plane (which replaces or edits the list of trusted users)    *)
(* and the stalker.  Each call of Mongo is a step.                          *)
EXTENDS Naturals, FiniteSets

CONSTANTS
    Watchers,   \* members who may be trusted and subscribe
    Targets,    \* members who are watched; a watcher may be one
    None,
    MaxCrashes  \* bound: crashes of the two services

VARIABLES
    trusted,  \* GuildSettings.trusted_user_ids
    subs,     \* stalker_subscriptions: pairs of a watcher and a target
    command,  \* the slash command under way
    leave,    \* _revoke_stalker_access under way in the gateway
    handler,  \* the event under way in the stalker
    crashes

vars == <<trusted, subs, command, leave, handler, crashes>>

Pairs == {p \in Watchers \X Targets : p[1] # p[2]}
Of(w) == {p \in subs : p[1] = w}                     \* list_stalker_subscriptions_by_watcher
WatchersOf(t) == {w \in Watchers : <<w, t>> \in subs} \* list_stalker_subscriptions_by_target

NoCall == [pc |-> "idle", who |-> None, target |-> None, doomed |-> {}]
Idle == [pc |-> "idle", target |-> None, listed |-> {}, untrusted |-> {}, active |-> {}, doomed |-> {},
         told |-> {}, steady |-> {}, ever |-> {}]

Init ==
    /\ trusted = {} /\ subs = {}
    /\ command = NoCall /\ leave = NoCall
    /\ handler = Idle
    /\ crashes = 0

(* History of the event under way: "steady" are the watchers subscribed to  *)
(* its target and trusted ever since it was taken up, "ever" those who were *)
(* trusted at some moment since. *)
Notes(h, nowTrusted, nowSubs) ==
    IF h.pc = "idle" THEN h
    ELSE [h EXCEPT !.steady = {w \in @ : w \in nowTrusted /\ <<w, h.target>> \in nowSubs},
                   !.ever = @ \cup nowTrusted]

SetTrusted(t) == trusted' = t /\ handler' = Notes(handler, t, subs) /\ UNCHANGED subs
SetSubs(s) == subs' = s /\ handler' = Notes(handler, trusted, s) /\ UNCHANGED trusted

-----------------------------------------------------------------------------
(* The commands service: its handlers do not await, so one is under way. *)

TrustedAdd(w) ==
    /\ command.pc = "idle"
    /\ SetTrusted(trusted \cup {w})
    /\ UNCHANGED <<command, leave, crashes>>

TrustedRemove(w) ==
    /\ command.pc = "idle"
    /\ SetTrusted(trusted \ {w})
    /\ command' = [NoCall EXCEPT !.pc = "list", !.who = w]
    /\ UNCHANGED <<leave, crashes>>

(* handle_stalker_command up to its write: is_trusted_user, not oneself. *)
MayWatch(w, t) == w \in trusted /\ t # w

StalkerCommand(w, t) ==
    /\ command.pc = "idle" /\ MayWatch(w, t)
    /\ \E op \in {"start", "stop"} : command' = [NoCall EXCEPT !.pc = op, !.who = w, !.target = t]
    /\ UNCHANGED <<trusted, subs, leave, handler, crashes>>

StalkerWrite ==
    /\ \/ command.pc = "start" /\ SetSubs(subs \cup {<<command.who, command.target>>})
       \/ command.pc = "stop" /\ SetSubs(subs \ {<<command.who, command.target>>})
    /\ command' = NoCall
    /\ UNCHANGED <<leave, crashes>>

(* delete_stalker_subscriptions_by_watcher: the list, then one by one. *)
Listing(call) == [call EXCEPT !.pc = "delete", !.doomed = Of(call.who)]

CommandDeletes ==
    /\ \/ /\ command.pc = "list" /\ command' = Listing(command)
          /\ UNCHANGED <<subs, handler, trusted>>
       \/ /\ command.pc = "delete" /\ command.doomed = {} /\ command' = NoCall
          /\ UNCHANGED <<subs, handler, trusted>>
       \/ /\ command.pc = "delete"
          /\ \E p \in command.doomed : SetSubs(subs \ {p}) /\ command' = [command EXCEPT !.doomed = @ \ {p}]
    /\ UNCHANGED <<leave, crashes>>

CommandsDie ==
    /\ command.pc # "idle" /\ crashes < MaxCrashes
    /\ command' = NoCall /\ crashes' = crashes + 1
    /\ UNCHANGED <<trusted, subs, leave, handler>>

(* on_member_remove of the gateway. *)
MemberLeaves(w) ==
    /\ leave.pc = "idle"
    /\ SetTrusted(trusted \ {w})
    /\ leave' = [NoCall EXCEPT !.pc = "list", !.who = w]
    /\ UNCHANGED <<command, crashes>>

LeaveDeletes ==
    /\ \/ /\ leave.pc = "list" /\ leave' = Listing(leave)
          /\ UNCHANGED <<subs, handler, trusted>>
       \/ /\ leave.pc = "delete" /\ leave.doomed = {} /\ leave' = NoCall
          /\ UNCHANGED <<subs, handler, trusted>>
       \/ /\ leave.pc = "delete"
          /\ \E p \in leave.doomed : SetSubs(subs \ {p}) /\ leave' = [leave EXCEPT !.doomed = @ \ {p}]
    /\ UNCHANGED <<command, crashes>>

(* The control plane: the operation "trusted", or settings that replace the *)
(* list.  The subscriptions stay. *)
ControlTrusts ==
    /\ \E t \in SUBSET Watchers : t # trusted /\ SetTrusted(t)
    /\ UNCHANGED <<command, leave, crashes>>

-----------------------------------------------------------------------------
(* The stalker: handle_voice and handle_activity.  Up to the first await    *)
(* nothing else of this process runs. *)

TakeEvent(t) ==
    /\ handler.pc = "idle"
    /\ handler' = [Idle EXCEPT !.pc = "listed", !.target = t, !.listed = WatchersOf(t),
                               !.steady = WatchersOf(t) \cap trusted, !.ever = trusted]
    /\ UNCHANGED <<trusted, subs, command, leave, crashes>>

(* Slip: every subscriber is told. *)
EverySubscriber(h) == h.listed

(* _active_watcher_user_ids: the trusted subscribers, read once. *)
Active(h) == h.listed \cap trusted

ReadTrusted ==
    /\ handler.pc = "listed"
    /\ handler' = [handler EXCEPT !.pc = "prune", !.untrusted = handler.listed \ trusted, !.active = Active(handler)]
    /\ UNCHANGED <<trusted, subs, command, leave, crashes>>

(* The subscriptions an untrusted subscriber loses, those to others too. *)
Lost(w) == Of(w)

(* The deletions of the stalker; its own do not count against "steady". *)
Prune ==
    /\ handler.pc = "prune"
    /\ \/ /\ handler.doomed = {} /\ handler.untrusted # {}
          /\ \E w \in handler.untrusted :
                handler' = [handler EXCEPT !.untrusted = @ \ {w}, !.doomed = Lost(w)]
          /\ UNCHANGED subs
       \/ \E p \in handler.doomed :
             subs' = subs \ {p} /\ handler' = [handler EXCEPT !.doomed = @ \ {p}]
    /\ UNCHANGED <<trusted, command, leave, crashes>>

(* The names of guild and channels are resolved; a failure is a label. *)
Resolve ==
    /\ handler.pc = "prune" /\ handler.untrusted = {} /\ handler.doomed = {}
    /\ handler' = [handler EXCEPT !.pc = "tell", !.active = @ \ {handler.target}]
    /\ UNCHANGED <<trusted, subs, command, leave, crashes>>

(* _deliver_to_watchers goes on after a DM that failed. *)
Rest(rest) == rest

SendDM ==
    /\ handler.pc = "tell"
    /\ \E w \in handler.active, failed \in BOOLEAN :
          LET rest == handler.active \ {w}
          IN  handler' = [handler EXCEPT !.active = IF failed THEN Rest(rest) ELSE rest, !.told = @ \cup {w}]
    /\ UNCHANGED <<trusted, subs, command, leave, crashes>>

(* The event is completed in the inbox. *)
Finish ==
    /\ handler.pc = "tell" /\ handler.active = {}
    /\ handler' = [Idle EXCEPT !.target = handler.target, !.told = handler.told, !.steady = handler.steady]
    /\ UNCHANGED <<trusted, subs, command, leave, crashes>>

(* The sweep hands the event out again, as it would a new one. *)
StalkerDies ==
    /\ handler.pc # "idle" /\ crashes < MaxCrashes
    /\ handler' = Idle /\ crashes' = crashes + 1
    /\ UNCHANGED <<trusted, subs, command, leave>>

-----------------------------------------------------------------------------
Stalker == ReadTrusted \/ Prune \/ Resolve \/ SendDM \/ Finish

Next ==
    \/ \E w \in Watchers : TrustedAdd(w) \/ TrustedRemove(w) \/ MemberLeaves(w)
    \/ \E w \in Watchers, t \in Targets : StalkerCommand(w, t)
    \/ StalkerWrite \/ CommandDeletes \/ LeaveDeletes \/ CommandsDie
    \/ ControlTrusts
    \/ \E t \in Targets : TakeEvent(t)
    \/ Stalker \/ StalkerDies

Spec == Init /\ [][Next]_vars

(* The calls under way go on; a target is seen again and again, which an    *)
(* active member of a guild is. *)
FairSpec ==
    /\ Spec /\ WF_vars(StalkerWrite) /\ WF_vars(CommandDeletes) /\ WF_vars(LeaveDeletes) /\ WF_vars(Stalker)
    /\ \A t \in Targets : SF_vars(TakeEvent(t))

-----------------------------------------------------------------------------
Calls == [pc : {"idle", "list", "delete", "start", "stop"}, who : Watchers \cup {None},
          target : Targets \cup {None}, doomed : SUBSET Pairs]

(* Only pairs of two different members are stored, and what the processes   *)
(* hold is well formed (commands.py, handle_stalker_command). *)
TypeOK ==
    /\ trusted \subseteq Watchers /\ subs \subseteq Pairs
    /\ command \in Calls /\ leave \in Calls
    /\ handler.pc \in {"idle", "listed", "prune", "tell"} /\ handler.target \in Targets \cup {None}
    /\ \A s \in {handler.listed, handler.untrusted, handler.active, handler.told, handler.steady, handler.ever} :
          s \subseteq Watchers
    /\ handler.doomed \subseteq Pairs
    /\ crashes \in 0 .. MaxCrashes

(* Whoever is told of an event was trusted at some moment after the stalker *)
(* took it up: subscriptions that outlive the trust (a command that died,   *)
(* the control plane, a start that raced a removal) tell nobody anything    *)
(* (stalker.py, _active_watcher_user_ids). *)
ToldWereTrusted == handler.pc # "idle" => handler.told \subseteq handler.ever

(* When an event is done, every watcher who was subscribed and trusted all  *)
(* the while has been told or his DM has been tried, whatever happened to   *)
(* the others (stalker.py, _deliver_to_watchers). *)
SteadyAreTold == handler.pc = "idle" => handler.steady \ {handler.target} \subseteq handler.told

(* A member who is trusted no more loses his subscriptions, also those left *)
(* by a command that died, by the control plane, or by a start that had     *)
(* passed its check: the next event of the target takes them away           *)
(* (stalker.py, _active_watcher_user_ids). *)
UntrustedForgotten ==
    \A w \in Watchers : <>[](w \notin trusted) => <>[](\A p \in subs : p[1] # w)
=============================================================================
