---------------------------- MODULE ManagedVoice ----------------------------
(* The gateway's ManagedVoiceController, which keeps the bot in the channel *)
(* of the settings, and SoundboardEnforcement, which disconnects those who  *)
(* play sounds there.  The settings change atomically (AtomicSettings).     *)
EXTENDS Naturals, Sequences, FiniteSets

CONSTANTS
    Channels,
    None,
    Events,      \* on_voice_state_update handlers for the bot itself
    MaxMoves,    \* bound: changes by members, moderators and Discord
    MaxTroubles  \* bound: crashes and failed calls

VARIABLES
    settings,  \* the part of guild_settings that is read here
    at,        \* Discord: the channel the bot is in
    barred,    \* Discord: channels that are missing or closed to the bot
    member,    \* Discord: the channel of a member
    up,
    seen,      \* cache: the bot's channel
    client,    \* guild.voice_client: [ch, on], or None
    lock,      \* _locks: who reconciles
    waiters,   \* who waits for it; asyncio.Lock serves them in turn
    held,      \* _retry_after is in the future
    call,      \* reconcile_guild of the loop and of the handlers
    effect,    \* on_voice_channel_effect
    enforced,  \* history: the settings asked for enforcement there, since the effect
    moves, troubles

vars == <<settings, at, barred, member, up, seen, client, lock, waiters, held, call, effect, enforced, moves, troubles>>

Callers == Events \cup {"loop"}
Idle == [pc |-> "idle", want |-> None, had |-> FALSE]
NoEffect == [pc |-> "idle", ch |-> None, kicked |-> FALSE]
Here == Channels \cup {None}
Trouble == troubles < MaxTroubles /\ troubles' = troubles + 1
Connected == client # None /\ client.on
Enforces(s, c) == s.enforce /\ s.managed = c

Init ==
    /\ settings \in [managed : Here, enforce : {TRUE}, connected : {FALSE}]
    /\ at = None /\ barred = {} /\ member \in Channels
    /\ up = FALSE /\ seen = None /\ client = None
    /\ lock = None /\ waiters = <<>> /\ held = FALSE
    /\ call = [p \in Callers |-> Idle]
    /\ effect = NoEffect /\ enforced = FALSE
    /\ moves = 0 /\ troubles = 0

-----------------------------------------------------------------------------
(* Commands and the site.  Whoever empties the channel through a command    *)
(* also empties the time of the connection; the site's config does not.     *)
Configure ==
    /\ \/ \E c \in Here : settings' = [settings EXCEPT !.managed = c]
       \/ settings' = [settings EXCEPT !.managed = None, !.connected = FALSE]
       \/ settings' = [settings EXCEPT !.enforce = ~@]
    /\ enforced' = (enforced \/ (effect.pc # "idle" /\ Enforces(settings', effect.ch)))
    /\ UNCHANGED <<at, barred, member, up, seen, client, lock, waiters, held, call, effect, troubles>>

(* A moderator moves the bot or throws it out, the voice connection breaks, *)
(* a channel is deleted or closed, or opened again. *)
Meddle ==
    /\ \/ at # None /\ at' \in Here \ {at} /\ UNCHANGED <<client, barred>>
       \/ Connected /\ client' = [client EXCEPT !.on = FALSE] /\ at' \in {at, None} /\ UNCHANGED barred
       \/ \E c \in Channels \ barred : barred' = barred \cup {c} /\ at' = (IF at = c THEN None ELSE at) /\ UNCHANGED client
       \/ \E c \in barred : barred' = barred \ {c} /\ UNCHANGED <<at, client>>
    /\ UNCHANGED <<settings, member, up, seen, lock, waiters, held, call, effect, enforced, troubles>>

MemberMoves ==
    /\ member' \in Here \ {member}
    /\ UNCHANGED <<settings, at, barred, up, seen, client, lock, waiters, held, call, effect, enforced, troubles>>

World == moves < MaxMoves /\ moves' = moves + 1 /\ (Configure \/ Meddle \/ MemberMoves)

(* A voice connection that nobody holds any more is dropped by Discord; one *)
(* that is broken is dropped by the library. *)
Dropped ==
    /\ ~Connected /\ (at # None \/ client # None) /\ lock = None
    /\ at' = None /\ client' = None
    /\ UNCHANGED <<settings, barred, member, up, seen, lock, waiters, held, call, effect, enforced, moves, troubles>>

-----------------------------------------------------------------------------
(* reconcile_guild, up to the lock *)
Wakes(p) ==
    IF held
    THEN UNCHANGED <<call, waiters>>
    ELSE call' = [call EXCEPT ![p].pc = "waiting"] /\ waiters' = Append(waiters, p)

(* reconcile_managed_voice, every 5 s; on_ready *)
LoopBegins ==
    /\ up /\ call["loop"].pc = "idle" /\ ~held
    /\ Wakes("loop")
    /\ UNCHANGED <<settings, at, barred, member, up, seen, client, lock, held, effect, enforced, moves, troubles>>

(* A VOICE_STATE_UPDATE of the bot: the cache, the voice client, the handler *)
Updated(p) ==
    /\ up /\ seen # at /\ call[p].pc = "idle"
    /\ seen' = at
    /\ client' = IF at = None \/ client = None THEN None ELSE [client EXCEPT !.ch = at]
    /\ Wakes(p)
    /\ UNCHANGED <<settings, at, barred, member, up, lock, held, effect, enforced, moves, troubles>>

LockFree == lock = None

(* _set_managed_connected_at: a time is not replaced by a later one. *)
MarkConnected(yes) == settings' = [settings EXCEPT !.connected = yes]

Ends(p) ==
    /\ call' = [call EXCEPT ![p] = Idle]
    /\ lock' = None

(* _reconcile_guild_locked up to its first await *)
Locks(p) ==
    /\ call[p].pc = "waiting" /\ p = Head(waiters) /\ LockFree
    /\ waiters' = Tail(waiters)
    /\ IF settings.managed = None /\ ~Connected
       THEN /\ MarkConnected(FALSE) /\ Ends(p) /\ held' = FALSE
       ELSE /\ lock' = p
            /\ call' = [call EXCEPT ![p] = [pc |-> IF settings.managed = None THEN "leaving" ELSE "resolving",
                                           want |-> settings.managed, had |-> client # None]]
            /\ UNCHANGED <<settings, held>>
    /\ UNCHANGED <<at, barred, member, up, seen, client, effect, enforced, moves, troubles>>

(* The channel is none any more: _safe_voice_disconnect, whose failure is   *)
(* only logged. *)
Leaves(p) ==
    /\ call[p].pc = "leaving"
    /\ \/ at' = None /\ client' = None /\ seen' = None /\ UNCHANGED troubles
       \/ Trouble /\ UNCHANGED <<at, client, seen>>
    /\ MarkConnected(FALSE) /\ Ends(p) /\ held' = FALSE
    /\ UNCHANGED <<waiters, barred, member, up, effect, enforced, moves>>

(* The channel is resolved and the permissions are read. *)
Resolves(p) ==
    /\ call[p].pc = "resolving"
    /\ IF call[p].want \in barred
       THEN /\ MarkConnected(FALSE) /\ Ends(p) /\ held' = FALSE
       ELSE /\ call' = [call EXCEPT ![p].pc = "joining"]
            /\ UNCHANGED <<settings, lock, held>>
    /\ UNCHANGED <<waiters, at, barred, member, up, seen, client, effect, enforced, moves, troubles>>

(* Slip: a connected client is taken to be in the right channel. *)
AnywhereWillDo(p) == call[p].had /\ Connected

Settled(p) == call[p].had /\ Connected /\ client.ch = call[p].want

(* connect, disconnect and connect, move_to, or nothing; then the bot's     *)
(* cached channel is compared. *)
Joins(p) ==
    /\ call[p].pc = "joining"
    /\ IF Settled(p)
       THEN /\ MarkConnected(seen = call[p].want)
            /\ UNCHANGED <<at, seen, client>>
       ELSE /\ call[p].want \notin barred
            /\ at' = call[p].want /\ seen' = call[p].want
            /\ client' = [ch |-> call[p].want, on |-> TRUE]
            /\ MarkConnected(TRUE)
    /\ Ends(p) /\ held' = FALSE
    /\ UNCHANGED <<waiters, barred, member, up, effect, enforced, moves, troubles>>

(* What raises ends the call and holds the next ones back for 5 s. *)
Raises(p) ==
    /\ \/ call[p].pc = "joining" /\ call[p].want \in barred /\ UNCHANGED troubles
       \/ call[p].pc \in {"leaving", "resolving", "joining"} /\ Trouble
    /\ \/ UNCHANGED <<at, client, seen>>
       \/ call[p].pc = "joining" /\ call[p].had /\ ~Connected /\ at' = None /\ client' = None /\ seen' = None
    /\ held' = TRUE
    /\ Ends(p)
    /\ UNCHANGED <<waiters, settings, barred, member, up, effect, enforced, moves>>

HoldEnds ==
    /\ held /\ held' = FALSE
    /\ UNCHANGED <<settings, at, barred, member, up, seen, client, lock, waiters, call, effect, enforced, moves, troubles>>

-----------------------------------------------------------------------------
(* A member plays a sound. *)
Plays ==
    /\ up /\ effect.pc = "idle" /\ ~effect.kicked /\ member # None /\ moves < MaxMoves /\ moves' = moves + 1
    /\ effect' = [effect EXCEPT !.pc = "heard", !.ch = member]
    /\ enforced' = Enforces(settings, member)
    /\ UNCHANGED <<settings, at, barred, member, up, seen, client, lock, waiters, held, call, troubles>>

Demanded == Enforces(settings, effect.ch)

(* The settings, the bot's place and the member's are asked in this order.  *)
Hears ==
    /\ effect.pc = "heard"
    /\ effect' = IF Demanded /\ seen = effect.ch THEN [effect EXCEPT !.pc = "found"] ELSE NoEffect
    /\ UNCHANGED <<settings, at, barred, member, up, seen, client, lock, waiters, held, call, enforced, moves, troubles>>

Finds ==
    /\ effect.pc = "found"
    /\ effect' = IF member = effect.ch /\ effect.ch \notin barred THEN [effect EXCEPT !.pc = "kicking"] ELSE NoEffect
    /\ UNCHANGED <<settings, at, barred, member, up, seen, client, lock, waiters, held, call, enforced, moves, troubles>>

(* member.move_to(None) disconnects him from wherever he is by then. *)
Kicks ==
    /\ effect.pc = "kicking"
    /\ \/ member' = None /\ effect' = [effect EXCEPT !.pc = "idle", !.kicked = TRUE] /\ UNCHANGED troubles
       \/ effect' = NoEffect /\ Trouble /\ UNCHANGED member
    /\ UNCHANGED <<settings, at, barred, up, seen, client, lock, waiters, held, call, enforced, moves>>

-----------------------------------------------------------------------------
Start ==
    /\ ~up /\ up' = TRUE
    /\ seen' = at
    /\ UNCHANGED <<settings, at, barred, member, client, lock, waiters, held, call, effect, enforced, moves, troubles>>

Crash ==
    /\ up /\ Trouble
    /\ up' = FALSE /\ seen' = None /\ client' = None /\ lock' = None /\ waiters' = <<>> /\ held' = FALSE
    /\ call' = [p \in Callers |-> Idle]
    /\ effect' = NoEffect
    /\ UNCHANGED <<settings, at, barred, member, enforced, moves>>

Proceeds(p) == Locks(p) \/ Leaves(p) \/ Resolves(p) \/ Joins(p) \/ Raises(p)
CallStep == \E p \in Callers : Proceeds(p)
EffectStep == Hears \/ Finds \/ Kicks
Update == \E p \in Events : Updated(p)

Next == World \/ Dropped \/ LoopBegins \/ Update \/ CallStep \/ HoldEnds \/ Plays \/ EffectStep \/ Start \/ Crash

Spec == Init /\ [][Next]_vars

(* Discord answers and drops dead connections, the loop runs every 5 s.     *)
FairSpec ==
    /\ Spec
    /\ WF_vars(Dropped) /\ WF_vars(LoopBegins) /\ WF_vars(Update) /\ WF_vars(HoldEnds) /\ WF_vars(Start)
    /\ \A p \in Callers : WF_vars(Proceeds(p))

-----------------------------------------------------------------------------
TypeOK ==
    /\ settings \in [managed : Here, enforce : BOOLEAN, connected : BOOLEAN]
    /\ {at, member, seen} \subseteq Here /\ barred \subseteq Channels
    /\ client \in [ch : Channels, on : BOOLEAN] \cup {None}
    /\ \A p \in Callers :
        /\ call[p].pc \in {"idle", "waiting", "leaving", "resolving", "joining"}
        /\ call[p].pc = "waiting" <=> \E i \in 1 .. Len(waiters) : waiters[i] = p
        /\ call[p].pc \in {"leaving", "resolving", "joining"} => lock = p

(* "Soundboard enforcement runs only when both conditions are true"         *)
(* (COMMANDS.md:93): nobody is disconnected for a sound in a channel that   *)
(* the settings did not ask to enforce at any time since he played it.      *)
KickedWhileEnforced == effect.kicked => enforced

(* "Gateway now auto-reconciles managed voice state and auto-returns the    *)
(* bot" (README.md:37): when nothing meddles any more the bot is where the  *)
(* settings want it, and the settings say so.                               *)
Returns ==
    <>[](/\ settings.managed = None => at = None /\ ~settings.connected
         /\ settings.managed \in Channels \ barred => at = settings.managed /\ settings.connected
         /\ settings.managed \in barred => ~settings.connected)
=============================================================================
