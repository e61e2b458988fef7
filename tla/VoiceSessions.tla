--------------------------- MODULE VoiceSessions ---------------------------
(* Voice sessions of one guild: the tracker (voice_tracker/tracker.py), the *)
(* two Mongo collections it writes, and the gateway's reaper of orphans     *)
(* (_reap_orphan_voice_sessions), which writes the same collections and     *)
(* does not know what the tracker holds in memory.  The tracker's event     *)
(* loop is blocked during a join or a leave (synchronous Mongo calls under  *)
(* a lock) and free during a publish, so handlers interleave only there;    *)
(* the gateway and crashes interleave everywhere.  The events of a user     *)
(* come in order and are retried after an exception: see OrderedDelivery.   *)
EXTENDS Naturals, Sequences, FiniteSets

CONSTANTS
    Users, Channels,
    Nowhere,    \* the place of a user in no channel
    Nobody,     \* no user
    MaxMoves,   \* bound: voice events
    MaxTroubles \* bound: crashes, failed calls, lost answers, unseen moves

ASSUME SessionConstants ==
    /\ Nowhere \notin Channels /\ Nobody \notin Users
    /\ MaxMoves \in Nat /\ MaxTroubles \in Nat

VARIABLES
    place,     \* where the gateway's cache sees each user
    queue,     \* voice.events of each user the tracker has not completed
    session,   \* voice_sessions
    interval,  \* voice_session_participants
    announced, \* sessions whose session.closed is in the journal
    mem,       \* Service._sessions: by channel, the session and who is in it
    boot,      \* Service.Start
    handler,   \* HandleVoiceEvent of the first event of each user's queue
    thread,    \* the user whose handler blocks the tracker's event loop
    reaper,    \* the gateway's reaper
    moves, troubles, \* how much of each bound is used
    spoilt     \* history: kinds of trouble met, and "reaped" when the reaper
               \* closed a row while the tracker was up, or the row of
               \* somebody who had joined since it read the cache

vars == <<place, queue, session, interval, announced, mem, boot, handler,
          thread, reaper, moves, troubles, spoilt>>

discord == <<place, queue>>
rows == <<session, interval>>
tracker == <<mem, boot, handler, thread>>
counters == <<moves, troubles>>

NoEntry == [session |-> 0, parts |-> [u \in Users |-> 0]]
Idle == [pc |-> "idle", session |-> 0]
Down == [pc |-> "down", todo |-> {}, session |-> 0, replay |-> FALSE]
Resting == [pc |-> "idle", live |-> [u \in Users |-> Nowhere], todo |-> {},
            session |-> 0, absent |-> {}]

Init ==
    /\ place = [u \in Users |-> Nowhere]
    /\ queue = [u \in Users |-> <<>>]
    /\ session = <<>> /\ interval = <<>> /\ announced = {}
    /\ mem = [c \in Channels |-> NoEntry]
    /\ boot = Down
    /\ handler = [u \in Users |-> Idle]
    /\ thread = Nobody
    /\ reaper = Resting
    /\ moves = 0 /\ troubles = 0 /\ spoilt = {}

Trouble(kind) ==
    /\ troubles < MaxTroubles
    /\ troubles' = troubles + 1
    /\ spoilt' = spoilt \cup {kind}
    /\ UNCHANGED moves

-----------------------------------------------------------------------------
(* The collections *)

ActiveSessions == {s \in DOMAIN session : session[s].active}
ActiveIntervals(s) == {i \in DOMAIN interval : interval[i].active /\ interval[i].session = s}
ActiveIn(c) == {s \in ActiveSessions : session[s].channel = c}
ActiveOf(s, u) == {i \in ActiveIntervals(s) : interval[i].user = u}

CloseRow(s) == session' = [session EXCEPT ![s].active = FALSE]
CloseInterval(i) == interval' = [interval EXCEPT ![i].active = FALSE]
MarkTold(s) == session' = [session EXCEPT ![s].told = TRUE]

-----------------------------------------------------------------------------
(* Discord as the gateway sees it.  Its event loop is blocked while the     *)
(* reaper works, but for its publishes.                                     *)

GatewayFree == reaper.pc \in {"idle", "publish"}

(* A voice state update, also one that changes no channel, is published. *)
Move(u, c) ==
    /\ GatewayFree
    /\ c # Nowhere \/ place[u] # Nowhere
    /\ moves < MaxMoves /\ moves' = moves + 1
    /\ place' = [place EXCEPT ![u] = c]
    /\ queue' = [queue EXCEPT ![u] = Append(@, [from |-> place[u], to |-> c])]
    /\ UNCHANGED <<rows, announced, tracker, reaper, troubles, spoilt>>

(* The gateway is restarted and reads the new place from Discord: no event. *)
MoveUnseen(u, c) ==
    /\ c # place[u]
    /\ Trouble("unseen")
    /\ place' = [place EXCEPT ![u] = c]
    /\ reaper' = Resting
    /\ UNCHANGED <<queue, rows, announced, tracker>>

-----------------------------------------------------------------------------
(* Service.Start.  No handler runs before it is done. *)

ListActive ==
    /\ boot.pc = "down"
    /\ boot' = [boot EXCEPT !.pc = "each", !.todo = ActiveSessions]
    /\ UNCHANGED <<discord, rows, announced, mem, handler, thread, reaper,
                   counters, spoilt>>

(* Each active session is loaded, or closed when nobody is in it. *)
Load(s) ==
    /\ boot.pc = "each" /\ ~boot.replay /\ s \in boot.todo
    /\ IF ActiveIntervals(s) = {}
       THEN /\ boot' = [boot EXCEPT !.pc = "close", !.session = s, !.todo = @ \ {s}]
            /\ UNCHANGED mem
       ELSE /\ boot' = [boot EXCEPT !.todo = @ \ {s}]
            /\ mem' = [mem EXCEPT ![session[s].channel] =
                 [session |-> s,
                  parts |-> [u \in Users |-> IF ActiveOf(s, u) = {} THEN 0
                                             ELSE CHOOSE i \in ActiveOf(s, u) : TRUE]]]
    /\ UNCHANGED <<discord, rows, announced, handler, thread, reaper, counters, spoilt>>

BootClose ==
    /\ boot.pc = "close"
    /\ CloseRow(boot.session)
    /\ boot' = [boot EXCEPT !.pc = "publish"]
    /\ UNCHANGED <<discord, interval, announced, mem, handler, thread, reaper,
                   counters, spoilt>>

BootPublish ==
    /\ boot.pc = "publish"
    /\ announced' = announced \cup {boot.session}
    /\ boot' = [boot EXCEPT !.pc = "mark"]
    /\ UNCHANGED <<discord, rows, mem, handler, thread, reaper, counters, spoilt>>

BootMark ==
    /\ boot.pc = "mark"
    /\ MarkTold(boot.session)
    /\ boot' = [boot EXCEPT !.pc = "each"]
    /\ UNCHANGED <<discord, interval, announced, mem, handler, thread, reaper,
                   counters, spoilt>>

(* Then the closed sessions whose announcement is not marked. *)
ListUntold ==
    /\ boot.pc = "each" /\ boot.todo = {} /\ ~boot.replay
    /\ boot' = [boot EXCEPT !.replay = TRUE,
         !.todo = {s \in DOMAIN session : ~session[s].active /\ ~session[s].told}]
    /\ UNCHANGED <<discord, rows, announced, mem, handler, thread, reaper,
                   counters, spoilt>>

Replay(s) ==
    /\ boot.pc = "each" /\ boot.replay /\ s \in boot.todo
    /\ boot' = [boot EXCEPT !.pc = "publish", !.session = s, !.todo = @ \ {s}]
    /\ UNCHANGED <<discord, rows, announced, mem, handler, thread, reaper,
                   counters, spoilt>>

Ready ==
    /\ boot.pc = "each" /\ boot.replay /\ boot.todo = {}
    /\ boot' = [Down EXCEPT !.pc = "up"]
    /\ UNCHANGED <<discord, rows, announced, mem, handler, thread, reaper,
                   counters, spoilt>>

(* Every exception is passed over, with the session it concerns. *)
BootSkips ==
    /\ boot.pc \in {"close", "publish", "mark"} \/ (boot.pc = "each" /\ boot.todo # {})
    /\ Trouble("skip")
    /\ IF boot.pc = "each"
       THEN \E s \in boot.todo : boot' = [boot EXCEPT !.todo = @ \ {s}]
       ELSE boot' = [boot EXCEPT !.pc = "each"]
    /\ UNCHANGED <<discord, rows, announced, mem, handler, thread, reaper>>

Crash ==
    /\ boot.pc # "down"
    /\ Trouble("crash")
    /\ boot' = Down
    /\ mem' = [c \in Channels |-> NoEntry]
    /\ handler' = [u \in Users |-> Idle]
    /\ thread' = Nobody
    /\ UNCHANGED <<discord, rows, announced, reaper>>

-----------------------------------------------------------------------------
(* HandleVoiceEvent *)

Event(u) == Head(queue[u])
At(u, pc) == handler[u].pc = pc

(* The handler goes on and keeps the event loop. *)
Goto(u, pc, s) ==
    /\ handler' = [handler EXCEPT ![u] = [pc |-> pc, session |-> s]]
    /\ thread' = u

(* It gives the loop away: it awaits, returns, or raises and is retried. *)
Yield(u, pc, s) ==
    /\ handler' = [handler EXCEPT ![u] = [pc |-> pc, session |-> s]]
    /\ thread' = Nobody

Raise(u) == Yield(u, "idle", 0)

(* The leave is over. *)
AfterLeave(u) ==
    IF Event(u).to # Nowhere THEN Goto(u, "join", 0) ELSE Yield(u, "done", 0)

(* The answer to a write is lost: the handler raises, the memory stays. *)
LoseAnswer(u) == Trouble("lost") /\ Raise(u) /\ UNCHANGED mem

Begin(u) ==
    /\ boot.pc = "up" /\ thread = Nobody
    /\ At(u, "idle") /\ queue[u] # <<>>
    /\ Goto(u, IF Event(u).from \in {Nowhere, Event(u).to} THEN "join" ELSE "leave", 0)
    /\ UNCHANGED <<discord, rows, announced, mem, boot, reaper, counters, spoilt>>

(* _leave of a user the memory knows: close the interval, and the session   *)
(* when the memory knows nobody else in it.                                 *)
LeaveKnown(u) ==
    LET c == Event(u).from
        rest == [mem[c].parts EXCEPT ![u] = 0]
    IN
    /\ At(u, "leave")
    /\ mem[c].session # 0 /\ mem[c].parts[u] # 0
    /\ CloseInterval(mem[c].parts[u])
    /\ \/ /\ mem' = [mem EXCEPT ![c].parts = rest]
          /\ IF \E v \in Users : rest[v] # 0 THEN AfterLeave(u)
             ELSE Goto(u, "close", mem[c].session)
          /\ UNCHANGED <<counters, spoilt>>
       \/ LoseAnswer(u)
    /\ UNCHANGED <<discord, session, announced, boot, reaper>>

(* A slip: somebody the memory does not know is not looked for in Mongo. *)
LeaveUnknownIgnored(u) ==
    LET c == Event(u).from IN
    /\ At(u, "leave")
    /\ mem[c].session = 0 \/ mem[c].parts[u] = 0
    /\ AfterLeave(u)
    /\ UNCHANGED <<discord, rows, announced, mem, boot, reaper, counters, spoilt>>

(* _leave_from_repository *)
LeaveUnknown(u) ==
    LET c == Event(u).from IN
    /\ At(u, "leave")
    /\ mem[c].session = 0 \/ mem[c].parts[u] = 0
    /\ IF ActiveIn(c) = {} THEN AfterLeave(u)
       ELSE \E s \in ActiveIn(c) : Goto(u, "find", s)
    /\ UNCHANGED <<discord, rows, announced, mem, boot, reaper, counters, spoilt>>

FindParticipant(u) ==
    /\ At(u, "find")
    /\ IF ActiveOf(handler[u].session, u) = {} THEN AfterLeave(u)
       ELSE Goto(u, "part", handler[u].session)
    /\ UNCHANGED <<discord, rows, announced, mem, boot, reaper, counters, spoilt>>

(* The interval that was found.  Only the tracker opens one, so it is the   *)
(* last one of the user in the session.                                     *)
Found(s, u) ==
    CHOOSE i \in DOMAIN interval :
      /\ interval[i].session = s /\ interval[i].user = u
      /\ \A j \in DOMAIN interval :
           interval[j].session = s /\ interval[j].user = u => j <= i

CloseParticipant(u) ==
    /\ At(u, "part")
    /\ CloseInterval(Found(handler[u].session, u))
    /\ \/ Goto(u, "left", handler[u].session) /\ UNCHANGED <<mem, counters, spoilt>>
       \/ LoseAnswer(u)
    /\ UNCHANGED <<discord, session, announced, boot, reaper>>

AnyoneLeft(u) ==
    /\ At(u, "left")
    /\ IF ActiveIntervals(handler[u].session) # {} THEN AfterLeave(u)
       ELSE Goto(u, "close", handler[u].session)
    /\ UNCHANGED <<discord, rows, announced, mem, boot, reaper, counters, spoilt>>

CloseSession(u) ==
    /\ At(u, "close")
    /\ CloseRow(handler[u].session)
    /\ \/ /\ mem' = [mem EXCEPT ![Event(u).from] = NoEntry]
          /\ Yield(u, "publish", handler[u].session)
          /\ UNCHANGED <<counters, spoilt>>
       \/ LoseAnswer(u)
    /\ UNCHANGED <<discord, interval, announced, boot, reaper>>

Publish(u) ==
    /\ At(u, "publish")
    /\ announced' = announced \cup {handler[u].session}
    /\ handler' = [handler EXCEPT ![u].pc = "mark"]
    /\ UNCHANGED <<discord, rows, mem, boot, thread, reaper, counters, spoilt>>

Mark(u) ==
    /\ At(u, "mark") /\ thread = Nobody
    /\ MarkTold(handler[u].session)
    /\ AfterLeave(u)
    /\ UNCHANGED <<discord, interval, announced, mem, boot, reaper, counters, spoilt>>

(* _join: the user is in the memory's session. *)
AlreadyPresent(u) ==
    LET c == Event(u).to IN
    /\ At(u, "join")
    /\ mem[c].session # 0 /\ mem[c].parts[u] # 0
    /\ Yield(u, "done", 0)
    /\ UNCHANGED <<discord, rows, announced, mem, boot, reaper, counters, spoilt>>

(* CreateSession: an active session of the channel in Mongo makes the       *)
(* unique index raise.                                                      *)
CreateSession(u) ==
    LET c == Event(u).to IN
    /\ At(u, "join")
    /\ mem[c].session = 0
    /\ IF ActiveIn(c) # {} THEN Raise(u) /\ UNCHANGED <<session, mem, counters, spoilt>>
       ELSE /\ session' = Append(session, [channel |-> c, active |-> TRUE, told |-> FALSE])
            /\ \/ /\ mem' = [mem EXCEPT ![c] = [NoEntry EXCEPT !.session = Len(session) + 1]]
                  /\ Goto(u, "join", 0)
                  /\ UNCHANGED <<counters, spoilt>>
               \/ LoseAnswer(u)
    /\ UNCHANGED <<discord, interval, announced, boot, reaper>>

CreateParticipant(u) ==
    LET c == Event(u).to
        s == mem[c].session
    IN
    /\ At(u, "join")
    /\ s # 0 /\ mem[c].parts[u] = 0
    /\ IF ActiveOf(s, u) # {} THEN Raise(u) /\ UNCHANGED <<interval, mem, counters, spoilt>>
       ELSE /\ interval' = Append(interval, [session |-> s, user |-> u, active |-> TRUE])
            /\ \/ /\ mem' = [mem EXCEPT ![c].parts[u] = Len(interval) + 1]
                  /\ Yield(u, "done", 0)
                  /\ UNCHANGED <<counters, spoilt>>
               \/ LoseAnswer(u)
    /\ UNCHANGED <<discord, session, announced, boot, reaper>>

(* The inbox row is completed. *)
Complete(u) ==
    /\ At(u, "done")
    /\ queue' = [queue EXCEPT ![u] = Tail(@)]
    /\ handler' = [handler EXCEPT ![u] = Idle]
    /\ UNCHANGED <<place, rows, announced, mem, boot, thread, reaper, counters, spoilt>>

(* A Mongo call or the publish raises. *)
Fails(u) ==
    /\ ~At(u, "idle") /\ ~At(u, "done")
    /\ thread \in {u, Nobody}
    /\ Trouble("fault")
    /\ Raise(u)
    /\ UNCHANGED <<discord, rows, announced, mem, boot, reaper>>

-----------------------------------------------------------------------------
(* _reap_orphan_voice_sessions: the cache is read once, at the start. *)

ReapStart ==
    /\ reaper.pc = "idle"
    /\ reaper' = [Resting EXCEPT !.pc = "each", !.live = place, !.todo = ActiveSessions]
    /\ UNCHANGED <<discord, rows, announced, tracker, counters, spoilt>>

(* A slip: only sessions that somebody has to be taken out of are looked at. *)
ReapSessionOfAbsent(s) ==
    LET absent == {i \in ActiveIntervals(s) :
                     reaper.live[interval[i].user] # session[s].channel} IN
    /\ reaper.pc = "each" /\ s \in reaper.todo
    /\ reaper' = [reaper EXCEPT !.pc = IF absent = {} THEN @ ELSE "part",
         !.session = s, !.todo = @ \ {s}, !.absent = absent]
    /\ UNCHANGED <<discord, rows, announced, tracker, counters, spoilt>>

ReapSession(s) ==
    /\ reaper.pc = "each" /\ s \in reaper.todo
    /\ reaper' = [reaper EXCEPT !.pc = "part", !.session = s, !.todo = @ \ {s},
         !.absent = {i \in ActiveIntervals(s) :
                       reaper.live[interval[i].user] # session[s].channel}]
    /\ UNCHANGED <<discord, rows, announced, tracker, counters, spoilt>>

Reaped(live) == spoilt' = IF live THEN spoilt \cup {"reaped"} ELSE spoilt

ReapParticipant(i) ==
    /\ reaper.pc = "part" /\ i \in reaper.absent
    /\ CloseInterval(i)
    /\ reaper' = [reaper EXCEPT !.absent = @ \ {i}]
    /\ Reaped(interval[i].active /\
         (boot.pc # "down" \/ place[interval[i].user] = session[interval[i].session].channel))
    /\ UNCHANGED <<discord, session, announced, tracker, counters>>

ReapCheck ==
    /\ reaper.pc = "part" /\ reaper.absent = {}
    /\ reaper' = [reaper EXCEPT !.pc = IF ActiveIntervals(reaper.session) # {}
                                       THEN "each" ELSE "close"]
    /\ UNCHANGED <<discord, rows, announced, tracker, counters, spoilt>>

ReapClose ==
    /\ reaper.pc = "close"
    /\ CloseRow(reaper.session)
    /\ reaper' = [reaper EXCEPT !.pc = "publish"]
    /\ Reaped(\/ session[reaper.session].active /\ boot.pc # "down"
              \/ ActiveIntervals(reaper.session) # {})
    /\ UNCHANGED <<discord, interval, announced, tracker, counters>>

ReapPublish ==
    /\ reaper.pc = "publish"
    /\ announced' = announced \cup {reaper.session}
    /\ reaper' = [reaper EXCEPT !.pc = "mark"]
    /\ UNCHANGED <<discord, rows, tracker, counters, spoilt>>

ReapMark ==
    /\ reaper.pc = "mark"
    /\ MarkTold(reaper.session)
    /\ reaper' = [reaper EXCEPT !.pc = "each"]
    /\ UNCHANGED <<discord, interval, announced, tracker, counters, spoilt>>

ReapEnd ==
    /\ reaper.pc = "each" /\ reaper.todo = {}
    /\ reaper' = Resting
    /\ UNCHANGED <<discord, rows, announced, tracker, counters, spoilt>>

(* A failed publish or mark is logged, any other exception ends the round. *)
ReapFails ==
    /\ reaper.pc # "idle"
    /\ Trouble("reaper")
    /\ reaper' = IF reaper.pc \in {"publish", "mark"} THEN [reaper EXCEPT !.pc = "each"]
                 ELSE Resting
    /\ UNCHANGED <<discord, rows, announced, tracker>>

-----------------------------------------------------------------------------
Boot ==
    \/ ListActive \/ BootClose \/ BootPublish \/ BootMark \/ ListUntold \/ Ready
    \/ \E s \in DOMAIN session : Load(s) \/ Replay(s)

Handle(u) ==
    \/ LeaveKnown(u) \/ LeaveUnknown(u) \/ FindParticipant(u) \/ CloseParticipant(u)
    \/ AnyoneLeft(u) \/ CloseSession(u) \/ Publish(u) \/ Mark(u)
    \/ AlreadyPresent(u) \/ CreateSession(u) \/ CreateParticipant(u) \/ Complete(u)

Reap ==
    \/ ReapStart \/ ReapCheck \/ ReapClose \/ ReapPublish \/ ReapMark \/ ReapEnd
    \/ \E s \in DOMAIN session : ReapSession(s)
    \/ \E i \in DOMAIN interval : ReapParticipant(i)

Next ==
    \/ Boot \/ BootSkips \/ Crash \/ Reap \/ ReapFails
    \/ \E u \in Users :
         \/ Begin(u) \/ Handle(u) \/ Fails(u)
         \/ \E c \in Channels \cup {Nowhere} : Move(u, c) \/ MoveUnseen(u, c)

Spec == Init /\ [][Next]_vars

(* The container is restarted, the sweep retries events, the reaper's loop  *)
(* goes round.                                                              *)
FairSpec ==
    /\ Spec
    /\ WF_vars(Boot) /\ WF_vars(Reap)
    /\ \A u \in Users : WF_vars(Begin(u)) /\ WF_vars(Handle(u))

-----------------------------------------------------------------------------
(* Properties *)

HandlerPCs == {"idle", "leave", "find", "part", "left", "close", "publish",
               "mark", "join", "done"}

(* The state is well formed: references point to rows, one handler at most  *)
(* has the event loop, and an entry of the memory is a session of its       *)
(* channel.                                                                 *)
TypeOK ==
    /\ place \in [Users -> Channels \cup {Nowhere}]
    /\ \A s \in DOMAIN session : session[s].channel \in Channels
    /\ \A i \in DOMAIN interval :
         interval[i].session \in DOMAIN session /\ interval[i].user \in Users
    /\ announced \subseteq DOMAIN session
    /\ \A c \in Channels :
         /\ mem[c].session = 0 => mem[c] = NoEntry
         /\ mem[c].session # 0 => session[mem[c].session].channel = c
         /\ \A u \in Users : mem[c].parts[u] # 0 =>
              interval[mem[c].parts[u]].session = mem[c].session
    /\ \A u \in Users :
         /\ handler[u].pc \in HandlerPCs
         /\ thread = u => handler[u].pc \notin {"idle", "publish", "done"}
         /\ thread # u => handler[u].pc \in {"idle", "publish", "mark", "done"}
         /\ handler[u].pc # "idle" => queue[u] # <<>>
    /\ thread \in Users \cup {Nobody}

Recorded(u, c) == \E s \in ActiveIn(c) : ActiveOf(s, u) # {}

(* Until the reaper or a move that nobody saw comes in between: when the    *)
(* tracker has handled all events of a user, Mongo has the user in exactly  *)
(* the channel where Discord has it, and no closed session has anybody in   *)
(* it, whatever crashed, failed or was retried on the way.                  *)
TruthfulWhenQuiet ==
    spoilt \cap {"reaped", "unseen", "lost"} = {} =>
      /\ \A u \in Users : queue[u] = <<>> =>
           \A c \in Channels : Recorded(u, c) <=> place[u] = c
      /\ \A i \in DOMAIN interval :
           interval[i].active => session[interval[i].session].active

(* Neither insert of a join runs into its unique index, over restarts,      *)
(* reaping and retries, unless an answer was lost or a start skipped a      *)
(* session: the memory knows every active row.                              *)
InsertsNeverCollide ==
    spoilt \cap {"lost", "skip"} = {} =>
      \A u \in Users : At(u, "join") =>
        LET c == Event(u).to IN
        IF mem[c].session = 0 THEN ActiveIn(c) = {}
        ELSE mem[c].parts[u] = 0 => ActiveOf(mem[c].session, u) = {}

(* Nobody stays recorded in a channel it left for good, and no session      *)
(* stays active in a channel that is empty for good: what the tracker       *)
(* misses, the reaper closes.                                               *)
AbsentAreClosed ==
    \A c \in Channels :
      /\ \A u \in Users : <>[](place[u] # c) => <>[]~Recorded(u, c)
      /\ <>[](\A u \in Users : place[u] # c) => <>[](ActiveIn(c) = {})

(* A start leaves no closed session unannounced, whatever publish failed    *)
(* before it, but for one the reaper closed and failed to announce since.   *)
AllAnnouncedAtStart ==
    [][Ready /\ spoilt \cap {"skip", "reaper", "unseen"} = {} =>
         \A s \in DOMAIN session :
           session[s].active \/ s \in announced \/ s = reaper.session]_vars

=============================================================================
