------------------------ MODULE VoiceSafetyProofs --------------------------
(* Proofs about what is known of who is in voice, for any number of users,  *)
(* channels, moves and troubles.  VoiceSessions: as long as the reaper met  *)
(* no live row, no answer was lost and no move went unseen, the rows say    *)
(* where the users are.  VoicePresence: the evidence of presence says no    *)
(* more than is so, or news that correct it are on their way.               *)
EXTENDS MCVoiceSafety, TLAPS, FiniteSetTheorems, FunctionTheorems, WellFoundedInduction

Places == Channels \cup {Nowhere}
Clean == spoilt \cap {"reaped", "unseen", "lost"} = {}

SessionRows == [channel : Channels, active : BOOLEAN, told : BOOLEAN]
IntervalRows == [session : Nat, user : Users, active : BOOLEAN]
VoiceEvents == [from : Places, to : Places]
BootPCs == {"down", "each", "close", "publish", "mark", "up"}
ReaperPCs == {"idle", "each", "part", "close", "publish", "mark"}

Typed ==
    /\ place \in [Users -> Places]
    /\ queue \in [Users -> Seq(VoiceEvents)]
    /\ session \in Seq(SessionRows)
    /\ interval \in Seq(IntervalRows)
    /\ mem \in [Channels -> [session : Nat, parts : [Users -> Nat]]]
    /\ boot \in [pc : BootPCs, todo : SUBSET DOMAIN session, session : Nat, replay : BOOLEAN]
    /\ handler \in [Users -> [pc : HandlerPCs, session : Nat]]
    /\ thread \in Users \cup {Nobody}
    /\ reaper \in [pc : ReaperPCs, live : [Users -> Places], todo : SUBSET DOMAIN session,
                   session : Nat, absent : SUBSET DOMAIN interval]

(* An active row of the intervals, and the channel it is about. *)
Open(i) == i \in DOMAIN interval /\ interval[i].active
ChannelOf(i) == session[interval[i].session].channel

(* Mongo: one active session per channel; nobody is in a closed session, in *)
(* two places, or in an interval that is not the last one.                  *)
RowsFit ==
    /\ \A i \in DOMAIN interval : interval[i].session \in DOMAIN session
    /\ \A s, t \in ActiveSessions : session[s].channel = session[t].channel => s = t
    /\ \A i \in DOMAIN interval : Open(i) => session[interval[i].session].active
    /\ \A i, j \in DOMAIN interval :
          Open(i) /\ interval[j].user = interval[i].user =>
             /\ Open(j) => j = i
             /\ interval[j].session = interval[i].session => j <= i

(* The memory knows active sessions of their channels, and everybody in     *)
(* them.                                                                    *)
MemoryFits ==
    \A c \in Channels :
       /\ mem[c].session # 0 => mem[c].session \in ActiveIn(c)
       /\ \A u \in Users : mem[c].parts[u] # 0 =>
             /\ Open(mem[c].parts[u]) /\ interval[mem[c].parts[u]].user = u
             /\ interval[mem[c].parts[u]].session = mem[c].session
       /\ \A i \in DOMAIN interval :
             Open(i) /\ interval[i].session = mem[c].session =>
                 mem[c].parts[interval[i].user] # 0

(* A start keeps its hands off the sessions it has loaded, and no handler   *)
(* runs before it is done.                                                  *)
BootFits ==
    /\ boot.pc = "down" => mem = [c \in Channels |-> NoEntry]
    /\ boot.pc # "up" => thread = Nobody /\ \A u \in Users : handler[u].pc = "idle"
    /\ boot.pc \notin {"down", "up"} /\ ~boot.replay =>
          \A c \in Channels : mem[c].session \notin boot.todo
    /\ boot.pc \in {"close", "publish", "mark"} => boot.session \in DOMAIN session
    /\ boot.pc = "close" =>
          /\ ActiveIntervals(boot.session) = {}
          /\ \A c \in Channels : mem[c].session # boot.session

ReaperFits == reaper.pc \in {"part", "close", "publish", "mark"} => reaper.session \in DOMAIN session

(* The events of a user lead from one place to the next, up to where he is. *)
EventsLink(u) ==
    /\ \A k \in 1 .. Len(queue[u]) : queue[u][k].from # Nowhere \/ queue[u][k].to # Nowhere
    /\ \A k \in 1 .. Len(queue[u]) - 1 : queue[u][k].to = queue[u][k + 1].from
    /\ queue[u] # <<>> => queue[u][Len(queue[u])].to = place[u]

Leaving == {"leave", "find", "part", "left", "close", "publish", "mark"}
Blocking == {"leave", "find", "part", "left", "close", "join"}

(* What the handler of a user relies on at the place where it stands. *)
HandlerFits(u) ==
    LET x == handler[u] IN
    /\ x.pc # "idle" => queue[u] # <<>>
    /\ x.pc \in Blocking => thread = u
    /\ x.pc \in Leaving => Event(u).from \notin {Nowhere, Event(u).to}
    /\ x.pc = "join" => Event(u).to # Nowhere
    /\ x.pc \in {"find", "part", "left", "close"} => x.session \in ActiveIn(Event(u).from)
    /\ x.pc \in {"find", "part"} => mem[Event(u).from].parts[u] = 0
    /\ x.pc = "part" => ActiveOf(x.session, u) # {}
    /\ x.pc = "close" => ActiveIntervals(x.session) = {}
    /\ x.pc \in {"publish", "mark"} => x.session \in DOMAIN session

(* The places a user may be recorded in: where the first event that is not  *)
(* completed comes from or leads to, or where he is.                        *)
MayBeIn(u) ==
    IF queue[u] = <<>> THEN {place[u]}
    ELSE IF handler[u].pc \in {"idle", "leave", "find", "part"} THEN {Event(u).from, Event(u).to}
    ELSE {Event(u).to}

MustBeIn(u) ==
    IF queue[u] = <<>> THEN {place[u]}
    ELSE IF handler[u].pc = "done" THEN {Event(u).to}
    ELSE {}

RecordsFit(u) ==
    /\ \A i \in DOMAIN interval : Open(i) /\ interval[i].user = u => ChannelOf(i) \in MayBeIn(u)
    /\ \A c \in MustBeIn(u) \ {Nowhere} :
          \E i \in DOMAIN interval : Open(i) /\ interval[i].user = u /\ ChannelOf(i) = c

UserFits(u) == EventsLink(u) /\ HandlerFits(u) /\ RecordsFit(u)

TrackerFits ==
    /\ Typed /\ RowsFit /\ MemoryFits /\ BootFits /\ ReaperFits
    /\ \A u \in Users : UserFits(u)

TrackerInv == Clean => TrackerFits

-----------------------------------------------------------------------------
(* Rows *)

(* A row of a sequence is replaced. *)
LEMMA RowReplaced ==
    ASSUME NEW S, NEW s \in Seq(S), NEW k \in DOMAIN s, NEW r \in S
    PROVE  /\ [s EXCEPT ![k] = r] \in Seq(S)
           /\ DOMAIN [s EXCEPT ![k] = r] = DOMAIN s
           /\ [s EXCEPT ![k] = r][k] = r
           /\ \A j \in DOMAIN s : j # k => [s EXCEPT ![k] = r][j] = s[j]
OBVIOUS

(* A row is appended. *)
LEMMA RowAppended ==
    ASSUME NEW S, NEW s \in Seq(S), NEW r \in S
    PROVE  /\ Append(s, r) \in Seq(S) /\ Len(s) \in Nat /\ Len(s) + 1 \notin DOMAIN s
           /\ DOMAIN Append(s, r) = DOMAIN s \cup {Len(s) + 1}
           /\ Append(s, r)[Len(s) + 1] = r
           /\ \A j \in DOMAIN s : Append(s, r)[j] = s[j] /\ j \in 1 .. Len(s)
OBVIOUS

(* What CloseRow does to the sessions. *)
LEMMA RowCloses ==
    ASSUME session \in Seq(SessionRows), NEW s \in DOMAIN session, CloseRow(s)
    PROVE  /\ session' \in Seq(SessionRows) /\ DOMAIN session' = DOMAIN session
           /\ ~session'[s].active
           /\ \A t \in DOMAIN session : /\ session'[t].channel = session[t].channel
                                        /\ t # s => session'[t] = session[t]
<1> DEFINE r == [session[s] EXCEPT !.active = FALSE]
<1>1. session[s] \in SessionRows
  OBVIOUS
<1>2. r \in SessionRows /\ ~r.active /\ r.channel = session[s].channel
  BY <1>1 DEF SessionRows
<1>3. session' = [session EXCEPT ![s] = r]
  BY DEF CloseRow
<1> HIDE DEF r
<1> QED
  BY <1>2, <1>3, RowReplaced

(* What MarkTold does to the sessions: nothing that anybody here relies on. *)
LEMMA RowIsTold ==
    ASSUME session \in Seq(SessionRows), NEW s \in DOMAIN session, MarkTold(s)
    PROVE  /\ session' \in Seq(SessionRows) /\ DOMAIN session' = DOMAIN session
           /\ \A t \in DOMAIN session : /\ session'[t].channel = session[t].channel
                                        /\ session'[t].active = session[t].active
<1> DEFINE r == [session[s] EXCEPT !.told = TRUE]
<1>1. session[s] \in SessionRows
  OBVIOUS
<1>2. r \in SessionRows /\ r.active = session[s].active /\ r.channel = session[s].channel
  BY <1>1 DEF SessionRows
<1>3. session' = [session EXCEPT ![s] = r]
  BY DEF MarkTold
<1> HIDE DEF r
<1> QED
  BY <1>2, <1>3, RowReplaced

(* What CloseInterval does to the intervals. *)
LEMMA IntervalCloses ==
    ASSUME interval \in Seq(IntervalRows), NEW i \in DOMAIN interval, CloseInterval(i)
    PROVE  /\ interval' \in Seq(IntervalRows) /\ DOMAIN interval' = DOMAIN interval
           /\ ~interval'[i].active
           /\ \A j \in DOMAIN interval : /\ interval'[j].session = interval[j].session
                                         /\ interval'[j].user = interval[j].user
                                         /\ j # i => interval'[j] = interval[j]
<1> DEFINE r == [interval[i] EXCEPT !.active = FALSE]
<1>1. interval[i] \in IntervalRows
  OBVIOUS
<1>2. r \in IntervalRows /\ ~r.active /\ r.user = interval[i].user /\ r.session = interval[i].session
  BY <1>1 DEF IntervalRows
<1>3. interval' = [interval EXCEPT ![i] = r]
  BY DEF CloseInterval
<1> HIDE DEF r
<1> QED
  BY <1>2, <1>3, RowReplaced

-----------------------------------------------------------------------------
(* What stays true while others act *)

HandlerRecs == [pc : HandlerPCs, session : Nat]

(* Steps that change nothing of the rows but what is told. *)
RowsAlike ==
    /\ session' \in Seq(SessionRows) /\ DOMAIN session' = DOMAIN session
    /\ \A s \in DOMAIN session : /\ session'[s].channel = session[s].channel
                                 /\ session'[s].active = session[s].active
    /\ interval' = interval

(* Unchanged rows are alike. *)
LEMMA SameRowsAlike ==
    ASSUME Typed, UNCHANGED rows
    PROVE  RowsAlike
BY DEF Typed, rows, RowsAlike

(* Rows and memory go on fitting. *)
LEMMA QuietRows ==
    ASSUME TrackerFits, RowsAlike, UNCHANGED mem
    PROVE  RowsFit' /\ MemoryFits'
<1>1. RowsFit'
  BY DEF TrackerFits, RowsAlike, RowsFit, ActiveSessions, Open
<1>2. MemoryFits'
  BY DEF TrackerFits, RowsAlike, MemoryFits, ActiveIn, ActiveSessions, Open
<1> QED
  BY <1>1, <1>2

(* A user whose handler blocks nobody, and whose own rows stay as they are, *)
(* goes on relying on what it relies on.                                    *)
LEMMA UserStays ==
    ASSUME TrackerFits, NEW v \in Users,
           queue'[v] = queue[v], place'[v] = place[v], handler'[v] = handler[v],
           handler[v].pc \notin Blocking,
           DOMAIN session \subseteq DOMAIN session',
           \A s \in DOMAIN session : session'[s].channel = session[s].channel,
           \A i \in DOMAIN interval : Open(i) /\ interval[i].user = v =>
               /\ i \in DOMAIN interval' /\ interval'[i].active /\ interval'[i].user = v
               /\ interval'[i].session = interval[i].session,
           \A i \in DOMAIN interval' : interval'[i].active /\ interval'[i].user = v =>
               /\ i \in DOMAIN interval /\ interval[i].active /\ interval[i].user = v
               /\ interval'[i].session = interval[i].session
    PROVE  UserFits(v)'
<1>1. EventsLink(v) /\ HandlerFits(v) /\ RecordsFit(v)
  BY DEF TrackerFits, UserFits
<1>2. EventsLink(v)'
  BY <1>1 DEF EventsLink
<1>3. HandlerFits(v)'
  BY <1>1 DEF HandlerFits, Blocking, Event
<1>4. MayBeIn(v)' = MayBeIn(v) /\ MustBeIn(v)' = MustBeIn(v)
  BY DEF MayBeIn, MustBeIn, Event
<1>5. \A i \in DOMAIN interval : interval[i].session \in DOMAIN session
  BY DEF TrackerFits, RowsFit
<1>6. \A i \in DOMAIN interval : Open(i) /\ interval[i].user = v =>
          Open(i)' /\ ChannelOf(i)' = ChannelOf(i)
  BY <1>5 DEF Open, ChannelOf
<1>7. RecordsFit(v)'
  BY <1>1, <1>4, <1>5, <1>6 DEF RecordsFit, Open, ChannelOf
<1> QED
  BY <1>2, <1>3, <1>7 DEF UserFits

(* A handler moves on, and the rows stay as they are. *)
LEMMA HandlerGoes ==
    ASSUME TrackerFits, NEW u \in Users, NEW x \in HandlerRecs,
           handler' = [handler EXCEPT ![u] = x], boot.pc = "up",
           thread' \in Users \cup {Nobody}, thread' = thread \/ thread \in {u, Nobody},
           x.pc \in Blocking => thread' = u,
           RowsAlike, UNCHANGED <<discord, mem, boot, reaper>>,
           queue[u] # <<>>,
           x.pc \in Leaving => Event(u).from \notin {Nowhere, Event(u).to},
           x.pc = "join" => Event(u).to # Nowhere,
           x.pc \in {"find", "part", "left", "close"} => x.session \in ActiveIn(Event(u).from),
           x.pc \in {"find", "part"} => mem[Event(u).from].parts[u] = 0,
           x.pc = "part" => ActiveOf(x.session, u) # {},
           x.pc = "close" => ActiveIntervals(x.session) = {},
           x.pc \in {"publish", "mark"} => x.session \in DOMAIN session,
           x.pc \notin {"idle", "leave", "find", "part"} =>
               \A i \in DOMAIN interval : Open(i) /\ interval[i].user = u =>
                   ChannelOf(i) = Event(u).to,
           x.pc = "done" /\ Event(u).to # Nowhere =>
               \E i \in DOMAIN interval :
                   Open(i) /\ interval[i].user = u /\ ChannelOf(i) = Event(u).to
    PROVE  TrackerFits'
<1>1. Typed'
  BY DEF TrackerFits, Typed, RowsAlike, discord, HandlerRecs
<1>2. RowsFit' /\ MemoryFits'
  BY QuietRows
<1>3. BootFits' /\ ReaperFits'
  BY DEF TrackerFits, BootFits, ReaperFits, RowsAlike
<1>4. ASSUME NEW v \in Users, v # u PROVE UserFits(v)'
  <2>1. handler'[v] = handler[v]
    BY <1>4 DEF TrackerFits, Typed
  <2>2. CASE handler[v].pc \notin Blocking
    BY <2>1, <2>2, UserStays DEF discord, RowsAlike, Open
  <2>3. CASE handler[v].pc \in Blocking
    <3>1. EventsLink(v) /\ HandlerFits(v) /\ RecordsFit(v)
      BY DEF TrackerFits, UserFits
    <3>2. thread = v /\ thread' = v
      BY <1>4, <2>3, <3>1, SessionConstants DEF HandlerFits
    <3>3. EventsLink(v)'
      BY <3>1 DEF EventsLink, discord
    <3>4. HandlerFits(v)'
      BY <3>1, <3>2, <2>1
         DEF HandlerFits, discord, Event, RowsAlike, ActiveIn, ActiveSessions, ActiveOf, ActiveIntervals
    <3>5. MayBeIn(v)' = MayBeIn(v) /\ MustBeIn(v)' = MustBeIn(v)
      BY <2>1 DEF MayBeIn, MustBeIn, Event, discord
    <3>6. RecordsFit(v)'
      BY <3>1, <3>5 DEF RecordsFit, Open, ChannelOf, RowsAlike, TrackerFits, RowsFit
    <3> QED
      BY <3>3, <3>4, <3>6 DEF UserFits
  <2> QED
    BY <2>2, <2>3
<1>5. UserFits(u)'
  <2>1. handler'[u] = x /\ EventsLink(u) /\ RecordsFit(u)
    BY DEF TrackerFits, Typed, UserFits
  <2>2. EventsLink(u)'
    BY <2>1 DEF EventsLink, discord
  <2>3. HandlerFits(u)'
    BY <2>1 DEF HandlerFits, discord, Event, RowsAlike, ActiveIn, ActiveSessions, ActiveOf, ActiveIntervals
  <2>4. \A i \in DOMAIN interval : /\ Open(i)' <=> Open(i)
                                   /\ Open(i) => ChannelOf(i)' = ChannelOf(i)
    BY DEF Open, ChannelOf, RowsAlike, TrackerFits, RowsFit
  <2>5. MayBeIn(u) \subseteq {Event(u).from, Event(u).to}
    BY DEF MayBeIn
  <2>6. /\ MayBeIn(u)' = IF x.pc \in {"idle", "leave", "find", "part"}
                         THEN {Event(u).from, Event(u).to} ELSE {Event(u).to}
        /\ MustBeIn(u)' = IF x.pc = "done" THEN {Event(u).to} ELSE {}
    BY <2>1 DEF MayBeIn, MustBeIn, Event, discord
  <2>7. RecordsFit(u)'
    BY <2>1, <2>4, <2>5, <2>6 DEF RecordsFit, RowsAlike
  <2> QED
    BY <2>2, <2>3, <2>7 DEF UserFits
<1> QED
  BY <1>1, <1>2, <1>3, <1>4, <1>5 DEF TrackerFits

-----------------------------------------------------------------------------
(* Steps of a handler that leave the rows alone *)

(* What is known of a user whose handler is busy. *)
LEMMA Busy ==
    ASSUME TrackerFits, NEW u \in Users, handler[u].pc # "idle"
    PROVE  /\ boot.pc = "up" /\ queue[u] # <<>> /\ HandlerFits(u) /\ RecordsFit(u)
           /\ queue[u] \in Seq(VoiceEvents)
           /\ Event(u) \in VoiceEvents /\ Event(u).from \in Places /\ Event(u).to \in Places
           /\ handler[u] \in HandlerRecs
<1>1. queue[u] # <<>> /\ HandlerFits(u) /\ RecordsFit(u) /\ boot.pc = "up"
  BY DEF TrackerFits, UserFits, HandlerFits, BootFits
<1>2. queue[u] \in Seq(VoiceEvents) /\ handler[u] \in HandlerRecs
  BY DEF TrackerFits, Typed, HandlerRecs
<1>3. Event(u) \in VoiceEvents
  BY <1>1, <1>2 DEF Event
<1> QED
  BY <1>1, <1>2, <1>3 DEF VoiceEvents

(* A user who is nowhere but where his event leads is through with leaving. *)
LEMMA AfterLeaveFits ==
    ASSUME TrackerFits, NEW u \in Users, AfterLeave(u), handler[u].pc \in Leaving,
           thread \in {u, Nobody}, RowsAlike, UNCHANGED <<discord, mem, boot, reaper>>,
           \A i \in DOMAIN interval : Open(i) /\ interval[i].user = u => ChannelOf(i) = Event(u).to
    PROVE  TrackerFits'
<1>1. boot.pc = "up" /\ queue[u] # <<>>
  BY Busy DEF Leaving
<1>2. CASE Event(u).to # Nowhere
  <2> DEFINE x == [pc |-> "join", session |-> 0]
  <2>1. handler' = [handler EXCEPT ![u] = x] /\ thread' = u
    BY <1>2 DEF AfterLeave, Goto
  <2>2. x \in HandlerRecs /\ x.pc = "join"
    BY DEF HandlerRecs, HandlerPCs
  <2> HIDE DEF x
  <2> QED
    BY <1>1, <1>2, <2>1, <2>2, HandlerGoes DEF Leaving
<1>3. CASE Event(u).to = Nowhere
  <2> DEFINE x == [pc |-> "done", session |-> 0]
  <2>1. handler' = [handler EXCEPT ![u] = x] /\ thread' = Nobody
    BY <1>3 DEF AfterLeave, Yield
  <2>2. x \in HandlerRecs /\ x.pc = "done"
    BY DEF HandlerRecs, HandlerPCs
  <2> HIDE DEF x
  <2> QED
    BY <1>1, <1>3, <2>1, <2>2, HandlerGoes DEF Leaving, Blocking
<1> QED
  BY <1>2, <1>3

(* A handler begins, with the leave if there is one. *)
LEMMA BeginKeeps ==
    ASSUME TrackerFits, NEW u \in Users, Begin(u)
    PROVE  TrackerFits'
<1>1. /\ boot.pc = "up" /\ thread = Nobody /\ queue[u] # <<>> /\ handler[u].pc = "idle"
      /\ UNCHANGED <<discord, rows, mem, boot, reaper>>
  BY DEF Begin, At
<1>2. /\ queue[u] \in Seq(VoiceEvents) /\ EventsLink(u) /\ RecordsFit(u)
  BY DEF TrackerFits, UserFits, Typed
<1>3. Event(u) \in VoiceEvents /\ (Event(u).from # Nowhere \/ Event(u).to # Nowhere)
  <2>1. 1 \in 1 .. Len(queue[u]) /\ Event(u) = queue[u][1] /\ queue[u][1] \in VoiceEvents
    BY <1>1, <1>2 DEF Event
  <2> QED
    BY <1>2, <2>1 DEF EventsLink
<1>4. RowsAlike
  BY <1>1, SameRowsAlike DEF TrackerFits
<1>5. CASE Event(u).from \in {Nowhere, Event(u).to}
  <2> DEFINE x == [pc |-> "join", session |-> 0]
  <2>1. handler' = [handler EXCEPT ![u] = x] /\ thread' = u
    BY <1>5 DEF Begin, Goto
  <2>2. x \in HandlerRecs /\ x.pc = "join"
    BY DEF HandlerRecs, HandlerPCs
  <2>3. ASSUME NEW i \in DOMAIN interval, Open(i)
        PROVE  ChannelOf(i) # Nowhere
    <3>1. interval[i].session \in DOMAIN session /\ session \in Seq(SessionRows)
      BY DEF TrackerFits, Typed, RowsFit
    <3>2. session[interval[i].session] \in SessionRows
      BY <3>1
    <3> QED
      BY <3>2, SessionConstants DEF ChannelOf, SessionRows
  <2>4. \A i \in DOMAIN interval : Open(i) /\ interval[i].user = u => ChannelOf(i) = Event(u).to
    BY <1>1, <1>2, <1>5, <2>3 DEF RecordsFit, MayBeIn
  <2> HIDE DEF x
  <2> QED
    BY <1>1, <1>3, <1>4, <1>5, <2>1, <2>2, <2>4, HandlerGoes DEF Leaving
<1>6. CASE Event(u).from \notin {Nowhere, Event(u).to}
  <2> DEFINE x == [pc |-> "leave", session |-> 0]
  <2>1. handler' = [handler EXCEPT ![u] = x] /\ thread' = u
    BY <1>6 DEF Begin, Goto
  <2>2. x \in HandlerRecs /\ x.pc = "leave"
    BY DEF HandlerRecs, HandlerPCs
  <2> HIDE DEF x
  <2> QED
    BY <1>1, <1>4, <1>6, <2>1, <2>2, HandlerGoes
<1> QED
  BY <1>5, <1>6

(* A handler that raises begins anew with the same event. *)
LEMMA RaiseFits ==
    ASSUME TrackerFits, NEW u \in Users, Raise(u), handler[u].pc # "idle",
           thread \in {u, Nobody}, RowsAlike, UNCHANGED <<discord, mem, boot, reaper>>
    PROVE  TrackerFits'
<1> DEFINE x == [pc |-> "idle", session |-> 0]
<1>1. handler' = [handler EXCEPT ![u] = x] /\ thread' = Nobody
  BY DEF Raise, Yield
<1>2. x \in HandlerRecs /\ x.pc = "idle"
  BY DEF HandlerRecs, HandlerPCs
<1>3. boot.pc = "up" /\ queue[u] # <<>>
  BY Busy
<1> HIDE DEF x
<1> QED
  BY <1>1, <1>2, <1>3, HandlerGoes DEF Blocking, Leaving

(* A fault of Mongo or of the publish. *)
LEMMA FailsKeeps ==
    ASSUME TrackerFits, NEW u \in Users, Fails(u)
    PROVE  TrackerFits'
BY RaiseFits, SameRowsAlike DEF Fails, At, TrackerFits

(* Whom the memory does not know is looked for in the rows of his channel. *)
LEMMA LeaveUnknownKeeps ==
    ASSUME TrackerFits, NEW u \in Users, LeaveUnknown(u)
    PROVE  TrackerFits'
<1> DEFINE c == Event(u).from
<1>1. /\ handler[u].pc = "leave" /\ UNCHANGED <<discord, rows, mem, boot, reaper>>
  BY DEF LeaveUnknown, At
<1>2. /\ boot.pc = "up" /\ queue[u] # <<>> /\ RecordsFit(u) /\ RowsAlike /\ thread = u
      /\ c \notin {Nowhere, Event(u).to} /\ c \in Places
  BY <1>1, Busy, SameRowsAlike DEF TrackerFits, HandlerFits, Leaving, Blocking
<1>3. CASE ActiveIn(c) = {}
  <2>1. \A i \in DOMAIN interval : Open(i) /\ interval[i].user = u => ChannelOf(i) = Event(u).to
    BY <1>1, <1>2, <1>3
       DEF RecordsFit, MayBeIn, TrackerFits, RowsFit, ActiveIn, ActiveSessions, ChannelOf
  <2> QED
    BY <1>1, <1>2, <1>3, <2>1, AfterLeaveFits DEF LeaveUnknown, Leaving
<1>4. CASE ActiveIn(c) # {}
  <2>1. PICK s \in ActiveIn(c) : Goto(u, "find", s)
    BY <1>4 DEF LeaveUnknown
  <2> DEFINE x == [pc |-> "find", session |-> s]
  <2>2. handler' = [handler EXCEPT ![u] = x] /\ thread' = u
    BY <2>1 DEF Goto
  <2>3. s \in DOMAIN session /\ s \in Nat
    BY DEF ActiveIn, ActiveSessions, TrackerFits, Typed
  <2>4. x \in HandlerRecs /\ x.pc = "find" /\ x.session = s
    BY <2>3 DEF HandlerRecs, HandlerPCs
  <2>5. mem[c].parts[u] = 0
    <3>1. c \in Channels /\ (mem[c].session = 0 \/ mem[c].parts[u] = 0)
      BY <1>2 DEF LeaveUnknown, Places
    <3>2. mem[c].parts[u] # 0 => mem[c].session \in DOMAIN session
      BY <3>1 DEF TrackerFits, MemoryFits, RowsFit, Open
    <3> QED
      BY <3>1, <3>2 DEF TrackerFits, Typed
  <2> HIDE DEF x, c
  <2> QED
    BY <1>1, <1>2, <2>1, <2>2, <2>4, <2>5, HandlerGoes DEF c
<1> QED
  BY <1>3, <1>4

(* The session that was found has the user, or he is nowhere there. *)
LEMMA FindParticipantKeeps ==
    ASSUME TrackerFits, NEW u \in Users, FindParticipant(u)
    PROVE  TrackerFits'
<1> DEFINE s == handler[u].session
<1>1. /\ handler[u].pc = "find" /\ UNCHANGED <<discord, rows, mem, boot, reaper>>
  BY DEF FindParticipant, At
<1>2. /\ boot.pc = "up" /\ queue[u] # <<>> /\ RecordsFit(u) /\ RowsAlike /\ thread = u
      /\ Event(u).from \notin {Nowhere, Event(u).to} /\ handler[u] \in HandlerRecs
      /\ s \in ActiveIn(Event(u).from) /\ mem[Event(u).from].parts[u] = 0
  BY <1>1, Busy, SameRowsAlike DEF TrackerFits, HandlerFits, Leaving, Blocking
<1>3. CASE ActiveOf(s, u) = {}
  <2>1. ASSUME NEW i \in DOMAIN interval, Open(i), interval[i].user = u
        PROVE  ChannelOf(i) = Event(u).to
    <3>1. ChannelOf(i) \in {Event(u).from, Event(u).to}
      BY <1>1, <1>2, <2>1 DEF RecordsFit, MayBeIn
    <3>2. interval[i].session # s
      BY <1>3, <2>1 DEF ActiveOf, ActiveIntervals, Open
    <3>3. interval[i].session \in ActiveSessions /\ s \in ActiveSessions
          /\ session[s].channel = Event(u).from
      BY <1>2, <2>1 DEF TrackerFits, RowsFit, ActiveSessions, ActiveIn
    <3> QED
      BY <3>1, <3>2, <3>3 DEF TrackerFits, RowsFit, ChannelOf
  <2> QED
    BY <1>1, <1>2, <1>3, <2>1, AfterLeaveFits DEF FindParticipant, Leaving
<1>4. CASE ActiveOf(s, u) # {}
  <2> DEFINE x == [pc |-> "part", session |-> s]
  <2>1. handler' = [handler EXCEPT ![u] = x] /\ thread' = u
    BY <1>4 DEF FindParticipant, Goto
  <2>2. x \in HandlerRecs /\ x.pc = "part" /\ x.session = s
    BY <1>2 DEF HandlerRecs, HandlerPCs
  <2> HIDE DEF x, s
  <2> QED
    BY <1>1, <1>2, <1>4, <2>1, <2>2, HandlerGoes
<1> QED
  BY <1>3, <1>4

(* The session is closed when nobody else is in it. *)
LEMMA AnyoneLeftKeeps ==
    ASSUME TrackerFits, NEW u \in Users, AnyoneLeft(u)
    PROVE  TrackerFits'
<1> DEFINE s == handler[u].session
<1>1. /\ handler[u].pc = "left" /\ UNCHANGED <<discord, rows, mem, boot, reaper>>
  BY DEF AnyoneLeft, At
<1>2. /\ boot.pc = "up" /\ queue[u] # <<>> /\ RecordsFit(u) /\ RowsAlike /\ thread = u
      /\ Event(u).from \notin {Nowhere, Event(u).to} /\ handler[u] \in HandlerRecs
      /\ s \in ActiveIn(Event(u).from)
  BY <1>1, Busy, SameRowsAlike DEF TrackerFits, HandlerFits, Leaving, Blocking
<1>3. \A i \in DOMAIN interval : Open(i) /\ interval[i].user = u => ChannelOf(i) = Event(u).to
  BY <1>1, <1>2 DEF RecordsFit, MayBeIn
<1>4. CASE ActiveIntervals(s) # {}
  BY <1>1, <1>2, <1>3, <1>4, AfterLeaveFits DEF AnyoneLeft, Leaving
<1>5. CASE ActiveIntervals(s) = {}
  <2> DEFINE x == [pc |-> "close", session |-> s]
  <2>1. handler' = [handler EXCEPT ![u] = x] /\ thread' = u
    BY <1>5 DEF AnyoneLeft, Goto
  <2>2. x \in HandlerRecs /\ x.pc = "close" /\ x.session = s
    BY <1>2 DEF HandlerRecs, HandlerPCs
  <2> HIDE DEF x, s
  <2> QED
    BY <1>1, <1>2, <1>3, <1>5, <2>1, <2>2, HandlerGoes
<1> QED
  BY <1>4, <1>5

(* Who is in the memory's session has an interval there, and is done. *)
LEMMA AlreadyPresentKeeps ==
    ASSUME TrackerFits, NEW u \in Users, AlreadyPresent(u)
    PROVE  TrackerFits'
<1> DEFINE c == Event(u).to
           x == [pc |-> "done", session |-> 0]
           p == mem[c].parts[u]
<1>1. /\ handler[u].pc = "join" /\ UNCHANGED <<discord, rows, mem, boot, reaper>> /\ p # 0
      /\ handler' = [handler EXCEPT ![u] = x] /\ thread' = Nobody
  BY DEF AlreadyPresent, At, Yield
<1>2. /\ boot.pc = "up" /\ queue[u] # <<>> /\ RecordsFit(u) /\ RowsAlike /\ thread = u
      /\ c \in Channels
  BY <1>1, Busy, SameRowsAlike DEF TrackerFits, HandlerFits, Blocking, Places
<1>3. \A i \in DOMAIN interval : Open(i) /\ interval[i].user = u => ChannelOf(i) = c
  BY <1>1, <1>2 DEF RecordsFit, MayBeIn
<1>4. x \in HandlerRecs /\ x.pc = "done"
  BY DEF HandlerRecs, HandlerPCs
<1>5. Open(p) /\ interval[p].user = u
  BY <1>1, <1>2 DEF TrackerFits, MemoryFits
<1>6. p \in DOMAIN interval /\ ChannelOf(p) = c
  BY <1>3, <1>5 DEF Open
<1> HIDE DEF x, p
<1> QED
  BY <1>1, <1>2, <1>3, <1>4, <1>5, <1>6, HandlerGoes DEF Leaving, Blocking

(* The closing is announced. *)
LEMMA PublishKeeps ==
    ASSUME TrackerFits, NEW u \in Users, Publish(u)
    PROVE  TrackerFits'
<1> DEFINE x == [handler[u] EXCEPT !.pc = "mark"]
<1>1. /\ handler[u].pc = "publish" /\ UNCHANGED <<discord, rows, mem, boot, reaper, thread>>
      /\ handler' = [handler EXCEPT ![u] = x]
  BY DEF Publish, At
<1>2. /\ boot.pc = "up" /\ queue[u] # <<>> /\ RecordsFit(u) /\ RowsAlike
      /\ Event(u).from \notin {Nowhere, Event(u).to} /\ handler[u] \in HandlerRecs
      /\ handler[u].session \in DOMAIN session
  BY <1>1, Busy, SameRowsAlike DEF TrackerFits, HandlerFits, Leaving
<1>3. \A i \in DOMAIN interval : Open(i) /\ interval[i].user = u => ChannelOf(i) = Event(u).to
  BY <1>1, <1>2 DEF RecordsFit, MayBeIn
<1>4. x \in HandlerRecs /\ x.pc = "mark" /\ x.session = handler[u].session
  BY <1>2 DEF HandlerRecs, HandlerPCs
<1>5. thread \in Users \cup {Nobody}
  BY DEF TrackerFits, Typed
<1> HIDE DEF x
<1> QED
  BY <1>1, <1>2, <1>3, <1>4, <1>5, HandlerGoes DEF Blocking

(* The announcement is marked, and the leave is over. *)
LEMMA MarkKeeps ==
    ASSUME TrackerFits, NEW u \in Users, Mark(u)
    PROVE  TrackerFits'
<1>1. /\ handler[u].pc = "mark" /\ thread = Nobody /\ MarkTold(handler[u].session) /\ AfterLeave(u)
      /\ UNCHANGED <<discord, interval, mem, boot, reaper>>
  BY DEF Mark, At
<1>2. queue[u] # <<>> /\ RecordsFit(u) /\ handler[u].session \in DOMAIN session
  BY <1>1, Busy DEF HandlerFits
<1>3. \A i \in DOMAIN interval : Open(i) /\ interval[i].user = u => ChannelOf(i) = Event(u).to
  BY <1>1, <1>2 DEF RecordsFit, MayBeIn
<1>4. RowsAlike
  <2>1. session \in Seq(SessionRows)
    BY DEF TrackerFits, Typed
  <2>2. PICK s \in DOMAIN session : MarkTold(s)
    BY <1>1, <1>2
  <2> QED
    BY <1>1, <2>1, <2>2, RowIsTold DEF RowsAlike
<1> QED
  BY <1>1, <1>3, <1>4, AfterLeaveFits DEF Leaving

-----------------------------------------------------------------------------
(* Steps of a handler that write rows *)

(* While a handler blocks the loop, the others rely on nothing it writes. *)
LEMMA OthersStay ==
    ASSUME TrackerFits, NEW u \in Users, handler[u].pc \in Blocking, NEW x,
           handler' = [handler EXCEPT ![u] = x], UNCHANGED discord,
           DOMAIN session \subseteq DOMAIN session',
           \A s \in DOMAIN session : session'[s].channel = session[s].channel,
           \A i \in DOMAIN interval : Open(i) /\ interval[i].user # u =>
               /\ i \in DOMAIN interval' /\ interval'[i].active /\ interval'[i].user = interval[i].user
               /\ interval'[i].session = interval[i].session,
           \A i \in DOMAIN interval' : interval'[i].active /\ interval'[i].user # u =>
               /\ i \in DOMAIN interval /\ interval[i].active /\ interval[i].user = interval'[i].user
               /\ interval'[i].session = interval[i].session,
           NEW v \in Users, v # u
    PROVE  UserFits(v)'
<1>1. thread = u /\ handler[v].pc \notin Blocking
  BY DEF TrackerFits, UserFits, HandlerFits
<1>2. handler'[v] = handler[v] /\ queue'[v] = queue[v] /\ place'[v] = place[v]
  BY DEF TrackerFits, Typed, discord
<1> QED
  BY <1>1, <1>2, UserStays

(* The event of a user is no other than before. *)
LEMMA SameEvents ==
    ASSUME TrackerFits, NEW u \in Users, NEW x, handler' = [handler EXCEPT ![u] = x],
           queue[u] # <<>>, UNCHANGED discord
    PROVE  /\ EventsLink(u)' /\ Event(u)' = Event(u) /\ handler'[u] = x
           /\ MayBeIn(u)' = IF x.pc \in {"idle", "leave", "find", "part"}
                            THEN {Event(u).from, Event(u).to} ELSE {Event(u).to}
           /\ MustBeIn(u)' = IF x.pc = "done" THEN {Event(u).to} ELSE {}
<1>1. handler'[u] = x /\ EventsLink(u)
  BY DEF TrackerFits, Typed, UserFits
<1> QED
  BY <1>1 DEF EventsLink, discord, Event, MayBeIn, MustBeIn

(* A write whose answer is lost is outside what is claimed. *)
LEMMA NoLostAnswer ==
    ASSUME NEW u \in Users, Clean'
    PROVE  ~LoseAnswer(u)
BY DEF Clean, LoseAnswer, Trouble

(* The interval that a handler closes is the only one of its user. *)
LEMMA OnlyIntervalCloses ==
    ASSUME TrackerFits, NEW u \in Users, NEW p, Open(p), interval[p].user = u, CloseInterval(p)
    PROVE  /\ interval' \in Seq(IntervalRows) /\ DOMAIN interval' = DOMAIN interval
           /\ \A j \in DOMAIN interval : /\ interval'[j].session = interval[j].session
                                         /\ interval'[j].user = interval[j].user
                                         /\ interval'[j].active <=> interval[j].active /\ interval[j].user # u
<1>1. p \in DOMAIN interval /\ interval \in Seq(IntervalRows) /\ RowsFit
  BY DEF Open, TrackerFits, Typed
<1>2. \A j \in DOMAIN interval : interval[j].active /\ interval[j].user = u => j = p
  BY <1>1 DEF RowsFit, Open
<1>3. interval[p].active /\ interval[p].user = u
  BY DEF Open
<1>4. /\ interval' \in Seq(IntervalRows) /\ DOMAIN interval' = DOMAIN interval /\ ~interval'[p].active
      /\ \A j \in DOMAIN interval : /\ interval'[j].session = interval[j].session
                                    /\ interval'[j].user = interval[j].user
                                    /\ j # p => interval'[j] = interval[j]
  BY <1>1, IntervalCloses
<1> QED
  BY <1>1, <1>2, <1>3, <1>4

(* The rows fit with fewer active intervals. *)
LEMMA FewerIntervalsFit ==
    ASSUME TrackerFits, UNCHANGED session, DOMAIN interval' = DOMAIN interval,
           \A j \in DOMAIN interval : /\ interval'[j].session = interval[j].session
                                      /\ interval'[j].user = interval[j].user
                                      /\ interval'[j].active => interval[j].active
    PROVE  RowsFit'
BY DEF TrackerFits, RowsFit, ActiveSessions, Open

(* The user the memory knows leaves, and is nowhere else. *)
LEMMA LeaveKnownKeeps ==
    ASSUME TrackerFits, Clean', NEW u \in Users, LeaveKnown(u)
    PROVE  TrackerFits'
<1> DEFINE c == Event(u).from
<1>0. PICK s : s = mem[c].session
  OBVIOUS
<1> DEFINE p == mem[c].parts[u]
           rest == [mem[c].parts EXCEPT ![u] = 0]
           m == [mem[c] EXCEPT !.parts = rest]
<1>1. /\ handler[u].pc = "leave" /\ s # 0 /\ p # 0 /\ CloseInterval(p) /\ s = mem[c].session
      /\ mem' = [mem EXCEPT ![c].parts = rest]
      /\ IF \E v \in Users : rest[v] # 0 THEN AfterLeave(u) ELSE Goto(u, "close", s)
      /\ UNCHANGED <<discord, session, boot, reaper>>
  BY <1>0, NoLostAnswer DEF LeaveKnown, At
<1>2. /\ boot.pc = "up" /\ queue[u] # <<>> /\ RecordsFit(u)
      /\ c \notin {Nowhere, Event(u).to} /\ c \in Channels
  BY <1>1, Busy DEF HandlerFits, Leaving, Places
<1>3. /\ Open(p) /\ interval[p].user = u /\ interval[p].session = s
      /\ s \in DOMAIN session /\ session[s].active /\ session[s].channel = c
      /\ \A i \in DOMAIN interval : Open(i) /\ interval[i].session = s => mem[c].parts[interval[i].user] # 0
      /\ \A i \in DOMAIN interval : interval[i].user \in Users
  <2>1. \A i \in DOMAIN interval : interval[i] \in IntervalRows
    BY DEF TrackerFits, Typed
  <2> QED
    BY SMTT(30), <1>1, <1>2, <2>1 DEF TrackerFits, MemoryFits, ActiveIn, ActiveSessions, IntervalRows
<1>4. /\ interval' \in Seq(IntervalRows) /\ DOMAIN interval' = DOMAIN interval
      /\ \A j \in DOMAIN interval : /\ interval'[j].session = interval[j].session
                                    /\ interval'[j].user = interval[j].user
                                    /\ interval'[j].active <=> interval[j].active /\ interval[j].user # u
  BY <1>1, <1>3, OnlyIntervalCloses
<1>5. /\ rest \in [Users -> Nat] /\ rest[u] = 0 /\ \A v \in Users : v # u => rest[v] = mem[c].parts[v]
      /\ m.session = s /\ m.parts = rest /\ m \in [session : Nat, parts : [Users -> Nat]]
      /\ mem' = [mem EXCEPT ![c] = m]
  <2>1. /\ mem \in [Channels -> [session : Nat, parts : [Users -> Nat]]]
        /\ mem[c] \in [session : Nat, parts : [Users -> Nat]]
    BY <1>2 DEF TrackerFits, Typed
  <2> QED
    BY <1>1, <2>1
<1>6. /\ mem' \in [Channels -> [session : Nat, parts : [Users -> Nat]]]
      /\ mem'[c].session = s /\ mem'[c].parts = rest
      /\ \A d \in Channels : d # c => mem'[d] = mem[d]
  BY <1>2, <1>5 DEF TrackerFits, Typed
<1> HIDE DEF rest, m, p, c
<1>7. RowsFit'
  BY <1>1, <1>4, FewerIntervalsFit
<1>8. MemoryFits'
  <2>1. ASSUME NEW d \in Channels
        PROVE  mem'[d].session # 0 => mem'[d].session \in ActiveIn(d)'
    BY <1>1, <1>3, <1>5, <1>6 DEF TrackerFits, MemoryFits, ActiveIn, ActiveSessions
  <2>2. ASSUME NEW d \in Channels, NEW v \in Users, mem'[d].parts[v] # 0
        PROVE  /\ Open(mem[d].parts[v]) /\ interval[mem[d].parts[v]].user = v
               /\ interval[mem[d].parts[v]].session = mem[d].session
               /\ mem'[d].parts[v] = mem[d].parts[v] /\ v # u /\ mem'[d].session = mem[d].session
    <3>1. CASE d = c
      <4>1. rest[v] # 0 /\ v # u /\ rest[v] = mem[c].parts[v]
        BY <2>2, <3>1, <1>5, <1>6
      <4> QED
        BY <3>1, <4>1, <1>1, <1>2, <1>6 DEF TrackerFits, MemoryFits
    <3>2. CASE d # c
      <4>1. /\ Open(mem[d].parts[v]) /\ interval[mem[d].parts[v]].user = v
            /\ interval[mem[d].parts[v]].session = mem[d].session
            /\ mem'[d] = mem[d]
        BY <2>2, <3>2, <1>6 DEF TrackerFits, MemoryFits
      <4>2. ASSUME v = u PROVE FALSE
        <5>1. mem[d].parts[v] = p
          BY <4>1, <4>2, <1>3 DEF TrackerFits, RowsFit, Open
        <5>2. mem[d].session = s
          BY <4>1, <5>1, <1>3
        <5>3. session[mem[d].session].channel = d
          BY <5>2, <1>1 DEF TrackerFits, MemoryFits, ActiveIn
        <5> QED
          BY <5>2, <5>3, <1>3, <3>2
      <4> QED
        BY <4>1, <4>2
    <3> QED
      BY <3>1, <3>2
  <2>3. ASSUME NEW d \in Channels, NEW v \in Users, NEW k, k = mem'[d].parts[v], k # 0
        PROVE  Open(k)' /\ interval'[k].user = v /\ interval'[k].session = mem'[d].session
    <3>1. Open(k) /\ interval[k].user = v /\ interval[k].session = mem'[d].session /\ v # u
      BY <2>2, <2>3
    <3> QED
      BY <3>1, <1>4 DEF Open
  <2>4. ASSUME NEW d \in Channels, NEW i \in DOMAIN interval', Open(i)',
               interval'[i].session = mem'[d].session
        PROVE  mem'[d].parts[interval'[i].user] # 0
    <3>1. Open(i) /\ interval'[i].user = interval[i].user /\ interval[i].user # u
          /\ interval'[i].session = interval[i].session /\ interval[i].user \in Users
      BY <2>4, <1>3, <1>4 DEF Open
    <3>2. CASE d = c
      <4>1. mem[c].parts[interval[i].user] # 0
        BY ZenonT(40), <2>4, <3>1, <3>2, <1>3, <1>4, <1>6
      <4>2. rest[interval[i].user] # 0
        BY <3>1, <4>1, <1>5
      <4> QED
        BY <3>1, <3>2, <4>2, <1>6
    <3>3. CASE d # c
      <4>1. mem'[d] = mem[d] /\ interval[i].session = mem[d].session /\ i \in DOMAIN interval
        BY <2>4, <3>1, <3>3, <1>4, <1>6
      <4>2. mem[d].parts[interval[i].user] # 0
        BY <3>1, <4>1 DEF TrackerFits, MemoryFits
      <4> QED
        BY <3>1, <4>1, <4>2
    <3> QED
      BY <3>2, <3>3
  <2> QED
    BY <2>1, <2>3, <2>4 DEF MemoryFits
<1>9. PICK x \in HandlerRecs :
          /\ handler' = [handler EXCEPT ![u] = x] /\ thread' \in {u, Nobody}
          /\ x.pc \in Blocking => thread' = u
          /\ \/ x.pc = "join" /\ Event(u).to # Nowhere
             \/ x.pc = "done" /\ Event(u).to = Nowhere
             \/ x.pc = "close" /\ x.session = s /\ \A v \in Users : rest[v] = 0
  <2>1. s \in Nat
    BY <1>3 DEF TrackerFits, Typed
  <2>2. ASSUME NEW pc \in {"join", "done", "close"}, NEW z \in Nat
        PROVE  [pc |-> pc, session |-> z] \in HandlerRecs
    BY DEF HandlerRecs, HandlerPCs
  <2>3. CASE (\E v \in Users : rest[v] # 0) /\ Event(u).to # Nowhere
    <3> DEFINE y == [pc |-> "join", session |-> 0]
    <3>1. handler' = [handler EXCEPT ![u] = y] /\ thread' = u
      BY <1>1, <2>3 DEF AfterLeave, Goto
    <3>2. y \in HandlerRecs /\ y.pc = "join"
      BY <2>2
    <3> HIDE DEF y
    <3> QED
      BY <2>3, <3>1, <3>2
  <2>5. CASE (\E v \in Users : rest[v] # 0) /\ Event(u).to = Nowhere
    <3> DEFINE y == [pc |-> "done", session |-> 0]
    <3>1. handler' = [handler EXCEPT ![u] = y] /\ thread' = Nobody
      BY <1>1, <2>5 DEF AfterLeave, Yield
    <3>2. y \in HandlerRecs /\ y.pc = "done"
      BY <2>2
    <3> HIDE DEF y
    <3> QED
      BY <2>5, <3>1, <3>2 DEF Blocking
  <2>4. CASE ~\E v \in Users : rest[v] # 0
    BY <1>1, <2>1, <2>2, <2>4 DEF Goto
  <2> QED
    BY <2>3, <2>4, <2>5
<1>10. Typed'
  BY <1>1, <1>4, <1>6, <1>9 DEF TrackerFits, Typed, discord, HandlerRecs
<1>11. BootFits' /\ ReaperFits'
  BY <1>1, <1>2 DEF BootFits, ReaperFits, TrackerFits
<1>12. ASSUME NEW v \in Users, v # u PROVE UserFits(v)'
  BY <1>1, <1>4, <1>9, <1>12, OthersStay DEF Blocking, Open
<1>13. UserFits(u)'
  <2>1. /\ EventsLink(u)' /\ Event(u)' = Event(u) /\ handler'[u] = x /\ queue' = queue
        /\ MustBeIn(u)' = IF x.pc = "done" THEN {Event(u).to} ELSE {}
    BY <1>1, <1>2, <1>9, SameEvents DEF discord
  <2>2. \A i \in DOMAIN interval' : ~(Open(i)' /\ interval'[i].user = u)
    BY <1>4 DEF Open
  <2>3. RecordsFit(u)'
    BY <1>9, <2>1, <2>2 DEF RecordsFit
  <2>4. ASSUME x.pc = "close" PROVE ActiveIntervals(s)' = {}
    <3>1. ASSUME NEW i \in DOMAIN interval', interval'[i].active, interval'[i].session = s PROVE FALSE
      <4>1. Open(i) /\ interval[i].user # u /\ interval[i].session = s /\ interval[i].user \in Users
        BY <3>1, <1>3, <1>4 DEF Open
      <4>2. mem[c].parts[interval[i].user] # 0
        BY <4>1, <1>3 DEF Open
      <4>3. rest[interval[i].user] # 0
        BY <4>1, <4>2, <1>5
      <4> QED
        BY <4>1, <4>3, <1>9, <2>4
    <3> QED
      BY <3>1 DEF ActiveIntervals
  <2>5. HandlerFits(u)'
    BY <1>1, <1>2, <1>3, <1>9, <2>1, <2>4
       DEF HandlerFits, Leaving, ActiveIn, ActiveSessions, c
  <2> QED
    BY <2>1, <2>3, <2>5 DEF UserFits
<1> QED
  BY <1>7, <1>8, <1>10, <1>11, <1>12, <1>13 DEF TrackerFits

(* What the rows and the memory refer to. *)
LEMMA References ==
    ASSUME TrackerFits
    PROVE  /\ \A i \in DOMAIN interval :
                 /\ interval[i] \in IntervalRows /\ interval[i].user \in Users
                 /\ interval[i].session \in DOMAIN session /\ interval[i].session # 0
           /\ \A t \in DOMAIN session : session[t] \in SessionRows /\ session[t].channel \in Channels
           /\ \A d \in Channels :
                 /\ mem[d] \in [session : Nat, parts : [Users -> Nat]]
                 /\ mem[d].session # 0 => /\ mem[d].session \in DOMAIN session
                                          /\ session[mem[d].session].active
                                          /\ session[mem[d].session].channel = d
                 /\ \A v \in Users : mem[d].parts[v] # 0 => mem[d].session # 0
<1>1. interval \in Seq(IntervalRows) /\ session \in Seq(SessionRows)
      /\ mem \in [Channels -> [session : Nat, parts : [Users -> Nat]]]
  BY DEF TrackerFits, Typed
<1>2. \A i \in DOMAIN interval : interval[i].session \in DOMAIN session
  BY DEF TrackerFits, RowsFit
<1>3. \A i \in DOMAIN interval : interval[i] \in IntervalRows /\ interval[i].session # 0
  BY <1>1, <1>2
<1>4. \A t \in DOMAIN session : session[t] \in SessionRows
  BY <1>1
<1>5. ASSUME NEW d \in Channels, mem[d].session # 0
      PROVE  mem[d].session \in DOMAIN session /\ session[mem[d].session].active
             /\ session[mem[d].session].channel = d
  BY <1>5 DEF TrackerFits, MemoryFits, ActiveIn, ActiveSessions
<1>6. ASSUME NEW d \in Channels, NEW v \in Users, mem[d].parts[v] # 0 PROVE mem[d].session # 0
  BY <1>2, <1>3, <1>6 DEF TrackerFits, MemoryFits, Open
<1> QED
  BY <1>1, <1>2, <1>3, <1>4, <1>5, <1>6 DEF IntervalRows, SessionRows

(* The interval that was found is closed; the memory does not know it. *)
LEMMA CloseParticipantKeeps ==
    ASSUME TrackerFits, Clean', NEW u \in Users, CloseParticipant(u)
    PROVE  TrackerFits'
<1> DEFINE c == Event(u).from
<1>0. PICK s : s = handler[u].session
  OBVIOUS
<1>1. /\ handler[u].pc = "part" /\ CloseInterval(Found(s, u)) /\ Goto(u, "left", s)
      /\ UNCHANGED <<discord, session, mem, boot, reaper>>
  BY <1>0, NoLostAnswer DEF CloseParticipant, At
<1>2. /\ boot.pc = "up" /\ queue[u] # <<>> /\ RecordsFit(u) /\ handler[u] \in HandlerRecs
      /\ c \notin {Nowhere, Event(u).to} /\ c \in Channels /\ mem[c].parts[u] = 0
      /\ s \in DOMAIN session /\ session[s].active /\ session[s].channel = c
      /\ ActiveOf(s, u) # {}
  BY <1>0, <1>1, Busy DEF HandlerFits, Leaving, Places, ActiveIn, ActiveSessions
<1> HIDE DEF c
<1>3. PICK p \in DOMAIN interval : Open(p) /\ interval[p].user = u /\ interval[p].session = s
  BY <1>2 DEF ActiveOf, ActiveIntervals, Open
<1>4. Found(s, u) = p
  <2> DEFINE F(i) == /\ interval[i].session = s /\ interval[i].user = u
                     /\ \A j \in DOMAIN interval :
                          interval[j].session = s /\ interval[j].user = u => j <= i
  <2>1. F(p)
    BY <1>3 DEF TrackerFits, RowsFit
  <2>2. PICK f \in DOMAIN interval : f = Found(s, u) /\ F(f)
    BY <2>1 DEF Found
  <2>3. p <= f /\ f <= p
    BY <1>3, <2>1, <2>2
  <2>4. p \in Nat /\ f \in Nat
    BY <2>2 DEF TrackerFits, Typed
  <2> QED
    BY <2>2, <2>3, <2>4
<1>5. /\ interval' \in Seq(IntervalRows) /\ DOMAIN interval' = DOMAIN interval
      /\ \A j \in DOMAIN interval : /\ interval'[j].session = interval[j].session
                                    /\ interval'[j].user = interval[j].user
                                    /\ interval'[j].active <=> interval[j].active /\ interval[j].user # u
  BY <1>1, <1>3, <1>4, OnlyIntervalCloses
<1>6. RowsFit'
  BY <1>1, <1>5, FewerIntervalsFit
<1>7. ASSUME NEW d \in Channels PROVE mem[d].parts[u] = 0
  <2>1. SUFFICES ASSUME mem[d].parts[u] # 0 PROVE FALSE
    OBVIOUS
  <2>2. Open(mem[d].parts[u]) /\ interval[mem[d].parts[u]].user = u
        /\ interval[mem[d].parts[u]].session = mem[d].session
    BY <2>1 DEF TrackerFits, MemoryFits
  <2>3. mem[d].parts[u] = p
    BY <1>3, <2>2 DEF TrackerFits, RowsFit, Open
  <2>4. mem[d].session = s /\ mem[d].session # 0
    BY <1>3, <2>1, <2>2, <2>3, References
  <2> QED
    BY <1>2, <2>1, <2>4, References
<1>8. MemoryFits'
  <2>1. ASSUME NEW d \in Channels
        PROVE  mem'[d].session # 0 => mem'[d].session \in ActiveIn(d)'
    BY <1>1 DEF TrackerFits, MemoryFits, ActiveIn, ActiveSessions
  <2>2. ASSUME NEW d \in Channels, NEW v \in Users, NEW k, k = mem'[d].parts[v], k # 0
        PROVE  Open(k)' /\ interval'[k].user = v /\ interval'[k].session = mem'[d].session
    <3>1. Open(k) /\ interval[k].user = v /\ interval[k].session = mem[d].session /\ v # u
      BY <2>2, <1>1, <1>7 DEF TrackerFits, MemoryFits
    <3> QED
      BY <3>1, <1>1, <1>5 DEF Open
  <2>3. ASSUME NEW d \in Channels, NEW i \in DOMAIN interval', Open(i)',
               interval'[i].session = mem'[d].session
        PROVE  mem'[d].parts[interval'[i].user] # 0
    BY <2>3, <1>1, <1>5 DEF TrackerFits, MemoryFits, Open
  <2> QED
    BY <2>1, <2>2, <2>3 DEF MemoryFits
<1> DEFINE x == [pc |-> "left", session |-> s]
<1>9. handler' = [handler EXCEPT ![u] = x] /\ thread' = u
  BY <1>1 DEF Goto
<1>10. x \in HandlerRecs /\ x.pc = "left" /\ x.session = s
  BY <1>0, <1>2 DEF HandlerRecs, HandlerPCs
<1> HIDE DEF x
<1>11. Typed'
  BY <1>1, <1>5, <1>9, <1>10 DEF TrackerFits, Typed, discord, HandlerRecs
<1>12. BootFits' /\ ReaperFits'
  BY <1>1, <1>2 DEF BootFits, ReaperFits, TrackerFits
<1>13. ASSUME NEW v \in Users, v # u PROVE UserFits(v)'
  BY <1>1, <1>5, <1>9, <1>13, OthersStay DEF Blocking, Open
<1>14. UserFits(u)'
  <2>1. /\ EventsLink(u)' /\ Event(u)' = Event(u) /\ handler'[u] = x /\ queue' = queue
        /\ MustBeIn(u)' = {}
    BY <1>1, <1>2, <1>9, <1>10, SameEvents DEF discord
  <2>2. \A i \in DOMAIN interval' : ~(Open(i)' /\ interval'[i].user = u)
    BY <1>5 DEF Open
  <2>3. RecordsFit(u)'
    BY <2>1, <2>2 DEF RecordsFit
  <2>4. HandlerFits(u)'
    BY <1>1, <1>2, <1>9, <1>10, <2>1 DEF HandlerFits, Leaving, ActiveIn, ActiveSessions, c
  <2> QED
    BY <2>1, <2>3, <2>4 DEF UserFits
<1> QED
  BY <1>6, <1>8, <1>11, <1>12, <1>13, <1>14 DEF TrackerFits

(* The rows fit with one active session less, if nobody is in it. *)
LEMMA EmptySessionCloses ==
    ASSUME TrackerFits, NEW s \in DOMAIN session, CloseRow(s), ActiveIntervals(s) = {}, UNCHANGED interval
    PROVE  /\ RowsFit' /\ session' \in Seq(SessionRows) /\ DOMAIN session' = DOMAIN session
           /\ ~session'[s].active
           /\ \A t \in DOMAIN session : /\ session'[t].channel = session[t].channel
                                        /\ t # s => session'[t].active = session[t].active
<1>1. session \in Seq(SessionRows)
  BY DEF TrackerFits, Typed
<1>2. /\ session' \in Seq(SessionRows) /\ DOMAIN session' = DOMAIN session /\ ~session'[s].active
      /\ \A t \in DOMAIN session : /\ session'[t].channel = session[t].channel
                                   /\ t # s => session'[t] = session[t]
  BY <1>1, RowCloses
<1>3. \A i \in DOMAIN interval : Open(i) => interval[i].session # s
  BY DEF ActiveIntervals, Open
<1>4. RowsFit'
  BY <1>2, <1>3 DEF TrackerFits, RowsFit, ActiveSessions, Open
<1> QED
  BY <1>2, <1>4

(* The last one out closes the session. *)
LEMMA CloseSessionKeeps ==
    ASSUME TrackerFits, Clean', NEW u \in Users, CloseSession(u)
    PROVE  TrackerFits'
<1> DEFINE c == Event(u).from
<1>0. PICK s : s = handler[u].session
  OBVIOUS
<1>1. /\ handler[u].pc = "close" /\ CloseRow(s) /\ Yield(u, "publish", s)
      /\ mem' = [mem EXCEPT ![c] = NoEntry]
      /\ UNCHANGED <<discord, interval, boot, reaper>>
  BY <1>0, NoLostAnswer DEF CloseSession, At
<1>2. /\ boot.pc = "up" /\ queue[u] # <<>> /\ RecordsFit(u) /\ handler[u] \in HandlerRecs
      /\ c \notin {Nowhere, Event(u).to} /\ c \in Channels
      /\ s \in DOMAIN session /\ session[s].active /\ session[s].channel = c
      /\ ActiveIntervals(s) = {}
  BY <1>0, <1>1, Busy DEF HandlerFits, Leaving, Places, ActiveIn, ActiveSessions
<1> HIDE DEF c
<1>3. /\ RowsFit' /\ session' \in Seq(SessionRows) /\ DOMAIN session' = DOMAIN session
      /\ \A t \in DOMAIN session : /\ session'[t].channel = session[t].channel
                                   /\ t # s => session'[t].active = session[t].active
  BY <1>1, <1>2, EmptySessionCloses
<1>4. /\ NoEntry \in [session : Nat, parts : [Users -> Nat]] /\ NoEntry.session = 0
      /\ \A v \in Users : NoEntry.parts[v] = 0
  BY DEF NoEntry
<1>5. /\ mem' \in [Channels -> [session : Nat, parts : [Users -> Nat]]]
      /\ mem'[c] = NoEntry /\ \A d \in Channels : d # c => mem'[d] = mem[d]
  BY <1>1, <1>2, <1>4 DEF TrackerFits, Typed
<1>6. MemoryFits'
  <2>1. ASSUME NEW d \in Channels, mem'[d].session # 0
        PROVE  mem'[d].session \in ActiveIn(d)'
    <3>1. d # c /\ mem'[d] = mem[d]
      BY <2>1, <1>4, <1>5
    <3>2. /\ mem[d].session \in DOMAIN session /\ session[mem[d].session].active
          /\ session[mem[d].session].channel = d
      BY <2>1, <3>1, References
    <3> QED
      BY <3>1, <3>2, <1>2, <1>3 DEF ActiveIn, ActiveSessions
  <2>2. ASSUME NEW d \in Channels, NEW v \in Users, mem'[d].parts[v] # 0
        PROVE  d # c /\ mem'[d] = mem[d]
    BY <2>2, <1>4, <1>5
  <2>3. ASSUME NEW d \in Channels, NEW i \in DOMAIN interval', Open(i)',
               interval'[i].session = mem'[d].session
        PROVE  mem'[d].parts[interval'[i].user] # 0
    <3>1. Open(i) /\ interval[i].session = mem'[d].session /\ interval[i].session # 0 /\ interval' = interval
      BY <2>3, <1>1, References DEF Open
    <3>2. d # c /\ mem'[d] = mem[d]
      BY <3>1, <1>4, <1>5
    <3> QED
      BY <3>1, <3>2 DEF TrackerFits, MemoryFits, Open
  <2> QED
    BY <2>1, <2>2, <2>3, <1>1 DEF MemoryFits, TrackerFits, Open
<1> DEFINE x == [pc |-> "publish", session |-> s]
<1>7. handler' = [handler EXCEPT ![u] = x] /\ thread' = Nobody
  BY <1>1 DEF Yield
<1>8. x \in HandlerRecs /\ x.pc = "publish" /\ x.session = s
  BY <1>0, <1>2 DEF HandlerRecs, HandlerPCs
<1> HIDE DEF x
<1>9. Typed'
  BY <1>1, <1>3, <1>5, <1>7, <1>8 DEF TrackerFits, Typed, discord, HandlerRecs
<1>10. BootFits' /\ ReaperFits'
  BY <1>1, <1>2, <1>3 DEF BootFits, ReaperFits, TrackerFits
<1>11. ASSUME NEW v \in Users, v # u PROVE UserFits(v)'
  BY <1>1, <1>3, <1>7, <1>11, OthersStay DEF Blocking, Open
<1>12. UserFits(u)'
  <2>1. /\ EventsLink(u)' /\ Event(u)' = Event(u) /\ handler'[u] = x /\ queue' = queue
        /\ MustBeIn(u)' = {} /\ MayBeIn(u)' = {Event(u).to}
    BY <1>1, <1>2, <1>7, <1>8, SameEvents DEF discord
  <2>2. \A i \in DOMAIN interval : Open(i) /\ interval[i].user = u => ChannelOf(i) = Event(u).to
    BY <1>1, <1>2 DEF RecordsFit, MayBeIn
  <2>3. \A i \in DOMAIN interval : interval[i].session \in DOMAIN session
    BY References
  <2>4. RecordsFit(u)'
    BY <1>1, <1>3, <2>1, <2>2, <2>3 DEF RecordsFit, Open, ChannelOf
  <2>5. HandlerFits(u)'
    BY <1>2, <1>3, <1>8, <2>1 DEF HandlerFits, Blocking, c
  <2> QED
    BY <2>1, <2>4, <2>5 DEF UserFits
<1> QED
  BY <1>3, <1>6, <1>9, <1>10, <1>11, <1>12 DEF TrackerFits

(* A join without a session opens one: nobody is in it yet. *)
LEMMA CreateSessionKeeps ==
    ASSUME TrackerFits, Clean', NEW u \in Users, CreateSession(u)
    PROVE  TrackerFits'
<1> DEFINE c == Event(u).to
           n == Len(session) + 1
           r == [channel |-> c, active |-> TRUE, told |-> FALSE]
           m == [NoEntry EXCEPT !.session = n]
           x == [pc |-> "join", session |-> 0]
<1>1. /\ handler[u].pc = "join" /\ mem[c].session = 0
      /\ UNCHANGED <<discord, interval, boot, reaper>>
  BY DEF CreateSession, At
<1>2. /\ boot.pc = "up" /\ queue[u] # <<>> /\ RecordsFit(u) /\ thread = u /\ c # Nowhere /\ c \in Channels
  BY <1>1, Busy DEF HandlerFits, Blocking, Places
<1>3. CASE ActiveIn(c) # {}
  BY <1>1, <1>2, <1>3, RaiseFits, SameRowsAlike DEF CreateSession, TrackerFits, rows
<1>4. CASE ActiveIn(c) = {}
  <2>1. /\ session' = Append(session, r) /\ mem' = [mem EXCEPT ![c] = m]
        /\ handler' = [handler EXCEPT ![u] = x] /\ thread' = u
    BY <1>4, NoLostAnswer DEF CreateSession, Goto
  <2>2. r \in SessionRows /\ r.channel = c /\ r.active
    BY <1>2 DEF SessionRows
  <2>3. session \in Seq(SessionRows)
    BY DEF TrackerFits, Typed
  <2> HIDE DEF r
  <2>4. /\ session' \in Seq(SessionRows) /\ n \notin DOMAIN session /\ n \in Nat
        /\ DOMAIN session' = DOMAIN session \cup {n} /\ session'[n] = r
        /\ \A t \in DOMAIN session : session'[t] = session[t]
    BY <2>1, <2>2, <2>3, RowAppended
  <2>5. /\ m \in [session : Nat, parts : [Users -> Nat]] /\ m.session = n
        /\ \A v \in Users : m.parts[v] = 0
    BY <2>4 DEF NoEntry
  <2> HIDE DEF m, n, c
  <2>6. /\ mem' \in [Channels -> [session : Nat, parts : [Users -> Nat]]]
        /\ mem'[c] = m /\ \A d \in Channels : d # c => mem'[d] = mem[d]
    BY <1>2, <2>1, <2>5 DEF TrackerFits, Typed
  <2>7. \A s \in ActiveSessions : session[s].channel # c
    BY <1>4 DEF ActiveIn
  <2>8. RowsFit'
    <3>1. ASSUME NEW s \in DOMAIN session', NEW t \in DOMAIN session', session'[s].active, session'[t].active,
                 session'[s].channel = session'[t].channel
          PROVE  s = t
      <4>1. CASE s \in DOMAIN session /\ t \in DOMAIN session
        BY <3>1, <4>1, <2>4 DEF TrackerFits, RowsFit, ActiveSessions
      <4>2. CASE s \in DOMAIN session /\ t = n
        BY <3>1, <4>2, <2>2, <2>4, <2>7 DEF ActiveSessions
      <4>3. CASE s = n /\ t \in DOMAIN session
        BY <3>1, <4>3, <2>2, <2>4, <2>7 DEF ActiveSessions
      <4> QED
        BY <3>1, <4>1, <4>2, <4>3, <2>4
    <3> QED
      BY <3>1, <2>4, <1>1 DEF TrackerFits, RowsFit, ActiveSessions, Open
  <2>9. MemoryFits'
    <3>1. ASSUME NEW d \in Channels, mem'[d].session # 0
          PROVE  mem'[d].session \in ActiveIn(d)'
      <4>1. CASE d = c
        BY <4>1, <2>2, <2>4, <2>5, <2>6 DEF ActiveIn, ActiveSessions
      <4>2. CASE d # c
        BY SMTT(30), <3>1, <4>2, <2>4, <2>6, References DEF ActiveIn, ActiveSessions
      <4> QED
        BY <4>1, <4>2
    <3>2. ASSUME NEW d \in Channels, NEW v \in Users, mem'[d].parts[v] # 0
          PROVE  mem'[d] = mem[d]
      BY <3>2, <2>5, <2>6
    <3>3. ASSUME NEW d \in Channels, NEW i \in DOMAIN interval', Open(i)',
                 interval'[i].session = mem'[d].session
          PROVE  mem'[d].parts[interval'[i].user] # 0
      <4>1. Open(i) /\ interval[i].session = mem'[d].session /\ interval[i].session \in DOMAIN session
            /\ interval' = interval
        BY <3>3, <1>1, References DEF Open
      <4>2. mem'[d] = mem[d]
        BY <4>1, <2>4, <2>5, <2>6
      <4> QED
        BY <4>1, <4>2 DEF TrackerFits, MemoryFits, Open
    <3> QED
      BY <3>1, <3>2, <3>3, <1>1 DEF MemoryFits, TrackerFits, Open
  <2>10. x \in HandlerRecs /\ x.pc = "join"
    BY DEF HandlerRecs, HandlerPCs
  <2> HIDE DEF x
  <2>11. Typed'
    BY <1>1, <2>1, <2>4, <2>6, <2>10 DEF TrackerFits, Typed, discord, HandlerRecs
  <2>12. BootFits' /\ ReaperFits'
    BY <1>1, <1>2, <2>4 DEF BootFits, ReaperFits, TrackerFits
  <2>13. ASSUME NEW v \in Users, v # u PROVE UserFits(v)'
    BY <1>1, <2>1, <2>4, <2>13, OthersStay DEF Blocking, Open
  <2>14. UserFits(u)'
    <3>1. /\ EventsLink(u)' /\ Event(u)' = Event(u) /\ handler'[u] = x /\ queue' = queue
          /\ MustBeIn(u)' = {} /\ MayBeIn(u)' = {c}
      BY <1>1, <1>2, <2>1, <2>10, SameEvents DEF discord, c
    <3>2. \A i \in DOMAIN interval : Open(i) /\ interval[i].user = u => ChannelOf(i) = c
      BY <1>1, <1>2 DEF RecordsFit, MayBeIn, c
    <3>3. \A i \in DOMAIN interval : interval[i].session \in DOMAIN session
      BY References
    <3>4. RecordsFit(u)'
      BY <1>1, <2>4, <3>1, <3>2, <3>3 DEF RecordsFit, Open, ChannelOf
    <3>5. HandlerFits(u)'
      BY <1>2, <2>1, <2>10, <3>1 DEF HandlerFits, Leaving, c
    <3> QED
      BY <3>1, <3>4, <3>5 DEF UserFits
  <2> QED
    BY <2>8, <2>9, <2>11, <2>12, <2>13, <2>14 DEF TrackerFits
<1> QED
  BY <1>3, <1>4

(* A join into the session the memory knows opens the only interval of its *)
(* user.                                                                   *)
LEMMA CreateParticipantKeeps ==
    ASSUME TrackerFits, Clean', NEW u \in Users, CreateParticipant(u)
    PROVE  TrackerFits'
<1> DEFINE c == Event(u).to
           n == Len(interval) + 1
           x == [pc |-> "done", session |-> 0]
<1>0. PICK s : s = mem[c].session
  OBVIOUS
<1> DEFINE r == [session |-> s, user |-> u, active |-> TRUE]
           m == [mem[c] EXCEPT !.parts = [mem[c].parts EXCEPT ![u] = n]]
<1>1. /\ handler[u].pc = "join" /\ mem[c].session = s /\ s # 0 /\ mem[c].parts[u] = 0
      /\ UNCHANGED <<discord, session, boot, reaper>>
  BY <1>0 DEF CreateParticipant, At
<1>2. /\ boot.pc = "up" /\ queue[u] # <<>> /\ RecordsFit(u) /\ thread = u /\ c # Nowhere /\ c \in Channels
  BY <1>1, Busy DEF HandlerFits, Blocking, Places
<1>3. CASE ActiveOf(s, u) # {}
  BY <1>0, <1>1, <1>2, <1>3, RaiseFits, SameRowsAlike DEF CreateParticipant, TrackerFits, rows
<1>4. CASE ActiveOf(s, u) = {}
  <2>1. /\ interval' = Append(interval, r) /\ mem' = [mem EXCEPT ![c].parts[u] = n]
        /\ handler' = [handler EXCEPT ![u] = x] /\ thread' = Nobody
    BY <1>0, <1>4, NoLostAnswer DEF CreateParticipant, Yield
  <2>2. s \in DOMAIN session /\ session[s].active /\ session[s].channel = c /\ s \in Nat
    BY <1>1, <1>2, References DEF TrackerFits, Typed
  <2>3. r \in IntervalRows /\ r.session = s /\ r.user = u /\ r.active
    BY <2>2 DEF IntervalRows
  <2>4. interval \in Seq(IntervalRows)
    BY DEF TrackerFits, Typed
  <2> HIDE DEF r
  <2>5. /\ interval' \in Seq(IntervalRows) /\ n \notin DOMAIN interval /\ n \in Nat /\ n # 0
        /\ DOMAIN interval' = DOMAIN interval \cup {n} /\ interval'[n] = r
        /\ \A j \in DOMAIN interval : interval'[j] = interval[j] /\ j <= n
    BY <2>1, <2>3, <2>4, RowAppended
  <2> HIDE DEF n
  <2>6. mem[c] \in [session : Nat, parts : [Users -> Nat]] /\ mem \in [Channels -> [session : Nat, parts : [Users -> Nat]]]
    BY <1>2 DEF TrackerFits, Typed
  <2>7. /\ m \in [session : Nat, parts : [Users -> Nat]] /\ m.session = s /\ m.parts[u] = n
        /\ \A v \in Users : v # u => m.parts[v] = mem[c].parts[v]
        /\ mem' = [mem EXCEPT ![c] = m]
    BY <1>1, <2>1, <2>5, <2>6
  <2> HIDE DEF m, c
  <2>8. /\ mem' \in [Channels -> [session : Nat, parts : [Users -> Nat]]]
        /\ mem'[c] = m /\ \A d \in Channels : d # c => mem'[d] = mem[d]
    BY <1>2, <2>6, <2>7
  <2>9. ASSUME NEW i \in DOMAIN interval, Open(i) PROVE interval[i].user # u
    <3>1. SUFFICES ASSUME interval[i].user = u PROVE FALSE
      OBVIOUS
    <3>2. session[interval[i].session].channel = c
      BY <1>1, <1>2, <2>9, <3>1 DEF RecordsFit, MayBeIn, ChannelOf, c
    <3>3. interval[i].session \in DOMAIN session /\ session[interval[i].session].active
      BY <2>9, References DEF TrackerFits, RowsFit
    <3>4. interval[i].session = s
      BY <2>2, <3>2, <3>3 DEF TrackerFits, RowsFit, ActiveSessions
    <3> QED
      BY <1>4, <2>9, <3>1, <3>4 DEF ActiveOf, ActiveIntervals, Open
  <2>10. RowsFit'
    <3>1. \A i \in DOMAIN interval' : /\ interval'[i].session \in DOMAIN session
                                      /\ Open(i)' => session[interval'[i].session].active
      BY <2>2, <2>3, <2>5, References DEF TrackerFits, RowsFit, Open
    <3>2. ASSUME NEW i \in DOMAIN interval', NEW j \in DOMAIN interval', Open(i)',
                 interval'[j].user = interval'[i].user
          PROVE  /\ Open(j)' => j = i
                 /\ interval'[j].session = interval'[i].session => j <= i
      <4>1. CASE i \in DOMAIN interval /\ j \in DOMAIN interval
        BY <3>2, <4>1, <2>5 DEF TrackerFits, RowsFit, Open
      <4>2. CASE i = n /\ j \in DOMAIN interval
        BY <3>2, <4>2, <2>3, <2>5, <2>9 DEF Open
      <4>3. CASE i \in DOMAIN interval /\ j = n
        BY <3>2, <4>3, <2>3, <2>5, <2>9 DEF Open
      <4>4. CASE i = n /\ j = n
        BY <4>4, <2>5
      <4> QED
        BY <4>1, <4>2, <4>3, <4>4, <2>5
    <3> QED
      BY <3>1, <3>2, <1>1 DEF RowsFit, TrackerFits, ActiveSessions
  <2>11. MemoryFits'
    <3>1. ASSUME NEW d \in Channels, mem'[d].session # 0
          PROVE  mem'[d].session \in ActiveIn(d)'
      <4>1. mem'[d].session = mem[d].session
        BY <1>1, <2>7, <2>8
      <4> QED
        BY <3>1, <4>1, <1>1, References DEF ActiveIn, ActiveSessions
    <3>2. ASSUME NEW d \in Channels, NEW v \in Users, NEW k, k = mem'[d].parts[v], k # 0
          PROVE  Open(k)' /\ interval'[k].user = v /\ interval'[k].session = mem'[d].session
      <4>1. CASE d = c /\ v = u
        BY <3>2, <4>1, <2>3, <2>5, <2>7, <2>8 DEF Open
      <4>2. CASE ~(d = c /\ v = u)
        <5>1. k = mem[d].parts[v] /\ mem'[d].session = mem[d].session
          BY <3>2, <4>2, <1>1, <2>7, <2>8
        <5>2. Open(k) /\ interval[k].user = v /\ interval[k].session = mem[d].session
          BY <3>2, <5>1 DEF TrackerFits, MemoryFits
        <5> QED
          BY <5>1, <5>2, <2>5 DEF Open
      <4> QED
        BY <4>1, <4>2
    <3>3. ASSUME NEW d \in Channels, NEW i \in DOMAIN interval', Open(i)',
                 interval'[i].session = mem'[d].session
          PROVE  mem'[d].parts[interval'[i].user] # 0
      <4>1. mem'[d].session = mem[d].session
        BY <1>1, <2>7, <2>8
      <4>2. CASE i = n
        <5>1. d = c
          BY <3>3, <4>1, <4>2, <2>2, <2>3, <2>5, <1>1, References
        <5> QED
          BY <4>2, <5>1, <2>3, <2>5, <2>7, <2>8
      <4>3. CASE i \in DOMAIN interval
        <5>1. Open(i) /\ interval'[i] = interval[i] /\ interval[i].user # u /\ interval[i].user \in Users
          BY <3>3, <4>3, <2>5, <2>9, References DEF Open
        <5>2. mem[d].parts[interval[i].user] # 0
          BY <3>3, <4>1, <4>3, <5>1 DEF TrackerFits, MemoryFits
        <5> QED
          BY <5>1, <5>2, <2>7, <2>8
      <4> QED
        BY <4>2, <4>3, <2>5
    <3> QED
      BY <3>1, <3>2, <3>3 DEF MemoryFits
  <2>12. x \in HandlerRecs /\ x.pc = "done"
    BY DEF HandlerRecs, HandlerPCs
  <2> HIDE DEF x
  <2>13. Typed'
    <3>1. reaper' \in [pc : ReaperPCs, live : [Users -> Places], todo : SUBSET DOMAIN session',
                       session : Nat, absent : SUBSET DOMAIN interval']
      BY <1>1, <2>5 DEF TrackerFits, Typed
    <3> QED
      BY <1>1, <2>1, <2>5, <2>8, <2>12, <3>1 DEF TrackerFits, Typed, discord, HandlerRecs
  <2>14. BootFits' /\ ReaperFits'
    BY <1>1, <1>2 DEF BootFits, ReaperFits, TrackerFits
  <2>15. ASSUME NEW v \in Users, v # u PROVE UserFits(v)'
    BY ZenonT(40), <1>1, <2>1, <2>3, <2>5, <2>15, OthersStay DEF Blocking, Open
  <2>16. UserFits(u)'
    <3>1. /\ EventsLink(u)' /\ Event(u)' = Event(u) /\ handler'[u] = x /\ queue' = queue
          /\ MustBeIn(u)' = {c} /\ MayBeIn(u)' = {c}
      BY <1>1, <1>2, <2>1, <2>12, SameEvents DEF discord, c
    <3>2. \A i \in DOMAIN interval' : Open(i)' /\ interval'[i].user = u => i = n
      BY <2>5, <2>9 DEF Open
    <3>3. PICK k \in DOMAIN interval' : /\ k = n /\ interval'[k].active /\ interval'[k].user = u
                                        /\ session'[interval'[k].session].channel = c
      BY <1>1, <2>2, <2>3, <2>5
    <3>4. RecordsFit(u)'
      BY <3>1, <3>2, <3>3 DEF RecordsFit, ChannelOf, Open
    <3>5. HandlerFits(u)'
      BY <1>2, <2>1, <2>12, <3>1 DEF HandlerFits, Leaving, Blocking
    <3> QED
      BY <3>1, <3>4, <3>5 DEF UserFits
  <2> QED
    BY <2>10, <2>11, <2>13, <2>14, <2>15, <2>16 DEF TrackerFits
<1> QED
  BY <1>3, <1>4

-----------------------------------------------------------------------------
(* Voice events come and go *)

(* A user goes on relying on what it relies on while rows, memory and the *)
(* event loop are left alone.                                             *)
LEMMA UserUntouched ==
    ASSUME TrackerFits, RowsAlike, UNCHANGED <<mem, thread>>, NEW v \in Users,
           queue'[v] = queue[v], place'[v] = place[v], handler'[v] = handler[v]
    PROVE  UserFits(v)'
<1>1. EventsLink(v) /\ HandlerFits(v) /\ RecordsFit(v)
  BY DEF TrackerFits, UserFits
<1>2. EventsLink(v)'
  BY <1>1 DEF EventsLink
<1>3. HandlerFits(v)'
  BY <1>1 DEF HandlerFits, Event, RowsAlike, ActiveIn, ActiveSessions, ActiveOf, ActiveIntervals
<1>4. MayBeIn(v)' = MayBeIn(v) /\ MustBeIn(v)' = MustBeIn(v)
  BY DEF MayBeIn, MustBeIn, Event
<1>5. RecordsFit(v)'
  BY <1>1, <1>4 DEF RecordsFit, Open, ChannelOf, RowsAlike, TrackerFits, RowsFit
<1> QED
  BY <1>2, <1>3, <1>5 DEF UserFits

(* The first event is completed: the next one leads on from its place. *)
LEMMA CompleteKeeps ==
    ASSUME TrackerFits, NEW u \in Users, Complete(u)
    PROVE  TrackerFits'
<1> DEFINE q == queue[u]
           to == Event(u).to
<1>1. /\ handler[u].pc = "done" /\ queue' = [queue EXCEPT ![u] = Tail(q)]
      /\ handler' = [handler EXCEPT ![u] = Idle]
      /\ UNCHANGED <<place, rows, mem, boot, thread, reaper>>
  BY DEF Complete, At
<1>2. /\ boot.pc = "up" /\ q # <<>> /\ q \in Seq(VoiceEvents) /\ RecordsFit(u) /\ EventsLink(u)
      /\ Event(u) = q[1] /\ RowsAlike
  BY <1>1, Busy, SameRowsAlike DEF Event, TrackerFits, UserFits
<1>3. /\ Tail(q) \in Seq(VoiceEvents) /\ Len(q) \in Nat /\ Len(q) >= 1 /\ Len(Tail(q)) = Len(q) - 1
      /\ \A k \in 1 .. Len(q) - 1 : Tail(q)[k] = q[k + 1]
      /\ Tail(q) # <<>> <=> Len(q) > 1
  BY <1>2
<1>4. /\ Idle \in HandlerRecs /\ Idle.pc = "idle"
  BY DEF Idle, HandlerRecs, HandlerPCs
<1>5. /\ queue' \in [Users -> Seq(VoiceEvents)] /\ queue'[u] = Tail(q)
      /\ \A v \in Users : v # u => queue'[v] = queue[v]
      /\ handler' \in [Users -> HandlerRecs] /\ handler'[u] = Idle
      /\ \A v \in Users : v # u => handler'[v] = handler[v]
  BY <1>1, <1>3, <1>4 DEF TrackerFits, Typed, HandlerRecs
<1>6. Typed' /\ BootFits' /\ ReaperFits'
  BY <1>1, <1>2, <1>5 DEF TrackerFits, Typed, BootFits, ReaperFits, rows, HandlerRecs
<1>7. RowsFit' /\ MemoryFits'
  BY <1>1, <1>2, QuietRows
<1>8. ASSUME NEW v \in Users, v # u PROVE UserFits(v)'
  BY <1>1, <1>2, <1>5, <1>8, UserUntouched
<1>9. UserFits(u)'
  <2>1. EventsLink(u)'
    <3>1. /\ \A k \in 1 .. Len(q) : q[k].from # Nowhere \/ q[k].to # Nowhere
          /\ \A k \in 1 .. Len(q) - 1 : q[k].to = q[k + 1].from
          /\ q[Len(q)].to = place[u]
      BY <1>2 DEF EventsLink
    <3>2. \A k \in 1 .. Len(q) - 1 : k \in Nat /\ k + 1 \in 1 .. Len(q)
      BY <1>3
    <3>3. \A k \in 1 .. Len(Tail(q)) : Tail(q)[k].from # Nowhere \/ Tail(q)[k].to # Nowhere
      BY <1>3, <3>1, <3>2
    <3>4. ASSUME NEW k \in 1 .. Len(Tail(q)) - 1 PROVE Tail(q)[k].to = Tail(q)[k + 1].from
      <4>1. k \in 1 .. Len(q) - 1 /\ k + 1 \in 1 .. Len(q) - 1
        BY <1>3
      <4>2. Tail(q)[k] = q[k + 1] /\ Tail(q)[k + 1] = q[k + 1 + 1] /\ k + 1 \in 1 .. Len(q) - 1
        BY <1>3, <4>1
      <4> QED
        BY <3>1, <4>2
    <3>5. ASSUME Tail(q) # <<>> PROVE Tail(q)[Len(Tail(q))].to = place[u]
      <4>1. Len(q) - 1 \in 1 .. Len(q) - 1 /\ (Len(q) - 1) + 1 = Len(q)
        BY <1>3, <3>5
      <4>2. Tail(q)[Len(Tail(q))] = q[Len(q)]
        BY <1>3, <4>1
      <4> QED
        BY <3>1, <4>2
    <3> QED
      BY <1>1, <1>5, <3>3, <3>4, <3>5 DEF EventsLink
  <2>2. HandlerFits(u)'
    BY <1>4, <1>5 DEF HandlerFits, Leaving, Blocking
  <2>3. /\ \A i \in DOMAIN interval : Open(i) /\ interval[i].user = u => ChannelOf(i) = to
        /\ to # Nowhere => \E i \in DOMAIN interval : Open(i) /\ interval[i].user = u /\ ChannelOf(i) = to
    BY <1>1, <1>2 DEF RecordsFit, MayBeIn, MustBeIn
  <2>4. to \in MayBeIn(u)' /\ MustBeIn(u)' \subseteq {to}
    <3>1. CASE Tail(q) = <<>>
      <4>1. place[u] = to
        <5>1. ~(Len(q) > 1)
          BY <1>3, <3>1
        <5> HIDE DEF q
        <5>2. Len(q) = 1
          BY <1>3, <5>1
        <5> QED
          BY <1>2, <5>2 DEF EventsLink, q
      <4> QED
        BY <1>1, <1>5, <3>1, <4>1 DEF MayBeIn, MustBeIn
    <3>2. CASE Tail(q) # <<>>
      <4>1. 1 \in 1 .. Len(q) - 1 /\ Head(Tail(q)) = Tail(q)[1] /\ Tail(q)[1] = q[2]
        BY <1>3, <3>2
      <4>2. q[1].to = q[1 + 1].from /\ q[1 + 1] = q[2]
        BY <1>2, <4>1 DEF EventsLink
      <4>3. Event(u)' = q[2] /\ to = q[1].to
        BY <1>2, <1>5, <4>1 DEF Event
      <4>4. Event(u)'.from = to
        BY <4>2, <4>3
      <4> QED
        BY <1>4, <1>5, <3>2, <4>4 DEF MayBeIn, MustBeIn
    <3> QED
      BY <3>1, <3>2
  <2>5. \A i \in DOMAIN interval : /\ Open(i)' <=> Open(i)
                                   /\ Open(i) => ChannelOf(i)' = ChannelOf(i)
    BY <1>1, <1>2 DEF Open, ChannelOf, rows
  <2> HIDE DEF to
  <2>6. RecordsFit(u)'
    <3>1. interval' = interval
      BY <1>1 DEF rows
    <3> QED
      BY <2>3, <2>4, <2>5, <3>1 DEF RecordsFit
  <2> QED
    BY <2>1, <2>2, <2>6 DEF UserFits
<1> QED
  BY <1>6, <1>7, <1>8, <1>9 DEF TrackerFits

(* A voice state update is queued behind the others of its user. *)
LEMMA MoveKeeps ==
    ASSUME TrackerFits, NEW u \in Users, NEW c \in Places, Move(u, c)
    PROVE  TrackerFits'
<1> DEFINE q == queue[u]
           e == [from |-> place[u], to |-> c]
<1>1. /\ c # Nowhere \/ place[u] # Nowhere
      /\ place' = [place EXCEPT ![u] = c] /\ queue' = [queue EXCEPT ![u] = Append(q, e)]
      /\ UNCHANGED <<rows, mem, boot, handler, thread, reaper>>
  BY DEF Move, tracker
<1>2. /\ e \in VoiceEvents /\ e.from = place[u] /\ e.to = c /\ q \in Seq(VoiceEvents)
      /\ RecordsFit(u) /\ EventsLink(u) /\ HandlerFits(u) /\ RowsAlike /\ place[u] \in Places
  BY <1>1, SameRowsAlike DEF TrackerFits, UserFits, Typed, VoiceEvents
<1> HIDE DEF e
<1>3. /\ Append(q, e) \in Seq(VoiceEvents) /\ Len(q) \in Nat /\ Len(Append(q, e)) = Len(q) + 1
      /\ \A k \in 1 .. Len(q) : Append(q, e)[k] = q[k]
      /\ Append(q, e)[Len(q) + 1] = e /\ Append(q, e) # <<>>
  BY <1>2
<1>4. /\ queue' \in [Users -> Seq(VoiceEvents)] /\ queue'[u] = Append(q, e)
      /\ \A v \in Users : v # u => queue'[v] = queue[v] /\ place'[v] = place[v]
      /\ place' \in [Users -> Places] /\ place'[u] = c
  BY <1>1, <1>3 DEF TrackerFits, Typed
<1>5. Typed' /\ BootFits' /\ ReaperFits'
  <2> HIDE DEF q
  <2>1. Typed'
    BY <1>1, <1>4 DEF TrackerFits, Typed, rows
  <2>2. BootFits' /\ ReaperFits'
    BY <1>1 DEF TrackerFits, BootFits, ReaperFits, rows, ActiveIntervals
  <2> QED
    BY <2>1, <2>2
<1>6. RowsFit' /\ MemoryFits'
  BY <1>1, <1>2, QuietRows
<1>7. ASSUME NEW v \in Users, v # u PROVE UserFits(v)'
  BY <1>1, <1>2, <1>4, <1>7, UserUntouched
<1>8. UserFits(u)'
  <2>1. EventsLink(u)'
    <3>1. \A k \in 1 .. Len(q) + 1 : Append(q, e)[k].from # Nowhere \/ Append(q, e)[k].to # Nowhere
      <4>1. ASSUME NEW k \in 1 .. Len(q) + 1
            PROVE  Append(q, e)[k].from # Nowhere \/ Append(q, e)[k].to # Nowhere
        <5>1. CASE k = Len(q) + 1
          BY <1>1, <1>2, <1>3, <5>1
        <5>2. CASE k \in 1 .. Len(q)
          BY <1>2, <1>3, <5>2 DEF EventsLink
        <5> QED
          BY <1>3, <5>1, <5>2
      <4> QED
        BY <4>1
    <3>2. ASSUME NEW k \in 1 .. Len(q) PROVE Append(q, e)[k].to = Append(q, e)[k + 1].from
      <4>1. CASE k = Len(q)
        <5>1. q # <<>> /\ Append(q, e)[k] = q[Len(q)] /\ Append(q, e)[k + 1] = e
          BY <1>2, <1>3, <4>1
        <5> QED
          BY <1>2, <5>1 DEF EventsLink
      <4>2. CASE k \in 1 .. Len(q) - 1
        <5>1. k + 1 \in 1 .. Len(q)
          BY <1>3, <4>2
        <5> QED
          BY <1>2, <1>3, <4>2, <5>1 DEF EventsLink
      <4> QED
        BY <1>3, <4>1, <4>2
    <3>3. Append(q, e)[Len(Append(q, e))].to = c
      BY <1>2, <1>3
    <3>4. 1 .. Len(Append(q, e)) - 1 = 1 .. Len(q) /\ 1 .. Len(Append(q, e)) = 1 .. Len(q) + 1
      BY <1>3
    <3> HIDE DEF q
    <3> QED
      BY <1>4, <3>1, <3>2, <3>3, <3>4 DEF EventsLink
  <2>2. CASE q = <<>>
    <3>1. handler'[u] = handler[u] /\ handler[u].pc = "idle"
      BY <1>1, <1>2, <2>2 DEF HandlerFits
    <3>2. HandlerFits(u)'
      BY <1>1, <3>1 DEF HandlerFits, Blocking, Leaving
    <3>3. Head(Append(q, e)) = e
      BY <1>3, <2>2
    <3>4. MayBeIn(u)' = {place[u], c} /\ MustBeIn(u)' = {} /\ MayBeIn(u) = {place[u]}
      BY <1>2, <1>3, <1>4, <2>2, <3>1, <3>3 DEF MayBeIn, MustBeIn, Event
    <3>5. RecordsFit(u)'
      BY <1>1, <1>2, <3>4 DEF RecordsFit, Open, ChannelOf, rows
    <3> QED
      BY <2>1, <3>2, <3>5 DEF UserFits
  <2>3. CASE q # <<>>
    <3>1. Event(u)' = Event(u)
      <4>1. Len(q) >= 1 /\ Head(q) = q[1] /\ Head(Append(q, e)) = Append(q, e)[1]
        BY <1>2, <1>3, <2>3
      <4> QED
        BY <1>3, <1>4, <4>1 DEF Event
    <3>2. HandlerFits(u)'
      BY <1>1, <1>2, <1>3, <1>4, <3>1
         DEF HandlerFits, rows, ActiveIn, ActiveSessions, ActiveOf, ActiveIntervals
    <3>3. MayBeIn(u)' = MayBeIn(u) /\ MustBeIn(u)' = MustBeIn(u)
      BY <1>1, <1>3, <1>4, <2>3, <3>1 DEF MayBeIn, MustBeIn
    <3>4. RecordsFit(u)'
      BY <1>1, <1>2, <3>3 DEF RecordsFit, Open, ChannelOf, rows
    <3> QED
      BY <2>1, <3>2, <3>4 DEF UserFits
  <2> QED
    BY <2>2, <2>3
<1> QED
  BY <1>5, <1>6, <1>7, <1>8 DEF TrackerFits

-----------------------------------------------------------------------------
(* Starts and crashes *)

(* A step of the start or of the reaper that leaves rows and memory alone. *)
LEMMA QuietStep ==
    ASSUME TrackerFits, RowsAlike, UNCHANGED <<discord, mem, handler, thread>>,
           boot' \in [pc : BootPCs, todo : SUBSET DOMAIN session, session : Nat, replay : BOOLEAN],
           reaper' \in [pc : ReaperPCs, live : [Users -> Places], todo : SUBSET DOMAIN session,
                        session : Nat, absent : SUBSET DOMAIN interval],
           BootFits', ReaperFits'
    PROVE  TrackerFits'
<1>1. Typed'
  BY DEF TrackerFits, Typed, RowsAlike, discord
<1>2. RowsFit' /\ MemoryFits'
  BY QuietRows
<1>3. ASSUME NEW v \in Users PROVE UserFits(v)'
  BY UserUntouched DEF discord
<1> QED
  BY <1>1, <1>2, <1>3 DEF TrackerFits

(* The same, of the start. *)
LEMMA QuietBoot ==
    ASSUME TrackerFits, RowsAlike, UNCHANGED <<discord, mem, handler, thread, reaper>>,
           NEW b, boot' = b, b.pc \notin {"down", "close"}, boot.pc # "up",
           b \in [pc : BootPCs, todo : SUBSET DOMAIN session, session : Nat, replay : BOOLEAN],
           b.pc # "up" /\ ~b.replay => \A c \in Channels : mem[c].session \notin b.todo,
           b.pc \in {"publish", "mark"} => b.session \in DOMAIN session
    PROVE  TrackerFits'
<1>1. BootFits'
  BY DEF BootFits, TrackerFits, RowsAlike
<1>2. ReaperFits'
  BY DEF ReaperFits, TrackerFits, RowsAlike
<1>3. reaper' \in [pc : ReaperPCs, live : [Users -> Places], todo : SUBSET DOMAIN session,
                   session : Nat, absent : SUBSET DOMAIN interval]
  BY DEF TrackerFits, Typed
<1> QED
  BY <1>1, <1>2, <1>3, QuietStep

BootRecs == [pc : BootPCs, todo : SUBSET DOMAIN session, session : Nat, replay : BOOLEAN]

(* The quiet steps of a start, exceptions included. *)
LEMMA QuietBootKeeps ==
    ASSUME TrackerFits,
           \/ ListActive \/ BootPublish \/ BootMark \/ ListUntold \/ Ready \/ BootSkips
           \/ \E s \in DOMAIN session : Replay(s)
    PROVE  TrackerFits'
<1>1. /\ boot \in BootRecs /\ BootFits /\ session \in Seq(SessionRows)
  BY DEF TrackerFits, Typed, BootRecs
<1>2. CASE ListActive
  <2> DEFINE b == [boot EXCEPT !.pc = "each", !.todo = ActiveSessions]
  <2>1. boot.pc = "down" /\ boot' = b /\ UNCHANGED <<discord, rows, mem, handler, thread, reaper>>
    BY <1>2 DEF ListActive
  <2>2. b \in BootRecs /\ b.pc = "each" /\ b.todo = ActiveSessions
    BY <1>1 DEF BootRecs, BootPCs, ActiveSessions
  <2>3. \A c \in Channels : mem[c].session = 0
    BY <1>1, <2>1 DEF BootFits, NoEntry
  <2>4. \A c \in Channels : mem[c].session \notin b.todo
    BY <1>1, <2>2, <2>3 DEF ActiveSessions
  <2> HIDE DEF b
  <2> QED
    BY <2>1, <2>2, <2>4, SameRowsAlike, QuietBoot DEF TrackerFits, BootRecs
<1>3. CASE BootPublish
  <2> DEFINE b == [boot EXCEPT !.pc = "mark"]
  <2>1. boot.pc = "publish" /\ boot' = b /\ UNCHANGED <<discord, rows, mem, handler, thread, reaper>>
    BY <1>3 DEF BootPublish
  <2>2. b \in BootRecs /\ b.pc = "mark" /\ b.todo = boot.todo /\ b.replay = boot.replay /\ b.session = boot.session
    BY <1>1 DEF BootRecs, BootPCs
  <2> HIDE DEF b
  <2> QED
    BY <1>1, <2>1, <2>2, SameRowsAlike, QuietBoot DEF TrackerFits, BootFits, BootRecs
<1>4. CASE BootMark
  <2> DEFINE b == [boot EXCEPT !.pc = "each"]
  <2>1. /\ boot.pc = "mark" /\ boot' = b /\ MarkTold(boot.session)
        /\ UNCHANGED <<discord, interval, mem, handler, thread, reaper>>
    BY <1>4 DEF BootMark
  <2>2. b \in BootRecs /\ b.pc = "each" /\ b.todo = boot.todo /\ b.replay = boot.replay
    BY <1>1 DEF BootRecs, BootPCs
  <2>3. PICK s \in DOMAIN session : MarkTold(s)
    BY <1>1, <2>1 DEF BootFits
  <2>4. RowsAlike
    BY <1>1, <2>1, <2>3, RowIsTold DEF RowsAlike
  <2> HIDE DEF b
  <2> QED
    BY <1>1, <2>1, <2>2, <2>4, QuietBoot DEF BootFits, BootRecs
<1>5. CASE ListUntold
  <2> DEFINE T == {s \in DOMAIN session : ~session[s].active /\ ~session[s].told}
             b == [boot EXCEPT !.replay = TRUE, !.todo = T]
  <2>1. boot.pc = "each" /\ boot' = b /\ UNCHANGED <<discord, rows, mem, handler, thread, reaper>>
    BY <1>5 DEF ListUntold
  <2>2. T \subseteq DOMAIN session
    OBVIOUS
  <2> HIDE DEF T
  <2>3. b \in BootRecs /\ b.pc = "each" /\ b.replay
    BY <1>1, <2>1, <2>2 DEF BootRecs
  <2> HIDE DEF b
  <2> QED
    BY <2>1, <2>3, SameRowsAlike, QuietBoot DEF TrackerFits, BootRecs
<1>6. CASE Ready
  <2> DEFINE b == [Down EXCEPT !.pc = "up"]
  <2>1. boot.pc = "each" /\ boot' = b /\ UNCHANGED <<discord, rows, mem, handler, thread, reaper>>
    BY <1>6 DEF Ready
  <2>2. b \in BootRecs /\ b.pc = "up"
    BY DEF BootRecs, BootPCs, Down
  <2> HIDE DEF b
  <2> QED
    BY <2>1, <2>2, SameRowsAlike, QuietBoot DEF TrackerFits, BootRecs
<1>7. CASE BootSkips
  <2>1. /\ boot.pc \in {"each", "close", "publish", "mark"}
        /\ UNCHANGED <<discord, rows, mem, handler, thread, reaper>>
    BY <1>7 DEF BootSkips
  <2>2. PICK b \in BootRecs : boot' = b /\ b.pc = "each" /\ b.replay = boot.replay /\ b.todo \subseteq boot.todo
    <3>1. CASE boot.pc = "each"
      <4>1. PICK s \in boot.todo : boot' = [boot EXCEPT !.todo = @ \ {s}]
        BY <1>7, <3>1 DEF BootSkips
      <4> QED
        BY <1>1, <3>1, <4>1 DEF BootRecs
    <3>2. CASE boot.pc # "each"
      BY <1>1, <1>7, <3>2 DEF BootSkips, BootRecs, BootPCs
    <3> QED
      BY <3>1, <3>2
  <2> QED
    BY <1>1, <2>1, <2>2, SameRowsAlike, QuietBoot DEF TrackerFits, BootFits, BootRecs
<1>8. ASSUME NEW s \in DOMAIN session, Replay(s) PROVE TrackerFits'
  <2> DEFINE b == [boot EXCEPT !.pc = "publish", !.session = s, !.todo = @ \ {s}]
  <2>1. /\ boot.pc = "each" /\ boot.replay /\ boot' = b
        /\ UNCHANGED <<discord, rows, mem, handler, thread, reaper>>
    BY <1>8 DEF Replay
  <2>2. s \in Nat
    BY <1>1
  <2>3. b \in BootRecs /\ b.pc = "publish" /\ b.replay = boot.replay /\ b.session = s
    BY <1>1, <2>2 DEF BootRecs, BootPCs
  <2> HIDE DEF b
  <2> QED
    BY <2>1, <2>3, SameRowsAlike, QuietBoot DEF TrackerFits, BootRecs
<1> QED
  BY <1>2, <1>3, <1>4, <1>5, <1>6, <1>7, <1>8

(* Users go on as they are while nobody's handler runs and nobody's rows *)
(* change.                                                               *)
LEMMA IdleUsersStay ==
    ASSUME TrackerFits, UNCHANGED <<discord, handler, interval>>, boot.pc # "up",
           DOMAIN session \subseteq DOMAIN session',
           \A s \in DOMAIN session : session'[s].channel = session[s].channel
    PROVE  \A v \in Users : UserFits(v)'
<1>1. \A v \in Users : handler[v].pc \notin Blocking
  BY DEF TrackerFits, BootFits, Blocking
<1> QED
  BY <1>1, UserStays DEF discord, Open

(* An active session is loaded, with everybody in it, or found empty. *)
LEMMA LoadKeeps ==
    ASSUME TrackerFits, NEW s \in DOMAIN session, Load(s)
    PROVE  TrackerFits'
<1>1. /\ boot.pc = "each" /\ ~boot.replay /\ s \in boot.todo /\ boot \in BootRecs /\ s \in Nat
      /\ UNCHANGED <<discord, rows, handler, thread, reaper>>
  BY DEF Load, TrackerFits, Typed, BootRecs
<1>2. RowsAlike /\ \A c \in Channels : mem[c].session \notin boot.todo
  BY <1>1, SameRowsAlike DEF TrackerFits, BootFits
<1>3. RowsFit' /\ ReaperFits' /\ \A v \in Users : UserFits(v)'
  BY <1>1, <1>2, IdleUsersStay DEF RowsFit, ReaperFits, ActiveSessions, Open, TrackerFits, rows
<1>4. CASE ActiveIntervals(s) = {}
  <2> DEFINE b == [boot EXCEPT !.pc = "close", !.session = s, !.todo = @ \ {s}]
  <2>1. boot' = b /\ mem' = mem
    BY <1>4 DEF Load
  <2>2. b \in BootRecs /\ b.pc = "close" /\ b.session = s /\ b.todo \subseteq boot.todo
    BY <1>1 DEF BootRecs, BootPCs
  <2> HIDE DEF b
  <2>3. \A c \in Channels : mem'[c].session \notin boot'.todo /\ mem'[c].session # boot'.session
    BY <1>1, <1>2, <2>1, <2>2
  <2>4. ActiveIntervals(boot.session)' = {} /\ boot'.session \in DOMAIN session'
    BY <1>1, <1>4, <2>1, <2>2 DEF ActiveIntervals, rows
  <2>5. BootFits'
    BY <1>1, <2>1, <2>2, <2>3, <2>4 DEF BootFits, TrackerFits
  <2>6. MemoryFits'
    BY <1>2, <2>1, QuietRows
  <2>7. Typed'
    BY <1>1, <2>1, <2>2 DEF Typed, TrackerFits, BootRecs, rows, discord
  <2> QED
    BY <1>3, <2>5, <2>6, <2>7 DEF TrackerFits
<1>5. CASE ActiveIntervals(s) # {}
  <2> DEFINE b == [boot EXCEPT !.todo = @ \ {s}]
             parts == [u \in Users |-> IF ActiveOf(s, u) = {} THEN 0 ELSE CHOOSE i \in ActiveOf(s, u) : TRUE]
             m == [session |-> s, parts |-> parts]
             c == session[s].channel
  <2>1. boot' = b /\ mem' = [mem EXCEPT ![c] = m]
    BY <1>5 DEF Load
  <2>2. b \in BootRecs /\ b.pc = "each" /\ b.todo = boot.todo \ {s}
    BY <1>1 DEF BootRecs
  <2> HIDE DEF b
  <2>3. c \in Channels /\ session[s].active
    BY <1>5, References DEF ActiveIntervals, TrackerFits, RowsFit, Open
  <2>4. ASSUME NEW u \in Users
        PROVE  /\ parts[u] # 0 => parts[u] \in ActiveOf(s, u)
               /\ ActiveOf(s, u) # {} => parts[u] # 0
               /\ parts[u] \in Nat
    <3>1. ActiveOf(s, u) # {} => parts[u] \in ActiveOf(s, u)
      OBVIOUS
    <3>2. \A i \in ActiveOf(s, u) : i \in Nat /\ i # 0
      BY DEF ActiveOf, ActiveIntervals, TrackerFits, Typed
    <3> QED
      BY <3>1, <3>2
  <2>5. parts \in [Users -> Nat]
    BY <2>4
  <2> HIDE DEF parts
  <2>6. m \in [session : Nat, parts : [Users -> Nat]] /\ m.session = s /\ m.parts = parts
    BY <1>1, <2>5
  <2> HIDE DEF m, c
  <2>7. /\ mem' \in [Channels -> [session : Nat, parts : [Users -> Nat]]]
        /\ mem'[c] = m /\ \A d \in Channels : d # c => mem'[d] = mem[d]
    BY <2>1, <2>3, <2>6 DEF TrackerFits, Typed
  <2>8. MemoryFits'
    <3>1. ASSUME NEW d \in Channels, mem'[d].session # 0
          PROVE  mem'[d].session \in ActiveIn(d)'
      <4>1. CASE d = c
        BY <4>1, <1>1, <2>3, <2>6, <2>7 DEF ActiveIn, ActiveSessions, rows, c
      <4>2. CASE d # c
        BY <3>1, <4>2, <1>1, <2>7, References DEF ActiveIn, ActiveSessions, rows
      <4> QED
        BY <4>1, <4>2
    <3>2. ASSUME NEW d \in Channels, NEW v \in Users, NEW k, k = mem'[d].parts[v], k # 0
          PROVE  Open(k)' /\ interval'[k].user = v /\ interval'[k].session = mem'[d].session
      <4>1. CASE d = c
        <5>1. k \in ActiveOf(s, v) /\ mem'[d].session = s
          BY <3>2, <4>1, <2>4, <2>6, <2>7
        <5> QED
          BY <5>1, <1>1 DEF ActiveOf, ActiveIntervals, Open, rows
      <4>2. CASE d # c
        BY <3>2, <4>2, <1>1, <2>7 DEF TrackerFits, MemoryFits, Open, rows
      <4> QED
        BY <4>1, <4>2
    <3>3. ASSUME NEW d \in Channels, NEW i \in DOMAIN interval', Open(i)',
                 interval'[i].session = mem'[d].session
          PROVE  mem'[d].parts[interval'[i].user] # 0
      <4>0. i \in DOMAIN interval /\ Open(i) /\ interval' = interval /\ interval[i].user \in Users
        BY <3>3, <1>1, References DEF Open, rows
      <4>1. CASE d = c
        <5>1. i \in ActiveOf(s, interval[i].user)
          BY <3>3, <4>0, <4>1, <2>6, <2>7 DEF ActiveOf, ActiveIntervals, Open
        <5> QED
          BY <4>0, <4>1, <5>1, <2>4, <2>6, <2>7
      <4>2. CASE d # c
        BY <3>3, <4>0, <4>2, <2>7 DEF TrackerFits, MemoryFits
      <4> QED
        BY <4>1, <4>2
    <3> QED
      BY <3>1, <3>2, <3>3 DEF MemoryFits
  <2>9. \A d \in Channels : mem'[d].session \notin boot'.todo
    BY <1>2, <2>1, <2>2, <2>6, <2>7
  <2>10. BootFits'
    BY <1>1, <2>1, <2>2, <2>9 DEF BootFits, TrackerFits
  <2>11. Typed'
    BY <1>1, <2>1, <2>2, <2>7 DEF Typed, TrackerFits, BootRecs, rows, discord
  <2> QED
    BY <1>3, <2>8, <2>10, <2>11 DEF TrackerFits
<1> QED
  BY <1>4, <1>5

(* A start closes a session nobody is in. *)
LEMMA BootCloseKeeps ==
    ASSUME TrackerFits, BootClose
    PROVE  TrackerFits'
<1> DEFINE b == [boot EXCEPT !.pc = "publish"]
<1>0. PICK s : s = boot.session
  OBVIOUS
<1>1. /\ boot.pc = "close" /\ CloseRow(s) /\ boot' = b /\ boot \in BootRecs
      /\ UNCHANGED <<discord, interval, mem, handler, thread, reaper>>
  BY <1>0 DEF BootClose, TrackerFits, Typed, BootRecs
<1>2. /\ s \in DOMAIN session /\ ActiveIntervals(s) = {} /\ \A c \in Channels : mem[c].session # s
      /\ ~boot.replay => \A c \in Channels : mem[c].session \notin boot.todo
  BY <1>0, <1>1 DEF TrackerFits, BootFits
<1>3. b \in BootRecs /\ b.pc = "publish" /\ b.session = s /\ b.todo = boot.todo /\ b.replay = boot.replay
  BY <1>0, <1>1 DEF BootRecs, BootPCs
<1> HIDE DEF b
<1>4. /\ RowsFit' /\ session' \in Seq(SessionRows) /\ DOMAIN session' = DOMAIN session
      /\ \A t \in DOMAIN session : /\ session'[t].channel = session[t].channel
                                   /\ t # s => session'[t].active = session[t].active
  BY <1>1, <1>2, EmptySessionCloses
<1>5. MemoryFits'
  <2>1. ASSUME NEW d \in Channels, mem[d].session # 0
        PROVE  mem[d].session \in ActiveIn(d)'
    BY <2>1, <1>2, <1>4, References DEF ActiveIn, ActiveSessions
  <2> QED
    BY <2>1, <1>1 DEF MemoryFits, TrackerFits, Open
<1>6. Typed'
  BY <1>1, <1>3, <1>4 DEF Typed, TrackerFits, BootRecs, discord
<1>7. BootFits' /\ ReaperFits'
  BY <1>1, <1>2, <1>3, <1>4 DEF BootFits, ReaperFits, TrackerFits
<1>8. \A v \in Users : UserFits(v)'
  BY <1>1, <1>4, IdleUsersStay
<1> QED
  BY <1>4, <1>5, <1>6, <1>7, <1>8 DEF TrackerFits

(* A crash takes the memory and the handlers; the rows and the events stay. *)
LEMMA CrashKeeps ==
    ASSUME TrackerFits, Crash
    PROVE  TrackerFits'
<1>1. /\ boot' = Down /\ mem' = [c \in Channels |-> NoEntry]
      /\ handler' = [u \in Users |-> Idle] /\ thread' = Nobody
      /\ UNCHANGED <<discord, rows, reaper>>
  BY DEF Crash
<1>2. RowsAlike
  BY <1>1, SameRowsAlike DEF TrackerFits
<1>3. /\ NoEntry \in [session : Nat, parts : [Users -> Nat]] /\ NoEntry.session = 0
      /\ \A v \in Users : NoEntry.parts[v] = 0
  BY DEF NoEntry
<1>4. Typed'
  <2>1. Down \in BootRecs /\ Idle \in HandlerRecs
    BY DEF Down, Idle, BootRecs, BootPCs, HandlerRecs, HandlerPCs
  <2>2. boot' \in [pc : BootPCs, todo : SUBSET DOMAIN session', session : Nat, replay : BOOLEAN]
    BY <1>1, <2>1 DEF BootRecs, rows
  <2> QED
    BY <1>1, <1>3, <2>1, <2>2 DEF Typed, TrackerFits, HandlerRecs, rows, discord
<1>5. RowsFit' /\ ReaperFits'
  BY <1>1 DEF RowsFit, ReaperFits, ActiveSessions, Open, TrackerFits, rows
<1>6. MemoryFits'
  <2>1. \A i \in DOMAIN interval' : interval'[i].session # 0
    BY <1>1, References DEF rows
  <2>2. \A d \in Channels : mem'[d].session = 0 /\ \A v \in Users : mem'[d].parts[v] = 0
    BY <1>1, <1>3
  <2> QED
    BY <2>1, <2>2 DEF MemoryFits
<1>7. BootFits'
  BY <1>1 DEF BootFits, Down, Idle, NoEntry
<1>8. ASSUME NEW v \in Users PROVE UserFits(v)'
  <2>1. EventsLink(v) /\ HandlerFits(v) /\ RecordsFit(v) /\ handler'[v] = Idle /\ Idle.pc = "idle"
    BY <1>1 DEF TrackerFits, UserFits, Idle
  <2>2. EventsLink(v)'
    BY <1>1, <2>1 DEF EventsLink, discord
  <2>3. HandlerFits(v)'
    BY <2>1 DEF HandlerFits, Blocking, Leaving
  <2>4. MayBeIn(v) \subseteq MayBeIn(v)' /\ MustBeIn(v)' \subseteq MustBeIn(v)
    BY <1>1, <2>1 DEF MayBeIn, MustBeIn, Event, discord
  <2>5. \A i \in DOMAIN interval : Open(i)' = Open(i) /\ ChannelOf(i)' = ChannelOf(i)
    BY <1>1 DEF Open, ChannelOf, rows
  <2>6. interval' = interval
    BY <1>1 DEF rows
  <2>7. RecordsFit(v)'
    BY <2>1, <2>4, <2>5, <2>6 DEF RecordsFit
  <2> QED
    BY <2>2, <2>3, <2>7 DEF UserFits
<1> QED
  BY <1>4, <1>5, <1>6, <1>7, <1>8 DEF TrackerFits

-----------------------------------------------------------------------------
(* The gateway's reaper *)

ReaperRecs == [pc : ReaperPCs, live : [Users -> Places], todo : SUBSET DOMAIN session,
               session : Nat, absent : SUBSET DOMAIN interval]

(* A step of the reaper that leaves rows and memory alone. *)
LEMMA QuietReap ==
    ASSUME TrackerFits, RowsAlike, UNCHANGED <<discord, tracker>>,
           NEW r \in ReaperRecs, reaper' = r,
           r.pc \in {"part", "close", "publish", "mark"} => r.session \in DOMAIN session
    PROVE  TrackerFits'
<1>1. BootFits'
  BY DEF BootFits, TrackerFits, RowsAlike, tracker, ActiveIntervals
<1>2. ReaperFits'
  BY DEF ReaperFits, RowsAlike
<1>3. boot' \in [pc : BootPCs, todo : SUBSET DOMAIN session, session : Nat, replay : BOOLEAN]
  BY DEF TrackerFits, Typed, tracker
<1> QED
  BY <1>1, <1>2, <1>3, QuietStep DEF tracker, ReaperRecs

(* The quiet steps of a round. *)
LEMMA QuietReapKeeps ==
    ASSUME TrackerFits,
           \/ ReapStart \/ ReapCheck \/ ReapPublish \/ ReapMark \/ ReapEnd \/ ReapFails
           \/ \E s \in DOMAIN session : ReapSession(s)
    PROVE  TrackerFits'
<1>1. /\ reaper \in ReaperRecs /\ ReaperFits /\ session \in Seq(SessionRows) /\ place \in [Users -> Places]
  BY DEF TrackerFits, Typed, ReaperRecs
<1>2. Resting \in ReaperRecs /\ Resting.pc = "idle"
  BY DEF Resting, ReaperRecs, ReaperPCs, Places
<1>3. CASE ReapStart
  <2> DEFINE r == [Resting EXCEPT !.pc = "each", !.live = place, !.todo = ActiveSessions]
  <2>1. reaper' = r /\ UNCHANGED <<discord, rows, tracker>>
    BY <1>3 DEF ReapStart
  <2>2. r \in ReaperRecs /\ r.pc = "each"
    BY <1>1, <1>2 DEF ReaperRecs, ReaperPCs, ActiveSessions
  <2> HIDE DEF r
  <2> QED
    BY <2>1, <2>2, SameRowsAlike, QuietReap DEF TrackerFits
<1>4. CASE ReapCheck
  <2>1. PICK pc \in {"each", "close"} : reaper' = [reaper EXCEPT !.pc = pc]
    BY <1>4 DEF ReapCheck
  <2> DEFINE r == [reaper EXCEPT !.pc = pc]
  <2>2. reaper' = r /\ UNCHANGED <<discord, rows, tracker>> /\ reaper.pc = "part"
    BY <1>4, <2>1 DEF ReapCheck
  <2>3. r \in ReaperRecs /\ r.pc = pc /\ r.session = reaper.session
    BY <1>1 DEF ReaperRecs, ReaperPCs
  <2> HIDE DEF r
  <2> QED
    BY <1>1, <2>2, <2>3, SameRowsAlike, QuietReap DEF TrackerFits, ReaperFits
<1>5. CASE ReapPublish
  <2> DEFINE r == [reaper EXCEPT !.pc = "mark"]
  <2>1. reaper' = r /\ UNCHANGED <<discord, rows, tracker>> /\ reaper.pc = "publish"
    BY <1>5 DEF ReapPublish
  <2>2. r \in ReaperRecs /\ r.pc = "mark" /\ r.session = reaper.session
    BY <1>1 DEF ReaperRecs, ReaperPCs
  <2> HIDE DEF r
  <2> QED
    BY <1>1, <2>1, <2>2, SameRowsAlike, QuietReap DEF TrackerFits, ReaperFits
<1>6. CASE ReapMark
  <2> DEFINE r == [reaper EXCEPT !.pc = "each"]
  <2>1. reaper' = r /\ UNCHANGED <<discord, interval, tracker>> /\ reaper.pc = "mark" /\ MarkTold(reaper.session)
    BY <1>6 DEF ReapMark
  <2>2. r \in ReaperRecs /\ r.pc = "each"
    BY <1>1 DEF ReaperRecs, ReaperPCs
  <2>3. PICK s \in DOMAIN session : MarkTold(s)
    BY <1>1, <2>1 DEF ReaperFits
  <2>4. RowsAlike
    BY <1>1, <2>1, <2>3, RowIsTold DEF RowsAlike
  <2> HIDE DEF r
  <2> QED
    BY <2>1, <2>2, <2>4, QuietReap
<1>7. CASE ReapEnd
  BY <1>2, <1>7, SameRowsAlike, QuietReap DEF TrackerFits, ReapEnd
<1>8. CASE ReapFails
  <2>1. UNCHANGED <<discord, rows, tracker>>
    BY <1>8 DEF ReapFails
  <2>2. PICK r \in ReaperRecs : reaper' = r /\ r.pc \in {"each", "idle"}
    <3>1. CASE reaper.pc \in {"publish", "mark"}
      <4> DEFINE r == [reaper EXCEPT !.pc = "each"]
      <4>1. r \in ReaperRecs /\ r.pc = "each"
        BY <1>1 DEF ReaperRecs, ReaperPCs
      <4> QED
        BY <1>8, <3>1, <4>1 DEF ReapFails
    <3>2. CASE reaper.pc \notin {"publish", "mark"}
      BY <1>2, <1>8, <3>2 DEF ReapFails
    <3> QED
      BY <3>1, <3>2
  <2> QED
    BY <2>1, <2>2, SameRowsAlike, QuietReap DEF TrackerFits
<1>9. ASSUME NEW s \in DOMAIN session, ReapSession(s) PROVE TrackerFits'
  <2> DEFINE A == {i \in ActiveIntervals(s) : reaper.live[interval[i].user] # session[s].channel}
             r == [reaper EXCEPT !.pc = "part", !.session = s, !.todo = @ \ {s}, !.absent = A]
  <2>1. reaper' = r /\ UNCHANGED <<discord, rows, tracker>>
    BY <1>9 DEF ReapSession
  <2>2. A \subseteq DOMAIN interval /\ s \in Nat
    BY <1>1 DEF ActiveIntervals
  <2> HIDE DEF A
  <2>3. r \in ReaperRecs /\ r.session = s
    BY <1>1, <2>2 DEF ReaperRecs, ReaperPCs
  <2> HIDE DEF r
  <2> QED
    BY <2>1, <2>3, SameRowsAlike, QuietReap DEF TrackerFits
<1> QED
  BY <1>3, <1>4, <1>5, <1>6, <1>7, <1>8, <1>9

(* While the tracker is down, its memory is empty whatever the rows are. *)
LEMMA DownFits ==
    ASSUME TrackerFits, boot.pc = "down", UNCHANGED <<mem, boot, handler, thread>>,
           \A i \in DOMAIN interval' : interval'[i].session # 0
    PROVE  MemoryFits' /\ BootFits'
<1>1. mem = [c \in Channels |-> NoEntry] /\ NoEntry.session = 0 /\ \A v \in Users : NoEntry.parts[v] = 0
  BY DEF TrackerFits, BootFits, NoEntry
<1>2. MemoryFits'
  BY <1>1 DEF MemoryFits
<1>3. BootFits'
  BY <1>1 DEF BootFits, TrackerFits
<1> QED
  BY <1>2, <1>3

(* An interval is reaped: it was closed before, or nobody is there and the *)
(* tracker is down.                                                        *)
LEMMA ReapParticipantKeeps ==
    ASSUME TrackerFits, Clean', NEW p \in DOMAIN interval, ReapParticipant(p)
    PROVE  TrackerFits'
<1> DEFINE r == [reaper EXCEPT !.absent = @ \ {p}]
<1>1. /\ reaper.pc = "part" /\ CloseInterval(p) /\ reaper' = r
      /\ UNCHANGED <<discord, session, tracker>> /\ UNCHANGED tracker
      /\ ~(interval[p].active /\
           (boot.pc # "down" \/ place[interval[p].user] = session[interval[p].session].channel))
  BY DEF ReapParticipant, Reaped, Clean
<1>2. reaper \in ReaperRecs /\ interval \in Seq(IntervalRows) /\ session \in Seq(SessionRows) /\ ReaperFits
  BY DEF TrackerFits, Typed, ReaperRecs
<1>3. r \in ReaperRecs /\ r.pc = "part" /\ r.session = reaper.session
  BY <1>1, <1>2 DEF ReaperRecs
<1> HIDE DEF r
<1>4. CASE ~interval[p].active
  <2>1. interval[p] \in IntervalRows
    BY <1>2
  <2>2. [interval[p] EXCEPT !.active = FALSE] = interval[p]
    BY <1>4, <2>1 DEF IntervalRows
  <2>3. interval' = interval
    BY <1>1, <1>2, <2>2 DEF CloseInterval
  <2>4. RowsAlike
    BY <1>1, <1>2, <2>3 DEF RowsAlike
  <2> QED
    BY <1>1, <1>2, <1>3, <2>4, QuietReap DEF ReaperFits
<1>5. CASE interval[p].active
  <2>1. boot.pc = "down" /\ place[interval[p].user] # ChannelOf(p)
    BY <1>1, <1>5 DEF ChannelOf
  <2>2. /\ interval' \in Seq(IntervalRows) /\ DOMAIN interval' = DOMAIN interval
        /\ ~interval'[p].active
        /\ \A j \in DOMAIN interval : /\ interval'[j].session = interval[j].session
                                      /\ interval'[j].user = interval[j].user
                                      /\ j # p => interval'[j] = interval[j]
    BY <1>1, <1>2, IntervalCloses
  <2>3. RowsFit'
    <3>1. \A j \in DOMAIN interval : interval'[j].active => interval[j].active
      BY <2>2
    <3> QED
      BY <1>1, <2>2, <3>1, FewerIntervalsFit
  <2>4. MemoryFits' /\ BootFits'
    BY <1>1, <2>1, <2>2, DownFits, References DEF tracker
  <2>5. ReaperFits'
    BY <1>1, <1>2, <1>3 DEF ReaperFits
  <2>6. Typed'
    <3>1. reaper' \in [pc : ReaperPCs, live : [Users -> Places], todo : SUBSET DOMAIN session',
                       session : Nat, absent : SUBSET DOMAIN interval']
      BY <1>1, <1>3, <2>2 DEF ReaperRecs
    <3> QED
      BY <1>1, <2>2, <3>1 DEF Typed, TrackerFits, tracker, discord
  <2>7. ASSUME NEW v \in Users PROVE UserFits(v)'
    <3>1. /\ EventsLink(v) /\ HandlerFits(v) /\ RecordsFit(v) /\ handler[v].pc = "idle"
          /\ UNCHANGED <<queue, place, handler, session>>
      BY <1>1, <2>1 DEF TrackerFits, UserFits, BootFits, discord, tracker
    <3>2. EventsLink(v)' /\ HandlerFits(v)'
      BY <3>1 DEF EventsLink, HandlerFits, Blocking, Leaving
    <3>3. MayBeIn(v)' = MayBeIn(v) /\ MustBeIn(v)' = MustBeIn(v) /\ MustBeIn(v) \subseteq {place[v]}
      BY <3>1 DEF MayBeIn, MustBeIn, Event
    <3>4. \A i \in DOMAIN interval : /\ Open(i)' <=> Open(i) /\ i # p
                                     /\ ChannelOf(i)' = ChannelOf(i)
      BY <2>2, <3>1, <1>5 DEF Open, ChannelOf
    <3>5. \A i \in DOMAIN interval : interval[i].user = v /\ ChannelOf(i) = place[v] => i # p
      BY <2>1
    <3>6. RecordsFit(v)'
      BY <2>2, <3>1, <3>3, <3>4, <3>5 DEF RecordsFit
    <3> QED
      BY <3>2, <3>6 DEF UserFits
  <2> QED
    BY <2>3, <2>4, <2>5, <2>6, <2>7 DEF TrackerFits
<1> QED
  BY <1>4, <1>5

(* A session is reaped: it was closed before, or nobody is in it and the *)
(* tracker is down.                                                      *)
LEMMA ReapCloseKeeps ==
    ASSUME TrackerFits, Clean', ReapClose
    PROVE  TrackerFits'
<1> DEFINE r == [reaper EXCEPT !.pc = "publish"]
<1>0. PICK s : s = reaper.session
  OBVIOUS
<1>1. /\ reaper.pc = "close" /\ CloseRow(s) /\ reaper' = r
      /\ UNCHANGED <<discord, interval, tracker>>
      /\ ~(session[s].active /\ boot.pc # "down") /\ ActiveIntervals(s) = {}
  BY <1>0 DEF ReapClose, Reaped, Clean
<1>2. /\ reaper \in ReaperRecs /\ interval \in Seq(IntervalRows) /\ session \in Seq(SessionRows)
      /\ s \in DOMAIN session
  BY <1>0, <1>1 DEF TrackerFits, Typed, ReaperRecs, ReaperFits
<1>3. r \in ReaperRecs /\ r.pc = "publish" /\ r.session = s
  BY <1>0, <1>2 DEF ReaperRecs, ReaperPCs
<1> HIDE DEF r
<1>4. /\ RowsFit' /\ session' \in Seq(SessionRows) /\ DOMAIN session' = DOMAIN session
      /\ ~session'[s].active
      /\ \A t \in DOMAIN session : /\ session'[t].channel = session[t].channel
                                   /\ t # s => session'[t].active = session[t].active
  BY <1>1, <1>2, EmptySessionCloses
<1>5. CASE ~session[s].active
  <2>1. session[s] \in SessionRows /\ [session[s] EXCEPT !.active = FALSE] = session[s]
    <3>1. session[s] \in SessionRows
      BY <1>2
    <3> QED
      BY <1>5, <3>1 DEF SessionRows
  <2>2. session' = session
    BY <1>1, <1>2, <2>1 DEF CloseRow
  <2>3. RowsAlike
    BY <1>1, <1>2, <2>2 DEF RowsAlike
  <2> QED
    BY <1>1, <1>2, <1>3, <2>3, QuietReap
<1>6. CASE session[s].active
  <2>1. boot.pc = "down"
    BY <1>1, <1>6
  <2>2. MemoryFits' /\ BootFits'
    BY <1>1, <2>1, DownFits, References DEF tracker
  <2>3. ReaperFits'
    BY <1>1, <1>2, <1>3, <1>4 DEF ReaperFits
  <2>4. Typed'
    <3>1. reaper' \in [pc : ReaperPCs, live : [Users -> Places], todo : SUBSET DOMAIN session',
                       session : Nat, absent : SUBSET DOMAIN interval']
      BY <1>1, <1>3, <1>4 DEF ReaperRecs
    <3>2. boot' \in [pc : BootPCs, todo : SUBSET DOMAIN session', session : Nat, replay : BOOLEAN]
      BY <1>1, <1>4 DEF Typed, TrackerFits, tracker
    <3> QED
      BY <1>1, <1>4, <3>1, <3>2 DEF Typed, TrackerFits, tracker, discord
  <2>5. \A v \in Users : UserFits(v)'
    BY <1>1, <1>4, <2>1, IdleUsersStay DEF tracker
  <2> QED
    BY <1>4, <2>2, <2>3, <2>4, <2>5 DEF TrackerFits
<1> QED
  BY <1>5, <1>6

-----------------------------------------------------------------------------
(* The invariant *)

(* Nothing is recorded of anybody at first. *)
LEMMA InitFits == Init => TrackerFits
<1> SUFFICES ASSUME Init PROVE TrackerFits
  OBVIOUS
<1>1. /\ NoEntry \in [session : Nat, parts : [Users -> Nat]] /\ NoEntry.session = 0
      /\ \A v \in Users : NoEntry.parts[v] = 0
  BY DEF NoEntry
<1>2. Down \in [pc : BootPCs, todo : SUBSET DOMAIN session, session : Nat, replay : BOOLEAN] /\ Down.pc = "down"
  BY DEF Down, BootPCs
<1>3. Idle \in [pc : HandlerPCs, session : Nat] /\ Idle.pc = "idle"
  BY DEF Idle, HandlerPCs
<1>4. Resting \in ReaperRecs /\ Resting.pc = "idle"
  BY DEF Resting, ReaperRecs, ReaperPCs, Places
<1>5. Typed
  BY <1>1, <1>2, <1>3, <1>4 DEF Typed, Init, ReaperRecs, Places
<1>6. RowsFit /\ ReaperFits
  BY <1>4 DEF Init, RowsFit, ReaperFits, ActiveSessions
<1>7. MemoryFits
  BY <1>1 DEF Init, MemoryFits
<1>8. BootFits
  BY <1>2, <1>3 DEF Init, BootFits
<1>9. ASSUME NEW u \in Users PROVE UserFits(u)
  <2>1. queue[u] = <<>> /\ handler[u] = Idle /\ interval = <<>> /\ place[u] = Nowhere
    BY DEF Init
  <2>2. EventsLink(u)
    BY <2>1 DEF EventsLink
  <2>3. HandlerFits(u)
    BY <1>3, <2>1 DEF HandlerFits, Blocking, Leaving
  <2>4. RecordsFit(u)
    BY <2>1 DEF RecordsFit, MustBeIn
  <2> QED
    BY <2>2, <2>3, <2>4 DEF UserFits
<1> QED
  BY <1>5, <1>6, <1>7, <1>8, <1>9 DEF TrackerFits

(* What is clean has always been. *)
LEMMA CleanBefore ==
    ASSUME [Next]_vars, Clean'
    PROVE  Clean
<1>1. spoilt \subseteq spoilt'
  BY ZenonT(40), SMTT(30) DEF Next, vars, Boot, ListActive, BootClose, BootPublish, BootMark, ListUntold, Ready, Load, Replay,
         BootSkips, Crash, Trouble, Reap, ReapStart, ReapCheck, ReapClose, ReapPublish, ReapMark, ReapEnd,
         ReapSession, ReapParticipant, Reaped, ReapFails, Begin, Handle, Fails, Move, MoveUnseen,
         LeaveKnown, LeaveUnknown, FindParticipant, CloseParticipant, AnyoneLeft, CloseSession, Publish,
         Mark, AlreadyPresent, CreateSession, CreateParticipant, Complete, LoseAnswer
<1> QED
  BY <1>1 DEF Clean

(* Every step keeps what fits fitting, unless it spoils something. *)
LEMMA NextFits ==
    ASSUME TrackerFits, [Next]_vars, Clean'
    PROVE  TrackerFits'
<1>1. CASE UNCHANGED vars
  <2>1. TrackerFits' = TrackerFits
    BY SMTT(30), <1>1 DEF vars, TrackerFits, Typed, RowsFit, MemoryFits, BootFits, ReaperFits, UserFits, EventsLink,
                HandlerFits, RecordsFit, MayBeIn, MustBeIn, Event, Open, ChannelOf, ActiveSessions,
                ActiveIntervals, ActiveIn, ActiveOf
  <2> QED
    BY <2>1
<1>2. CASE Boot
  BY <1>2, QuietBootKeeps, LoadKeeps, BootCloseKeeps DEF Boot
<1>3. CASE BootSkips
  BY <1>3, QuietBootKeeps
<1>4. CASE Crash
  BY <1>4, CrashKeeps
<1>5. CASE Reap \/ ReapFails
  BY <1>5, QuietReapKeeps, ReapParticipantKeeps, ReapCloseKeeps DEF Reap
<1>6. ASSUME NEW u \in Users, Begin(u) \/ Handle(u) \/ Fails(u)
      PROVE  TrackerFits'
  BY <1>6, BeginKeeps, FailsKeeps, LeaveKnownKeeps, LeaveUnknownKeeps, FindParticipantKeeps,
     CloseParticipantKeeps, AnyoneLeftKeeps, CloseSessionKeeps, PublishKeeps, MarkKeeps,
     AlreadyPresentKeeps, CreateSessionKeeps, CreateParticipantKeeps, CompleteKeeps DEF Handle
<1>7. ASSUME NEW u \in Users, NEW c \in Places, Move(u, c)
      PROVE  TrackerFits'
  BY <1>7, MoveKeeps
<1>8. ASSUME NEW u \in Users, NEW c \in Places, MoveUnseen(u, c)
      PROVE  FALSE
  BY <1>8 DEF MoveUnseen, Trouble, Clean
<1> QED
  BY <1>1, <1>2, <1>3, <1>4, <1>5, <1>6, <1>7, <1>8 DEF Next, Places

(* Rows, memory, start and handlers fit one another and the places of the    *)
(* users in every run in which the reaper meets no live row, no answer to a  *)
(* write is lost and no move goes unseen (tracker.py _join, _leave,          *)
(* _leave_from_repository and Start, over crashes, faults and retries).      *)
THEOREM TrackerInvariant == Spec => []TrackerInv
<1>1. Init => TrackerInv
  BY InitFits DEF TrackerInv
<1>2. TrackerInv /\ [Next]_vars => TrackerInv'
  BY CleanBefore, NextFits DEF TrackerInv
<1> QED
  BY <1>1, <1>2, PTL DEF Spec

(* Who has no event left to handle is recorded where Discord has him and     *)
(* nowhere else, and nobody is recorded in a closed session, whatever        *)
(* crashed, failed or was retried on the way.                                *)
THEOREM RecordsAreTruthful == Spec => []TruthfulWhenQuiet
<1>1. TrackerInv => TruthfulWhenQuiet
  <2> SUFFICES ASSUME TrackerInv, Clean PROVE
        /\ \A u \in Users : queue[u] = <<>> => \A c \in Channels : Recorded(u, c) <=> place[u] = c
        /\ \A i \in DOMAIN interval : interval[i].active => session[interval[i].session].active
    BY DEF TruthfulWhenQuiet, Clean
  <2>1. TrackerFits
    BY DEF TrackerInv
  <2>2. \A i \in DOMAIN interval : interval[i].active => session[interval[i].session].active
    BY <2>1 DEF TrackerFits, RowsFit, Open
  <2>3. ASSUME NEW u \in Users, queue[u] = <<>>, NEW c \in Channels
        PROVE  Recorded(u, c) <=> place[u] = c
    <3>1. RecordsFit(u) /\ MayBeIn(u) = {place[u]} /\ MustBeIn(u) = {place[u]}
      BY <2>1, <2>3 DEF TrackerFits, UserFits, MayBeIn, MustBeIn
    <3>2. ASSUME Recorded(u, c) PROVE place[u] = c
      <4>1. PICK i \in DOMAIN interval : Open(i) /\ interval[i].user = u /\ ChannelOf(i) = c
        BY <3>2 DEF Recorded, ActiveIn, ActiveOf, ActiveIntervals, Open, ChannelOf
      <4> QED
        BY <3>1, <4>1 DEF RecordsFit
    <3>3. ASSUME place[u] = c PROVE Recorded(u, c)
      <4>1. PICK i \in DOMAIN interval : Open(i) /\ interval[i].user = u /\ ChannelOf(i) = c
        BY <3>1, <3>3, SessionConstants DEF RecordsFit
      <4>2. interval[i].session \in ActiveIn(c) /\ i \in ActiveOf(interval[i].session, u)
        BY <2>1, <2>2, <4>1, References
           DEF ActiveIn, ActiveSessions, ActiveOf, ActiveIntervals, Open, ChannelOf
      <4> QED
        BY <4>2 DEF Recorded
    <3> QED
      BY <3>2, <3>3
  <2> QED
    BY <2>2, <2>3
<1> QED
  BY <1>1, TrackerInvariant, PTL

-----------------------------------------------------------------------------
(* The evidence of presence.                                                *)

Docs == [ch : Places, since : Nat, at : Nat, gen : Nat]

NewsRecs == [kind : {"observe"}, user : Users, before : Places, after : Places]

SpawnRecs == NewsRecs \cup {[kind |-> "seed"], [kind |-> "disconnect"]}

Sizes == {0} \cup {Presence!Cardinality(S) : S \in SUBSET Users}

SeedRecs ==
    [kind : {"seed"}, pc : {"waiting", "iterating", "writing"}, gen : Nat, now : Nat, live : BOOLEAN,
     view : [Users -> Places], size : Sizes, visited : SUBSET Users, user : Users \cup {Nowhere}, doc : Docs]

ObserveRecs ==
    [kind : {"observe"}, pc : {"waiting", "writing"}, user : Users, before : Places, after : Places, doc : Docs]

ProveRecs ==
    [kind : {"prove"}, pc : {"waiting", "leasing", "finding"}, user : Users, live : Channels,
     since : Nat, at : Nat, real : BOOLEAN]

TaskRecs == SeedRecs \cup ObserveRecs \cup ProveRecs

PresenceTyped ==
    /\ prsClock \in Nat /\ prsTruth \in [Users -> [ch : Places, since : Nat]]
    /\ prsCache \in [Users -> Places] /\ prsConn \in {"off", "resuming", "on"}
    /\ prsMissed \in Seq(NewsRecs) /\ prsSpawned \in Seq(SpawnRecs) /\ prsQueue \in Seq(TaskRecs)
    /\ prsDirty \in [Users -> Int] /\ prsGen \in Nat /\ prsReady \in BOOLEAN
    /\ prsStates \in [Users -> Docs] /\ prsDrops \in Nat

(* News of a user: a transition the evidence has not taken in; one that     *)
(* begins or ends a stay breaks it.                                         *)
IsNews(e, u) == e.kind = "observe" /\ e.user = u
Breaks(e) == e.before = Nowhere \/ e.after = Nowhere
HasNews(s, k, u) == \E i \in DOMAIN s : i > k /\ IsNews(s[i], u)
HasBreak(s, k, u) == \E i \in DOMAIN s : i > k /\ IsNews(s[i], u) /\ Breaks(s[i])

(* News on their way behind the k-th task at the lock.                      *)
NewsAfter(k, u) == HasNews(prsQueue, k, u) \/ HasNews(prsSpawned, 0, u) \/ HasNews(prsMissed, 0, u)
BreakAfter(k, u) == HasBreak(prsQueue, k, u) \/ HasBreak(prsSpawned, 0, u) \/ HasBreak(prsMissed, 0, u)

(* A new seed is on its way.                                                *)
Renewal == \E i \in DOMAIN prsSpawned : prsSpawned[i].kind = "seed"

(* An observation says no more than is so, or what is on its way behind the *)
(* k-th task will correct it.                                               *)
Sound(u, o, k) ==
    \/ o.ch = Nowhere \/ Renewal \/ prsTruth[u].ch = Nowhere
    \/ /\ prsTruth[u].since <= o.since \/ BreakAfter(k, u)
       /\ prsTruth[u].ch = o.ch \/ NewsAfter(k, u)

(* Before the first session nothing is known and nothing runs.              *)
Fresh == prsConn = "off" /\ prsDrops = 0

FreshIsIdle == Fresh => prsQueue = <<>> /\ prsSpawned = <<>> /\ ~prsReady

NoneBetween(s, j, i, u) == \A l \in DOMAIN s : j < l /\ l < i => ~IsNews(s[l], u)

(* What was missed leads from what the client has seen to what is so.       *)
Leads(m, seen, so) == \A u \in Users :
    /\ \A i \in DOMAIN m : IsNews(m[i], u) /\ NoneBetween(m, 0, i, u) => m[i].before = seen[u]
    /\ \A i, j \in DOMAIN m :
          j < i /\ IsNews(m[i], u) /\ IsNews(m[j], u) /\ NoneBetween(m, j, i, u) => m[i].before = m[j].after
    /\ \A i \in DOMAIN m : IsNews(m[i], u) /\ ~HasNews(m, i, u) => m[i].after = so[u].ch
    /\ ~HasNews(m, 0, u) => seen[u] = so[u].ch

MissedLeads == ~Fresh => Leads(prsMissed, prsCache, prsTruth)

NoneMissedOnline == prsConn = "on" => prsMissed = <<>>

StaysHaveBegun == \A u \in Users : prsTruth[u].since <= prsClock

(* The last news of a user say where he is, unless a seed comes after them. *)
NoSeedAfter(s, i) == \A l \in DOMAIN s : l > i => s[l].kind # "seed"

SpawnedNewsLead == \A u \in Users, i \in DOMAIN prsSpawned :
    /\ IsNews(prsSpawned[i], u) /\ ~HasNews(prsSpawned, i, u) /\ ~HasNews(prsMissed, 0, u)
    /\ NoSeedAfter(prsSpawned, i)
    => prsSpawned[i].after = prsTruth[u].ch

QueuedNewsLead == \A u \in Users, i \in DOMAIN prsQueue :
    /\ IsNews(prsQueue[i], u) /\ ~NewsAfter(i, u) /\ ~Renewal /\ NoSeedAfter(prsQueue, i)
    => prsQueue[i].after = prsTruth[u].ch

OnlyFirstWorks == \A i \in DOMAIN prsQueue : i > 1 => prsQueue[i].pc = "waiting"

(* Seeds are in the order of their generations, and no proof waits behind   *)
(* one; a live one sees what the client sees.                               *)
SeedFits(t) ==
    /\ t.gen <= prsGen
    /\ t.pc = "waiting" => t.visited = {}
    /\ t.pc = "writing" => t.user \in Users
    /\ t.live => t.view = prsCache
    /\ ~t.live => Renewal \/ t.gen # prsGen

SeedsFit == \A i \in DOMAIN prsQueue : prsQueue[i].kind = "seed" =>
    /\ SeedFits(prsQueue[i])
    /\ \A j \in DOMAIN prsQueue : j > i =>
          /\ prsQueue[j].kind # "prove"
          /\ prsQueue[j].kind = "seed" => prsQueue[i].gen < prsQueue[j].gen

NoSeedWhenReady == prsReady => \A i \in DOMAIN prsQueue : prsQueue[i].kind # "seed"

MemoryIsSound == prsReady => \A u \in Users : Sound(u, prsStates[u], 0)

(* The first task's part of the evidence.                                   *)
ObserveFits(t) ==
    t.kind = "observe" /\ t.pc = "writing" =>
        /\ prsReady => Sound(t.user, t.doc, 1)
        /\ prsStates[t.user].ch = Nowhere

SeedIsSound(t) ==
    t.kind = "seed" /\ t.pc # "waiting" /\ t.gen = prsGen =>
        /\ \A u \in Users : prsTruth[u].since <= t.now \/ BreakAfter(0, u) \/ Renewal
        /\ \A u \in t.visited : t.pc = "iterating" \/ u # t.user => Sound(u, prsStates[u], 0)
        /\ t.pc = "writing" => Sound(t.user, t.doc, 0)

ProofFits(t) ==
    t.kind = "prove" =>
        /\ t.pc = "leasing" => t.real \/ ~Presence!LocalProof(prsStates[t.user], t.live)
        /\ t.pc = "finding" => t.real

HeadFits == prsQueue # <<>> => ObserveFits(prsQueue[1]) /\ SeedIsSound(prsQueue[1]) /\ ProofFits(prsQueue[1])

(* Who is asked about was in voice when it was asked, or has left since.    *)
AskFits(i) ==
    prsQueue[i].kind = "prove" /\ prsReady /\ ~Renewal
    => prsTruth[prsQueue[i].user].ch # Nowhere \/ NewsAfter(i, prsQueue[i].user)

AsksFit == \A i \in DOMAIN prsQueue : AskFits(i)

NewsOf(s, u) == {i \in DOMAIN s : IsNews(s[i], u)}

DirtyCounts == \A u \in Users : prsDirty[u] = Cardinality(NewsOf(prsQueue, u))

Linked ==
    /\ FreshIsIdle /\ MissedLeads /\ NoneMissedOnline /\ StaysHaveBegun
    /\ SpawnedNewsLead /\ QueuedNewsLead

Lined == OnlyFirstWorks /\ SeedsFit /\ NoSeedWhenReady /\ DirtyCounts

Evident == MemoryIsSound /\ HeadFits /\ AsksFit /\ (prsVerdict.yes => prsVerdict.real)

PresenceInv == PresenceTyped /\ Linked /\ Lined /\ Evident

-----------------------------------------------------------------------------
(* Sequences of tasks and callbacks, and the news in them.                  *)

(* The tasks carry the same news.                                           *)
SameNews(s, r) ==
    /\ Len(r) = Len(s)
    /\ \A i \in DOMAIN s :
          /\ r[i].kind = s[i].kind
          /\ s[i].kind = "observe" =>
                r[i].user = s[i].user /\ r[i].before = s[i].before /\ r[i].after = s[i].after

LEMMA NewsOfSame ==
    ASSUME NEW T, NEW s \in Seq(T), NEW r \in Seq(T), SameNews(s, r)
    PROVE  /\ \A i \in DOMAIN s, u \in Users : IsNews(r[i], u) <=> IsNews(s[i], u)
           /\ \A k \in Nat, u \in Users :
                 (HasNews(r, k, u) <=> HasNews(s, k, u)) /\ (HasBreak(r, k, u) <=> HasBreak(s, k, u))
<1>1. DOMAIN r = DOMAIN s
  BY DEF SameNews
<1> QED
  BY <1>1 DEF SameNews, HasNews, HasBreak, IsNews, Breaks

LEMMA NewsOfAppend ==
    ASSUME NEW T, NEW s \in Seq(T), NEW e \in T
    PROVE  \A k \in 0 .. Len(s), u \in Users :
               /\ HasNews(Append(s, e), k, u) <=> HasNews(s, k, u) \/ IsNews(e, u)
               /\ HasBreak(Append(s, e), k, u) <=> HasBreak(s, k, u) \/ (IsNews(e, u) /\ Breaks(e))
<1> DEFINE r == Append(s, e)
<1>1. /\ DOMAIN r = 1 .. Len(s) + 1 /\ DOMAIN s = 1 .. Len(s) /\ Len(s) \in Nat
      /\ r[Len(s) + 1] = e /\ \A i \in 1 .. Len(s) : r[i] = s[i]
  OBVIOUS
<1> HIDE DEF r
<1>2. ASSUME NEW k \in 0 .. Len(s), NEW u \in Users
      PROVE  /\ HasNews(r, k, u) <=> HasNews(s, k, u) \/ IsNews(e, u)
             /\ HasBreak(r, k, u) <=> HasBreak(s, k, u) \/ (IsNews(e, u) /\ Breaks(e))
  <2>1. Len(s) + 1 \in DOMAIN r /\ Len(s) + 1 > k
    BY <1>1
  <2>2. \A i \in DOMAIN r : i \in DOMAIN s \/ i = Len(s) + 1
    BY <1>1
  <2>3. \A i \in DOMAIN s : i \in DOMAIN r /\ r[i] = s[i]
    BY <1>1
  <2> QED
    BY <1>1, <2>1, <2>2, <2>3 DEF HasNews, HasBreak
<1> QED
  BY <1>2 DEF r

LEMMA TailFacts ==
    ASSUME NEW T, NEW s \in Seq(T), s # <<>>
    PROVE  /\ Tail(s) \in Seq(T) /\ Len(Tail(s)) = Len(s) - 1 /\ Head(s) = s[1] /\ 1 \in DOMAIN s
           /\ \A i \in DOMAIN Tail(s) : i \in Nat /\ i + 1 \in DOMAIN s /\ Tail(s)[i] = s[i + 1]
           /\ \A i \in DOMAIN s : i > 1 => i - 1 \in DOMAIN Tail(s) /\ Tail(s)[i - 1] = s[i]
           /\ \A i \in DOMAIN s : i \in Nat \ {0}
OBVIOUS

LEMMA NewsOfTail ==
    ASSUME NEW T, NEW s \in Seq(T), s # <<>>
    PROVE  \A k \in Nat, u \in Users :
               /\ HasNews(Tail(s), k, u) <=> HasNews(s, k + 1, u)
               /\ HasBreak(Tail(s), k, u) <=> HasBreak(s, k + 1, u)
<1> DEFINE r == Tail(s)
<1>1. /\ \A i \in DOMAIN r : i \in Nat /\ i + 1 \in DOMAIN s /\ r[i] = s[i + 1]
      /\ \A i \in DOMAIN s : i > 1 => i - 1 \in DOMAIN r /\ r[i - 1] = s[i]
      /\ \A i \in DOMAIN s : i \in Nat \ {0}
  BY TailFacts
<1> HIDE DEF r
<1>2. ASSUME NEW k \in Nat, NEW u \in Users
      PROVE  /\ HasNews(r, k, u) <=> HasNews(s, k + 1, u)
             /\ HasBreak(r, k, u) <=> HasBreak(s, k + 1, u)
  BY SMTT(30), <1>1 DEF HasNews, HasBreak
<1> QED
  BY <1>2 DEF r

LEMMA NewsOfHead ==
    ASSUME NEW T, NEW s \in Seq(T), s # <<>>
    PROVE  \A u \in Users :
               /\ HasNews(s, 0, u) <=> HasNews(s, 1, u) \/ IsNews(s[1], u)
               /\ HasBreak(s, 0, u) <=> HasBreak(s, 1, u) \/ (IsNews(s[1], u) /\ Breaks(s[1]))
<1>1. 1 \in DOMAIN s /\ \A i \in DOMAIN s : i \in Nat /\ (i = 1 \/ i > 1) /\ i > 0
  OBVIOUS
<1> QED
  BY <1>1 DEF HasNews, HasBreak

LEMMA FirstReplaced ==
    ASSUME NEW T, NEW s \in Seq(T), s # <<>>, NEW t \in T
    PROVE  /\ <<t>> \o Tail(s) \in Seq(T) /\ Len(<<t>> \o Tail(s)) = Len(s)
           /\ (<<t>> \o Tail(s))[1] = t /\ \A i \in DOMAIN s : i > 1 => (<<t>> \o Tail(s))[i] = s[i]
<1>1. Tail(s) \in Seq(T) /\ Len(Tail(s)) = Len(s) - 1 /\ \A i \in DOMAIN s : i > 1 => Tail(s)[i - 1] = s[i]
  OBVIOUS
<1>2. <<t>> \in Seq(T) /\ Len(<<t>>) = 1 /\ <<t>>[1] = t
  OBVIOUS
<1> DEFINE a == <<t>>
           b == Tail(s)
<1> HIDE DEF a, b
<1>3. /\ a \o b \in Seq(T) /\ Len(a \o b) = Len(a) + Len(b)
      /\ \A i \in 1 .. Len(a) + Len(b) : (a \o b)[i] = IF i <= Len(a) THEN a[i] ELSE b[i - Len(a)]
  BY <1>1, <1>2 DEF a, b
<1> QED
  BY <1>1, <1>2, <1>3 DEF a, b

LEMMA LessIsWellFounded ==
    IsWellFoundedOn({ss \in Nat \X Nat : ss[1] < ss[2]}, Nat)
BY NatLessThanWellFounded DEF OpToRel

(* Every set of numbers that is not empty has a least one. *)
LEMMA LeastNumber ==
    ASSUME NEW R \in SUBSET Nat, R # {}
    PROVE  \E m \in R : \A k \in R : m <= k
<1> DEFINE Less == {ss \in Nat \X Nat : ss[1] < ss[2]}
<1>1. PICK m \in R : \A k \in R : ~(<<k, m>> \in Less)
  <2> HIDE DEF Less
  <2>1. IsWellFoundedOn(Less, Nat)
    BY LessIsWellFounded DEF Less
  <2> QED
    BY <2>1, WFMin
<1>2. ASSUME NEW k \in Nat, NEW n \in Nat, k < n
      PROVE  <<k, n>> \in Less
  <2>1. <<k, n>> \in Nat \X Nat /\ <<k, n>>[1] < <<k, n>>[2]
    BY <1>2
  <2> QED
    BY <2>1, Zenon DEF Less
<1>3. ASSUME NEW k \in R PROVE m <= k
  <2>1. ~(<<k, m>> \in Less) /\ k \in Nat /\ m \in Nat
    BY <1>1
  <2>2. ~(k < m)
    BY <2>1, <1>2, Zenon
  <2> QED
    BY <2>1, <2>2
<1> QED
  BY <1>3

LEMMA TaskKinds ==
    ASSUME NEW t \in TaskRecs
    PROVE  /\ t.kind = "seed" => t \in SeedRecs
           /\ t.kind = "observe" => t \in ObserveRecs
           /\ t.kind = "prove" => t \in ProveRecs
           /\ t.kind \in {"seed", "observe", "prove"}
BY DEF TaskRecs, SeedRecs, ObserveRecs, ProveRecs

(* How the queue goes on while nobody at the lock works: tasks come behind, *)
(* and a seed sees what the client sees.                                    *)
GoesOn(s, r) ==
    /\ r \in Seq(TaskRecs) /\ Len(s) <= Len(r)
    /\ \A i \in DOMAIN s :
          /\ r[i].kind = s[i].kind /\ r[i].pc = s[i].pc
          /\ s[i].kind # "seed" => r[i] = s[i]
          /\ s[i].kind = "seed" =>
                /\ r[i].gen = s[i].gen /\ r[i].now = s[i].now
                /\ r[i].user = s[i].user /\ r[i].doc = s[i].doc
                /\ r[i].visited \subseteq s[i].visited
    /\ \A i \in DOMAIN r : i > Len(s) => r[i].pc = "waiting"

(* The world goes on: what was evident stays so, or news come of the change. *)
Onward(u) ==
    \/ prsTruth'[u] = prsTruth[u]
    \/ /\ \A k \in 0 .. Len(prsQueue) : NewsAfter(k, u)'
       /\ \/ \A k \in 0 .. Len(prsQueue) : BreakAfter(k, u)'
          \/ prsTruth[u].ch # Nowhere /\ prsTruth'[u].since = prsTruth[u].since

LEMMA SoundStays ==
    ASSUME NEW u \in Users, NEW o, NEW k \in Nat, NEW l \in Nat,
           Sound(u, o, k),
           prsTruth'[u] = prsTruth[u],
           NewsAfter(k, u) => NewsAfter(l, u)', BreakAfter(k, u) => BreakAfter(l, u)', Renewal => Renewal'
    PROVE  Sound(u, o, l)'
BY DEF Sound

LEMMA SoundGoesOn ==
    ASSUME NEW u \in Users, NEW o, NEW k \in 0 .. Len(prsQueue),
           Sound(u, o, k), Onward(u),
           NewsAfter(k, u) => NewsAfter(k, u)', BreakAfter(k, u) => BreakAfter(k, u)', Renewal => Renewal'
    PROVE  Sound(u, o, k)'
BY DEF Sound, Onward

LEMMA EvidenceGoesOn ==
    ASSUME PresenceInv,
           GoesOn(prsQueue, prsQueue'),
           UNCHANGED <<prsGen, prsReady, prsStates>>,
           prsVerdict' \in {prsVerdict, Presence!NoAnswer},
           Renewal => Renewal',
           \A u \in Users : Onward(u),
           \A u \in Users, k \in 0 .. Len(prsQueue) :
               (NewsAfter(k, u) => NewsAfter(k, u)') /\ (BreakAfter(k, u) => BreakAfter(k, u)'),
           \A i \in DOMAIN prsQueue' : i > Len(prsQueue) => AskFits(i)'
    PROVE  Evident'
<1> USE DEF PresenceInv, PresenceTyped
<1>1. ASSUME NEW u \in Users, NEW o, NEW k \in 0 .. Len(prsQueue), Sound(u, o, k)
      PROVE  Sound(u, o, k)'
  BY <1>1, SoundGoesOn
<1>2. MemoryIsSound'
  <2>1. 0 \in 0 .. Len(prsQueue)
    OBVIOUS
  <2> QED
    BY <2>1, <1>1 DEF Evident, MemoryIsSound
<1>3. ASSUME prsQueue' # <<>> PROVE (ObserveFits(prsQueue[1]) /\ SeedIsSound(prsQueue[1]) /\ ProofFits(prsQueue[1]))'
  <2> PICK t : t = prsQueue[1]
    OBVIOUS
  <2> PICK r : r = prsQueue'[1]
    OBVIOUS
  <2>1. CASE prsQueue = <<>>
    <3>1. r.pc = "waiting"
      BY <1>3, <2>1 DEF GoesOn
    <3> QED
      BY <3>1 DEF ObserveFits, SeedIsSound, ProofFits
  <2>2. CASE prsQueue # <<>>
    <3>1. /\ 1 \in DOMAIN prsQueue /\ t \in TaskRecs /\ r \in TaskRecs /\ 0 \in 0 .. Len(prsQueue) /\ 1 \in 0 .. Len(prsQueue)
      BY <1>3, <2>2 DEF GoesOn
    <3>2. /\ r.kind = t.kind /\ r.pc = t.pc
          /\ t.kind # "seed" => r = t
          /\ t.kind = "seed" => /\ r.gen = t.gen /\ r.now = t.now /\ r.user = t.user /\ r.doc = t.doc
                                /\ r.visited \subseteq t.visited
      BY <3>1 DEF GoesOn
    <3>3. ObserveFits(t) /\ SeedIsSound(t) /\ ProofFits(t)
      BY <2>2 DEF Evident, HeadFits
    <3>4. ObserveFits(r)'
      <4>1. SUFFICES ASSUME r.kind = "observe", r.pc = "writing"
                     PROVE  (prsReady => Sound(r.user, r.doc, 1))' /\ prsStates'[r.user].ch = Nowhere
        BY DEF ObserveFits
      <4>2. r = t /\ t.user \in Users
        BY <3>1, <3>2, <4>1, TaskKinds DEF ObserveRecs
      <4>3. prsReady => Sound(t.user, t.doc, 1)
        BY <3>3, <4>1, <4>2 DEF ObserveFits
      <4>4. prsReady => Sound(t.user, t.doc, 1)'
        BY <4>2, <4>3, <3>1, <1>1
      <4> QED
        BY <4>1, <4>2, <4>4, <3>3 DEF ObserveFits
    <3>5. SeedIsSound(r)'
      <4>1. SUFFICES ASSUME r.kind = "seed", r.pc # "waiting", r.gen = prsGen
                     PROVE  (/\ \A u \in Users : prsTruth[u].since <= r.now \/ BreakAfter(0, u) \/ Renewal
                             /\ \A u \in r.visited : r.pc = "iterating" \/ u # r.user => Sound(u, prsStates[u], 0)
                             /\ r.pc = "writing" => Sound(r.user, r.doc, 0))'
        BY DEF SeedIsSound
      <4>2. /\ \A u \in Users : prsTruth[u].since <= t.now \/ BreakAfter(0, u) \/ Renewal
            /\ \A u \in t.visited : t.pc = "iterating" \/ u # t.user => Sound(u, prsStates[u], 0)
            /\ t.pc = "writing" => Sound(t.user, t.doc, 0)
            /\ t.visited \subseteq Users /\ (t.pc = "writing" => t.user \in Users)
        <5>1. t.kind = "seed" /\ t.pc # "waiting" /\ t.gen = prsGen /\ t \in SeedRecs
          BY <4>1, <3>1, <3>2, TaskKinds
        <5>2. t.pc = "writing" => t.user \in Users
          BY <5>1, <3>1 DEF Lined, SeedsFit, SeedFits
        <5> QED
          BY <5>1, <5>2, <3>3 DEF SeedIsSound, SeedRecs
      <4>3. \A u \in Users : prsTruth'[u].since <= r.now \/ BreakAfter(0, u)' \/ Renewal'
        <5>0. r.now = t.now /\ 0 \in 0 .. Len(prsQueue)
          BY <4>1, <3>1, <3>2
        <5>1. ASSUME NEW u \in Users PROVE prsTruth'[u].since <= r.now \/ BreakAfter(0, u)' \/ Renewal'
          <6>1. prsTruth'[u] = prsTruth[u] \/ BreakAfter(0, u)' \/ prsTruth'[u].since = prsTruth[u].since
            BY <5>0 DEF Onward
          <6>2. prsTruth[u].since <= t.now \/ BreakAfter(0, u)' \/ Renewal'
            BY <4>2, <5>0
          <6> QED
            BY <5>0, <6>1, <6>2
        <5> QED
          BY <5>1
      <4>4. \A u \in r.visited : r.pc = "iterating" \/ u # r.user => Sound(u, prsStates[u], 0)'
        <5>1. ASSUME NEW u \in r.visited, r.pc = "iterating" \/ u # r.user
              PROVE  Sound(u, prsStates[u], 0)'
          <6> PICK o : o = prsStates[u]
            OBVIOUS
          <6>1. u \in Users /\ Sound(u, o, 0)
            <7>1. u \in t.visited /\ (t.pc = "iterating" \/ u # t.user)
              BY <5>1, <4>1, <3>2
            <7> QED
              BY <7>1, <4>2
          <6>2. Sound(u, o, 0)'
            BY <6>1, <3>1, <1>1
          <6> QED
            BY <6>2
        <5> QED
          BY <5>1
      <4>5. r.pc = "writing" => Sound(r.user, r.doc, 0)'
        <5>1. SUFFICES ASSUME r.pc = "writing" PROVE Sound(r.user, r.doc, 0)'
          OBVIOUS
        <5>2. t.user \in Users /\ Sound(t.user, t.doc, 0) /\ r.user = t.user /\ r.doc = t.doc
          BY <5>1, <4>1, <4>2, <3>2
        <5> QED
          BY <5>2, <3>1, <1>1
      <4> QED
        BY <4>3, <4>4, <4>5
    <3>6. ProofFits(r)'
      <4>1. SUFFICES ASSUME r.kind = "prove"
                     PROVE  /\ r.pc = "leasing" => r.real \/ ~Presence!LocalProof(prsStates[r.user], r.live)'
                            /\ r.pc = "finding" => r.real
        BY DEF ProofFits
      <4>2. r = t
        BY <4>1, <3>2
      <4>3. Presence!LocalProof(prsStates[r.user], r.live)' <=> Presence!LocalProof(prsStates[r.user], r.live)
        BY DEF Presence!LocalProof
      <4> QED
        BY <4>1, <4>2, <4>3, <3>3 DEF ProofFits
    <3> QED
      BY <3>4, <3>5, <3>6
  <2> QED
    BY <2>1, <2>2
<1>4. AsksFit'
  <2>1. ASSUME NEW i \in DOMAIN prsQueue, i \in DOMAIN prsQueue'
        PROVE  AskFits(i)'
    <3> PICK t : t = prsQueue[i]
      OBVIOUS
    <3>1. SUFFICES ASSUME prsQueue'[i].kind = "prove", prsReady, ~Renewal'
                   PROVE  prsTruth'[prsQueue'[i].user].ch # Nowhere \/ NewsAfter(i, prsQueue[i].user)'
      BY DEF AskFits
    <3>2. t.kind = "prove" /\ prsQueue'[i] = t /\ t.user \in Users /\ ~Renewal /\ i \in 0 .. Len(prsQueue)
      BY <3>1 DEF GoesOn, TaskRecs, SeedRecs, ObserveRecs, ProveRecs
    <3>3. prsTruth[t.user].ch # Nowhere \/ NewsAfter(i, t.user)
      BY <3>1, <3>2 DEF Evident, AsksFit, AskFits
    <3>4. prsTruth'[t.user].ch # Nowhere \/ NewsAfter(i, t.user)'
      BY <3>2, <3>3 DEF Onward
    <3> QED
      BY <3>2, <3>4
  <2>2. \A i \in DOMAIN prsQueue' : i \in DOMAIN prsQueue \/ i > Len(prsQueue)
    BY DEF GoesOn
  <2> QED
    BY <2>1, <2>2 DEF AsksFit
<1>5. (prsVerdict.yes => prsVerdict.real)'
  BY DEF Evident, Presence!NoAnswer
<1> QED
  BY <1>2, <1>3, <1>4, <1>5 DEF Evident, HeadFits

(* The shape of the queue while nobody at the lock works.                   *)
LEMMA ShapeGoesOn ==
    ASSUME PresenceInv,
           GoesOn(prsQueue, prsQueue'),
           UNCHANGED <<prsGen, prsReady>>,
           \A i \in DOMAIN prsQueue' : prsQueue'[i].kind = "seed" =>
               /\ i \in DOMAIN prsQueue
               /\ prsQueue'[i].live => prsQueue'[i].view = prsCache'
               /\ ~prsQueue'[i].live => Renewal' \/ prsQueue[i].gen # prsGen,
           \A i \in DOMAIN prsQueue' : i > Len(prsQueue) /\ prsQueue'[i].kind = "prove" => prsReady
    PROVE  OnlyFirstWorks' /\ SeedsFit' /\ NoSeedWhenReady'
<1> USE DEF PresenceInv, PresenceTyped
<1>0. /\ \A i \in DOMAIN prsQueue' : i \in Nat \ {0} /\ (i \in DOMAIN prsQueue \/ i > Len(prsQueue))
      /\ \A i \in DOMAIN prsQueue : i \in Nat \ {0} /\ i \in DOMAIN prsQueue' /\ ~(i > Len(prsQueue))
  BY DEF GoesOn
<1>1. OnlyFirstWorks'
  BY <1>0 DEF GoesOn, Lined, OnlyFirstWorks
<1>2. NoSeedWhenReady'
  BY <1>0 DEF GoesOn, Lined, NoSeedWhenReady
<1>3. ASSUME NEW i \in DOMAIN prsQueue', prsQueue'[i].kind = "seed"
      PROVE  SeedFits(prsQueue[i])' /\ \A j \in DOMAIN prsQueue' : j > i =>
                /\ prsQueue'[j].kind # "prove"
                /\ prsQueue'[j].kind = "seed" => prsQueue'[i].gen < prsQueue'[j].gen
  <2> PICK t : t = prsQueue[i]
    OBVIOUS
  <2> PICK r : r = prsQueue'[i]
    OBVIOUS
  <2>1. /\ i \in DOMAIN prsQueue /\ t.kind = "seed" /\ r.kind = "seed"
        /\ r.gen = t.gen /\ r.pc = t.pc /\ r.user = t.user /\ r.visited \subseteq t.visited
        /\ r.live => r.view = prsCache'
        /\ ~r.live => Renewal' \/ t.gen # prsGen
    BY <1>3 DEF GoesOn
  <2>2. SeedFits(t) /\ ~prsReady
    BY <2>1 DEF Lined, SeedsFit, NoSeedWhenReady
  <2>3. SeedFits(r)'
    BY <2>1, <2>2 DEF SeedFits
  <2>4. ASSUME NEW j \in DOMAIN prsQueue', j > i
        PROVE  /\ prsQueue'[j].kind # "prove"
               /\ prsQueue'[j].kind = "seed" => r.gen < prsQueue'[j].gen
    <3>1. CASE j \in DOMAIN prsQueue
      BY ZenonT(40), <3>1, <2>1, <2>4 DEF Lined, SeedsFit, GoesOn
    <3>2. CASE j > Len(prsQueue)
      BY <3>2, <2>2, <1>0
    <3> QED
      BY <3>1, <3>2, <1>0
  <2> QED
    BY <2>3, <2>4
<1> QED
  BY <1>1, <1>2, <1>3 DEF SeedsFit

LEMMA CountSame ==
    ASSUME NEW T, NEW s \in Seq(T), NEW r \in Seq(T), SameNews(s, r), NEW u \in Users
    PROVE  Cardinality(NewsOf(r, u)) = Cardinality(NewsOf(s, u))
<1>1. DOMAIN r = DOMAIN s
  BY DEF SameNews
<1>2. NewsOf(r, u) = NewsOf(s, u)
  BY <1>1, NewsOfSame DEF NewsOf
<1> QED
  BY <1>2

LEMMA NewsAreFinite ==
    ASSUME NEW T, NEW s \in Seq(T), NEW u
    PROVE  IsFiniteSet(NewsOf(s, u)) /\ Cardinality(NewsOf(s, u)) \in Nat
<1>1. IsFiniteSet(1 .. Len(s))
  BY FS_Interval
<1>2. NewsOf(s, u) \subseteq 1 .. Len(s)
  BY DEF NewsOf
<1> QED
  BY <1>1, <1>2, FS_Subset, FS_CardinalityType

LEMMA CountAppended ==
    ASSUME NEW T, NEW s \in Seq(T), NEW e \in T, NEW u
    PROVE  Cardinality(NewsOf(Append(s, e), u)) = IF IsNews(e, u) THEN Cardinality(NewsOf(s, u)) + 1 ELSE Cardinality(NewsOf(s, u))
<1> DEFINE r == Append(s, e)
<1>1. /\ DOMAIN r = 1 .. Len(s) + 1 /\ DOMAIN s = 1 .. Len(s) /\ Len(s) \in Nat
      /\ r[Len(s) + 1] = e /\ \A i \in 1 .. Len(s) : r[i] = s[i]
  OBVIOUS
<1> HIDE DEF r
<1>2. CASE IsNews(e, u)
  <2>1. NewsOf(r, u) = NewsOf(s, u) \cup {Len(s) + 1} /\ Len(s) + 1 \notin NewsOf(s, u)
    BY <1>1, <1>2 DEF NewsOf
  <2> QED
    BY <2>1, <1>2, NewsAreFinite, FS_AddElement DEF r
<1>3. CASE ~IsNews(e, u)
  <2>1. NewsOf(r, u) = NewsOf(s, u)
    BY <1>1, <1>3 DEF NewsOf
  <2> QED
    BY <2>1, <1>3 DEF r
<1> QED
  BY <1>2, <1>3

LEMMA CountDropped ==
    ASSUME NEW T, NEW s \in Seq(T), s # <<>>, NEW u
    PROVE  Cardinality(NewsOf(Tail(s), u)) = IF IsNews(s[1], u) THEN Cardinality(NewsOf(s, u)) - 1 ELSE Cardinality(NewsOf(s, u))
<1> DEFINE A == NewsOf(Tail(s), u)
           B == NewsOf(s, u) \ {1}
           f == [i \in A |-> i + 1]
<1>1. /\ \A i \in A : i \in Nat /\ i + 1 \in B
      /\ \A i \in B : i - 1 \in A /\ i - 1 \in Nat /\ i = (i - 1) + 1
  BY TailFacts DEF NewsOf
<1>2. IsFiniteSet(A) /\ IsFiniteSet(NewsOf(s, u)) /\ Tail(s) \in Seq(T)
  BY NewsAreFinite, TailFacts
<1>3. f \in Bijection(A, B)
  <2> HIDE DEF A, B
  <2>1. f \in [A -> B]
    BY <1>1
  <2>2. \A x, y \in A : f[x] = f[y] => x = y
    BY <1>1
  <2>3. \A y \in B : \E x \in A : f[x] = y
    BY <1>1
  <2> QED
    BY <2>1, <2>2, <2>3, Fun_IsBij
<1>4. Cardinality(A) = Cardinality(B)
  <2>1. ExistsBijection(A, B)
    BY <1>3 DEF ExistsBijection
  <2> QED
    BY <2>1, <1>2, FS_Bijection
<1>5. Cardinality(B) = IF 1 \in NewsOf(s, u) THEN Cardinality(NewsOf(s, u)) - 1 ELSE Cardinality(NewsOf(s, u))
  BY <1>2, FS_RemoveElement
<1>6. 1 \in NewsOf(s, u) <=> IsNews(s[1], u)
  BY TailFacts DEF NewsOf
<1> QED
  BY <1>4, <1>5, <1>6

-----------------------------------------------------------------------------
(* The task at the lock goes on, or leaves the queue.                       *)

LEMMA NewsWhenReplaced ==
    ASSUME PresenceTyped, prsQueue' \in Seq(TaskRecs), SameNews(prsQueue, prsQueue'),
           UNCHANGED <<prsMissed, prsSpawned>>
    PROVE  /\ \A k \in Nat, u \in Users :
                 (NewsAfter(k, u)' <=> NewsAfter(k, u)) /\ (BreakAfter(k, u)' <=> BreakAfter(k, u))
           /\ Renewal' <=> Renewal
<1>1. \A k \in Nat, u \in Users :
          (HasNews(prsQueue', k, u) <=> HasNews(prsQueue, k, u)) /\ (HasBreak(prsQueue', k, u) <=> HasBreak(prsQueue, k, u))
  <2> PICK r : r = prsQueue'
    OBVIOUS
  <2> QED
    BY NewsOfSame DEF PresenceTyped
<1> QED
  BY <1>1 DEF NewsAfter, BreakAfter, Renewal

LEMMA NewsWhenDropped ==
    ASSUME PresenceTyped, prsQueue # <<>>, prsQueue' = Tail(prsQueue),
           UNCHANGED <<prsMissed, prsSpawned>>
    PROVE  /\ \A k \in Nat, u \in Users :
                 (NewsAfter(k, u)' <=> NewsAfter(k + 1, u)) /\ (BreakAfter(k, u)' <=> BreakAfter(k + 1, u))
           /\ Renewal' <=> Renewal
<1>1. \A k \in Nat, u \in Users :
          (HasNews(prsQueue', k, u) <=> HasNews(prsQueue, k + 1, u)) /\ (HasBreak(prsQueue', k, u) <=> HasBreak(prsQueue, k + 1, u))
  BY NewsOfTail DEF PresenceTyped
<1> QED
  BY <1>1 DEF NewsAfter, BreakAfter, Renewal

(* What is known of the world while it stands still.                        *)
LEMMA WorldStill ==
    ASSUME Linked, UNCHANGED <<prsClock, prsTruth, prsCache, prsConn, prsMissed, prsDrops>>
    PROVE  MissedLeads' /\ NoneMissedOnline' /\ StaysHaveBegun'
<1>1. MissedLeads'
  BY DEF Linked, MissedLeads, Leads, Fresh, NoneBetween
<1> QED
  BY <1>1 DEF Linked, NoneMissedOnline, StaysHaveBegun

LEMMA SpawnedStill ==
    ASSUME Linked, UNCHANGED <<prsTruth, prsMissed, prsSpawned>>
    PROVE  SpawnedNewsLead'
BY DEF Linked, SpawnedNewsLead, NoSeedAfter

LEMMA LinkedWhenReplaced ==
    ASSUME PresenceTyped, Linked, prsQueue # <<>>, prsQueue' \in Seq(TaskRecs), SameNews(prsQueue, prsQueue'),
           UNCHANGED <<prsClock, prsTruth, prsCache, prsConn, prsMissed, prsDrops, prsSpawned>>
    PROVE  Linked'
<1>1. MissedLeads' /\ NoneMissedOnline' /\ StaysHaveBegun' /\ SpawnedNewsLead'
  BY WorldStill, SpawnedStill
<1>2. FreshIsIdle'
  BY DEF Linked, FreshIsIdle, Fresh
<1>3. QueuedNewsLead'
  <2>1. DOMAIN prsQueue' = DOMAIN prsQueue /\ \A i \in DOMAIN prsQueue : i \in Nat
    BY DEF SameNews, PresenceTyped
  <2>2. ASSUME NEW u \in Users, NEW i \in DOMAIN prsQueue,
               IsNews(prsQueue'[i], u), ~NewsAfter(i, u)', ~Renewal', NoSeedAfter(prsQueue', i)
        PROVE  prsQueue'[i].after = prsTruth[u].ch
    <3>1. IsNews(prsQueue[i], u) /\ prsQueue'[i].after = prsQueue[i].after
      BY <2>1, <2>2 DEF SameNews, IsNews
    <3>2. NoSeedAfter(prsQueue, i)
      BY <2>1, <2>2 DEF NoSeedAfter, SameNews
    <3>3. ~NewsAfter(i, u) /\ ~Renewal
      BY <2>1, <2>2, NewsWhenReplaced
    <3> QED
      BY <3>1, <3>2, <3>3 DEF Linked, QueuedNewsLead
  <2> QED
    BY <2>1, <2>2 DEF QueuedNewsLead
<1> QED
  BY <1>1, <1>2, <1>3 DEF Linked

LEMMA LinkedWhenDropped ==
    ASSUME PresenceTyped, Linked, prsQueue # <<>>, prsQueue' = Tail(prsQueue),
           UNCHANGED <<prsClock, prsTruth, prsCache, prsConn, prsMissed, prsDrops, prsSpawned>>
    PROVE  Linked'
<1>1. MissedLeads' /\ NoneMissedOnline' /\ StaysHaveBegun' /\ SpawnedNewsLead'
  BY WorldStill, SpawnedStill
<1>2. FreshIsIdle'
  BY DEF Linked, FreshIsIdle, Fresh
<1>3. QueuedNewsLead'
  <2> PICK r : r = Tail(prsQueue)
    OBVIOUS
  <2>1. /\ \A i \in DOMAIN r : i \in Nat /\ i + 1 \in DOMAIN prsQueue /\ r[i] = prsQueue[i + 1]
        /\ \A i \in DOMAIN prsQueue : i \in Nat /\ (i > 1 => i - 1 \in DOMAIN r /\ r[i - 1] = prsQueue[i])
    BY TailFacts DEF PresenceTyped
  <2>2. ASSUME NEW u \in Users, NEW i \in DOMAIN r,
               IsNews(r[i], u), ~NewsAfter(i, u)', ~Renewal', NoSeedAfter(r, i)
        PROVE  r[i].after = prsTruth[u].ch
    <3>1. IsNews(prsQueue[i + 1], u) /\ r[i].after = prsQueue[i + 1].after /\ i + 1 \in DOMAIN prsQueue
      BY <2>1, <2>2
    <3>2. NoSeedAfter(prsQueue, i + 1)
      <4>1. ASSUME NEW l \in DOMAIN prsQueue, l > i + 1 PROVE prsQueue[l].kind # "seed"
        <5>1. l - 1 \in DOMAIN r /\ r[l - 1] = prsQueue[l] /\ l - 1 > i
          BY <2>1, <4>1
        <5> QED
          BY <5>1, <2>2 DEF NoSeedAfter
      <4> QED
        BY <4>1 DEF NoSeedAfter
    <3>3. ~NewsAfter(i + 1, u) /\ ~Renewal
      BY <2>1, <2>2, NewsWhenDropped
    <3> QED
      BY <3>1, <3>2, <3>3 DEF Linked, QueuedNewsLead
  <2> QED
    BY <2>2 DEF QueuedNewsLead
<1> QED
  BY <1>1, <1>2, <1>3 DEF Linked

(* The head is replaced by the same task a step further.                    *)
SameTask(t, r) ==
    /\ r \in TaskRecs /\ r.kind = t.kind
    /\ t.kind = "observe" => r.user = t.user /\ r.before = t.before /\ r.after = t.after
    /\ t.kind = "seed" => /\ r.gen = t.gen /\ r.live = t.live /\ r.view = t.view /\ r.pc # "waiting"
                          /\ r.pc = "writing" => r.user \in Users
    /\ t.kind = "prove" => r.user = t.user

LEMMA HeadReplaced ==
    ASSUME PresenceTyped, prsQueue # <<>>, NEW r, SameTask(prsQueue[1], r),
           prsQueue' = <<r>> \o Tail(prsQueue)
    PROVE  /\ prsQueue' \in Seq(TaskRecs) /\ SameNews(prsQueue, prsQueue') /\ DOMAIN prsQueue' = DOMAIN prsQueue
           /\ prsQueue'[1] = r /\ 1 \in DOMAIN prsQueue
           /\ \A i \in DOMAIN prsQueue : i \in Nat \ {0} /\ (i = 1 \/ i > 1) /\ (i > 1 => prsQueue'[i] = prsQueue[i])
<1> PICK q : q = prsQueue
  OBVIOUS
<1> PICK s : s = <<r>> \o Tail(q)
  OBVIOUS
<1>1. /\ s \in Seq(TaskRecs) /\ Len(s) = Len(q) /\ s[1] = r
      /\ \A i \in DOMAIN q : i > 1 => s[i] = q[i]
  BY FirstReplaced DEF PresenceTyped, SameTask
<1>2. DOMAIN s = DOMAIN q /\ 1 \in DOMAIN q /\ \A i \in DOMAIN q : i \in Nat \ {0} /\ (i = 1 \/ i > 1)
  BY <1>1 DEF PresenceTyped
<1>3. SameNews(q, s)
  BY <1>1, <1>2 DEF SameNews, SameTask
<1> QED
  BY <1>1, <1>2, <1>3

LEMMA ShapeWhenReplaced ==
    ASSUME PresenceInv, prsQueue # <<>>, NEW r, SameTask(prsQueue[1], r),
           prsQueue' = <<r>> \o Tail(prsQueue),
           UNCHANGED <<prsGen, prsReady, prsCache, prsSpawned, prsDirty>>
    PROVE  Lined'
<1> USE DEF PresenceInv
<1>1. /\ DOMAIN prsQueue' = DOMAIN prsQueue /\ prsQueue'[1] = r
      /\ \A i \in DOMAIN prsQueue : i \in Nat \ {0} /\ (i = 1 \/ i > 1) /\ (i > 1 => prsQueue'[i] = prsQueue[i])
      /\ prsQueue' \in Seq(TaskRecs) /\ SameNews(prsQueue, prsQueue')
  BY HeadReplaced
<1>2. OnlyFirstWorks'
  BY <1>1 DEF Lined, OnlyFirstWorks
<1>3. NoSeedWhenReady'
  BY <1>1 DEF Lined, NoSeedWhenReady, SameNews
<1>4. DirtyCounts'
  <2> PICK q : q = prsQueue'
    OBVIOUS
  <2>0. q \in Seq(TaskRecs) /\ prsQueue \in Seq(TaskRecs) /\ SameNews(prsQueue, q)
    BY <1>1 DEF PresenceTyped
  <2>1. ASSUME NEW u \in Users PROVE Cardinality(NewsOf(q, u)) = Cardinality(NewsOf(prsQueue, u))
    BY <2>0, CountSame
  <2> QED
    BY <2>1 DEF Lined, DirtyCounts
<1>5. SeedsFit'
  <2>1. ASSUME NEW i \in DOMAIN prsQueue, prsQueue'[i].kind = "seed"
        PROVE  /\ SeedFits(prsQueue[i])'
               /\ \A j \in DOMAIN prsQueue : j > i =>
                    /\ prsQueue'[j].kind # "prove"
                    /\ prsQueue'[j].kind = "seed" => prsQueue'[i].gen < prsQueue'[j].gen
    <3> PICK t : t = prsQueue[i]
      OBVIOUS
    <3> PICK s : s = prsQueue'[i]
      OBVIOUS
    <3>1. t.kind = "seed" /\ s.gen = t.gen /\ s.live = t.live /\ s.view = t.view
      BY <1>1, <2>1 DEF SameTask
    <3>2. (s.pc = "waiting" => s.visited = {}) /\ (s.pc = "writing" => s.user \in Users)
      BY <1>1, <2>1 DEF SameTask, Lined, SeedsFit, SeedFits
    <3>3. SeedFits(t) /\ \A j \in DOMAIN prsQueue : j > i =>
                    /\ prsQueue[j].kind # "prove"
                    /\ prsQueue[j].kind = "seed" => t.gen < prsQueue[j].gen
      BY <3>1 DEF Lined, SeedsFit
    <3>4. SeedFits(s)'
      BY <3>1, <3>2, <3>3 DEF SeedFits, Renewal
    <3>5. \A j \in DOMAIN prsQueue : j > i => j > 1
      BY <1>1
    <3> QED
      BY <1>1, <3>1, <3>3, <3>4, <3>5
  <2> QED
    BY <1>1, <2>1 DEF SeedsFit
<1> QED
  BY <1>2, <1>3, <1>4, <1>5 DEF Lined

LEMMA AsksWhenReplaced ==
    ASSUME PresenceInv, prsQueue # <<>>, NEW r, SameTask(prsQueue[1], r),
           prsQueue' = <<r>> \o Tail(prsQueue),
           UNCHANGED <<prsReady, prsTruth, prsMissed, prsSpawned>>
    PROVE  AsksFit'
<1>1. /\ DOMAIN prsQueue' = DOMAIN prsQueue /\ prsQueue'[1] = r
      /\ \A i \in DOMAIN prsQueue : i \in Nat \ {0} /\ (i = 1 \/ i > 1) /\ (i > 1 => prsQueue'[i] = prsQueue[i])
      /\ prsQueue' \in Seq(TaskRecs) /\ SameNews(prsQueue, prsQueue')
  BY HeadReplaced DEF PresenceInv
<1>2. ASSUME NEW i \in DOMAIN prsQueue PROVE AskFits(i)'
  <2>1. prsQueue'[i].kind = prsQueue[i].kind /\ (prsQueue[i].kind = "prove" => prsQueue'[i].user = prsQueue[i].user)
    BY <1>1 DEF SameTask
  <2>2. prsQueue[i].kind = "prove" => prsQueue[i].user \in Users
    BY DEF PresenceInv, PresenceTyped, TaskRecs, SeedRecs, ObserveRecs, ProveRecs
  <2>3. AskFits(i) /\ i \in Nat
    BY <1>1 DEF PresenceInv, Evident, AsksFit
  <2>4. \A u \in Users : NewsAfter(i, u)' <=> NewsAfter(i, u)
    BY <1>1, <2>3, NewsWhenReplaced DEF PresenceInv
  <2>5. Renewal' <=> Renewal
    BY DEF Renewal
  <2> QED
    BY <2>1, <2>2, <2>3, <2>4, <2>5 DEF AskFits
<1> QED
  BY <1>1, <1>2 DEF AsksFit

LEMMA ShapeWhenDropped ==
    ASSUME PresenceInv, prsQueue # <<>>, prsQueue' = Tail(prsQueue),
           UNCHANGED <<prsGen, prsCache, prsSpawned>>
    PROVE  /\ OnlyFirstWorks' /\ SeedsFit'
           /\ prsReady' = prsReady => NoSeedWhenReady'
           /\ prsQueue' # <<>> => prsQueue'[1].pc = "waiting"
<1> USE DEF PresenceInv
<1> PICK r : r = Tail(prsQueue)
  OBVIOUS
<1>1. /\ \A i \in DOMAIN r : i \in Nat \ {0} /\ i + 1 \in DOMAIN prsQueue /\ r[i] = prsQueue[i + 1] /\ i + 1 > 1
      /\ r # <<>> => 1 \in DOMAIN r
  BY TailFacts DEF PresenceTyped
<1>2. \A i \in DOMAIN r : r[i].pc = "waiting"
  BY <1>1 DEF Lined, OnlyFirstWorks
<1>3. prsReady' = prsReady => NoSeedWhenReady'
  BY <1>1 DEF Lined, NoSeedWhenReady
<1>4. SeedsFit'
  <2>1. ASSUME NEW i \in DOMAIN r, r[i].kind = "seed"
        PROVE  SeedFits(r[i])' /\ \A j \in DOMAIN r : j > i =>
                    /\ r[j].kind # "prove"
                    /\ r[j].kind = "seed" => r[i].gen < r[j].gen
    <3> PICK t : t = prsQueue[i + 1]
      OBVIOUS
    <3>1. t = r[i] /\ SeedFits(t) /\ \A j \in DOMAIN prsQueue : j > i + 1 =>
                    /\ prsQueue[j].kind # "prove"
                    /\ prsQueue[j].kind = "seed" => t.gen < prsQueue[j].gen
      BY <1>1, <2>1 DEF Lined, SeedsFit
    <3>2. SeedFits(t)'
      BY <3>1 DEF SeedFits, Renewal
    <3>3. \A j \in DOMAIN r : j > i => j + 1 \in DOMAIN prsQueue /\ j + 1 > i + 1 /\ r[j] = prsQueue[j + 1]
      BY <1>1
    <3> QED
      BY <3>1, <3>2, <3>3
  <2> QED
    BY <2>1 DEF SeedsFit
<1> QED
  BY <1>1, <1>2, <1>3, <1>4 DEF OnlyFirstWorks

(* What the head's successor needs: it has not begun.                       *)
LEMMA EvidenceWhenDropped ==
    ASSUME PresenceInv, prsQueue # <<>>, prsQueue' = Tail(prsQueue),
           UNCHANGED <<prsGen, prsCache, prsSpawned, prsMissed, prsTruth>>,
           prsReady' => prsReady \/ prsQueue[1].kind = "seed",
           MemoryIsSound', (prsVerdict.yes => prsVerdict.real)'
    PROVE  Evident'
<1>1. HeadFits'
  BY ShapeWhenDropped DEF HeadFits, ObserveFits, SeedIsSound, ProofFits
<1>2. AsksFit'
  <2> PICK r : r = Tail(prsQueue)
    OBVIOUS
  <2>1. \A i \in DOMAIN r : i \in Nat \ {0} /\ i + 1 \in DOMAIN prsQueue /\ r[i] = prsQueue[i + 1] /\ i + 1 > 1 /\ 1 \in DOMAIN prsQueue
    BY TailFacts DEF PresenceInv, PresenceTyped
  <2>2. ASSUME NEW i \in DOMAIN r, r[i].kind = "prove", prsReady', ~Renewal'
        PROVE  prsTruth[r[i].user].ch # Nowhere \/ NewsAfter(i, r[i].user)'
    <3>1. prsQueue[1].kind # "seed"
      BY <2>1, <2>2 DEF PresenceInv, Lined, SeedsFit
    <3>2. AskFits(i + 1)
      BY <2>1 DEF PresenceInv, Evident, AsksFit
    <3>3. r[i].user \in Users
      BY <2>1, <2>2 DEF PresenceInv, PresenceTyped, TaskRecs, SeedRecs, ObserveRecs, ProveRecs
    <3>4. (NewsAfter(i, r[i].user)' <=> NewsAfter(i + 1, r[i].user)) /\ (Renewal' <=> Renewal)
      <4> PICK u : u = r[i].user
        OBVIOUS
      <4>1. u \in Users /\ i \in Nat
        BY <3>3, <2>1
      <4> QED
        BY <4>1, NewsWhenDropped DEF PresenceInv
    <3> QED
      BY <2>1, <2>2, <3>1, <3>2, <3>4 DEF AskFits
  <2> QED
    BY <2>2 DEF AsksFit, AskFits
<1> QED
  BY <1>1, <1>2 DEF Evident

LEMMA HeadIsTask ==
    ASSUME PresenceTyped, prsQueue # <<>>
    PROVE  prsQueue[1] \in TaskRecs /\ Presence!Holder = prsQueue[1] /\ 1 \in DOMAIN prsQueue
BY DEF PresenceTyped, Presence!Holder

(* A task that leaves the queue changes the count of its user.              *)
LEMMA CountsWhenDropped ==
    ASSUME PresenceInv, prsQueue # <<>>, prsQueue' = Tail(prsQueue),
           IF prsQueue[1].kind = "observe"
           THEN prsDirty' = [prsDirty EXCEPT ![prsQueue[1].user] = @ - 1]
           ELSE prsDirty' = prsDirty
    PROVE  DirtyCounts' /\ prsDirty' \in [Users -> Int]
<1> USE DEF PresenceInv, PresenceTyped
<1> PICK t : t = prsQueue[1]
  OBVIOUS
<1>1. t \in TaskRecs /\ (t.kind = "observe" => t.user \in Users)
  BY HeadIsTask, TaskKinds DEF ObserveRecs
<1>2. ASSUME NEW u \in Users
      PROVE  prsDirty'[u] = Cardinality(NewsOf(Tail(prsQueue), u))
  <2>1. prsDirty[u] = Cardinality(NewsOf(prsQueue, u)) /\ prsDirty[u] \in Int
    BY DEF Lined, DirtyCounts
  <2>2. Cardinality(NewsOf(Tail(prsQueue), u)) = IF IsNews(t, u) THEN Cardinality(NewsOf(prsQueue, u)) - 1 ELSE Cardinality(NewsOf(prsQueue, u))
    BY CountDropped
  <2>3. prsDirty'[u] = IF IsNews(t, u) THEN prsDirty[u] - 1 ELSE prsDirty[u]
    BY <1>1 DEF IsNews
  <2> QED
    BY <2>1, <2>2, <2>3
<1>3. prsDirty' \in [Users -> Int]
  BY <1>1
<1> QED
  BY <1>2, <1>3 DEF DirtyCounts

-----------------------------------------------------------------------------
(* The tasks at the lock.                                                   *)

(* _persist on a task. *)
Wrote(t, d) == [t EXCEPT !.pc = "writing", !.doc = d]
Took(t, u) == [t EXCEPT !.user = u, !.visited = @ \cup {u}]

LEMMA ObserveWrites ==
    ASSUME NEW t \in ObserveRecs, NEW d \in Docs
    PROVE  \A r : r = Wrote(t, d) =>
              /\ r \in ObserveRecs /\ r.kind = "observe" /\ r.pc = "writing" /\ r.doc = d
              /\ r.user = t.user /\ r.before = t.before /\ r.after = t.after
BY DEF ObserveRecs, Wrote

LEMMA SeedWrites ==
    ASSUME NEW t \in SeedRecs, NEW u \in Users, NEW d \in Docs
    PROVE  \A r : r = Wrote(Took(t, u), d) =>
              /\ r \in SeedRecs /\ r.kind = "seed" /\ r.pc = "writing" /\ r.doc = d /\ r.user = u
              /\ r.visited = t.visited \cup {u}
              /\ r.gen = t.gen /\ r.now = t.now /\ r.live = t.live /\ r.view = t.view /\ r.size = t.size
<1> PICK a : a = Took(t, u)
  OBVIOUS
<1>1. /\ a \in SeedRecs /\ a.user = u /\ a.visited = t.visited \cup {u}
      /\ a.gen = t.gen /\ a.now = t.now /\ a.live = t.live /\ a.view = t.view /\ a.size = t.size
  BY DEF SeedRecs, Took
<1>2. ASSUME NEW r, r = Wrote(a, d)
      PROVE  /\ r \in SeedRecs /\ r.kind = "seed" /\ r.pc = "writing" /\ r.doc = d /\ r.user = a.user
             /\ r.visited = a.visited
             /\ r.gen = a.gen /\ r.now = a.now /\ r.live = a.live /\ r.view = a.view /\ r.size = a.size
  BY <1>1, <1>2 DEF SeedRecs, Wrote
<1> QED
  BY <1>1, <1>2

LEMMA Forgetting ==
    ASSUME PresenceTyped, NEW u \in Users, prsStates' = [prsStates EXCEPT ![u] = Presence!NoObservation]
    PROVE  /\ prsStates' \in [Users -> Docs] /\ prsStates'[u].ch = Nowhere
           /\ \A v \in Users : v # u => prsStates'[v] = prsStates[v]
BY DEF PresenceTyped, Presence!NoObservation, Docs, Places

LEMMA Remembering ==
    ASSUME PresenceTyped, NEW u \in Users, NEW d \in Docs, prsStates' = [prsStates EXCEPT ![u] = d]
    PROVE  /\ prsStates' \in [Users -> Docs] /\ prsStates'[u] = d
           /\ \A v \in Users : v # u => prsStates'[v] = prsStates[v]
BY DEF PresenceTyped

LEMMA ObserveBeginKeeps ==
    ASSUME PresenceInv, Presence!ObserveBegin
    PROVE  PresenceInv'
<1> USE DEF PresenceInv
<1> PICK t : t = prsQueue[1]
  OBVIOUS
<1>1. /\ prsQueue # <<>> /\ t \in ObserveRecs /\ Presence!Holder = t /\ t.pc = "waiting" /\ 1 \in DOMAIN prsQueue
      /\ t.kind = "observe" /\ t.user \in Users /\ t.before \in Places /\ t.after \in Places
      /\ UNCHANGED <<prsClock, prsTruth, prsCache, prsConn, prsMissed, prsMoves, prsDrops, prsSpawned,
                     prsGen, prsReady, prsStored, prsVerdict, prsTroubles>>
  <2>1. prsQueue # <<>> /\ Presence!Holder.kind = "observe" /\ Presence!Holder.pc = "waiting"
    BY DEF Presence!ObserveBegin, Presence!Holds
  <2>2. t \in TaskRecs /\ Presence!Holder = t /\ 1 \in DOMAIN prsQueue
    BY <2>1, HeadIsTask
  <2> QED
    BY <2>1, <2>2, TaskKinds DEF Presence!ObserveBegin, Presence!outside, ObserveRecs
<1>2. CASE ~prsReady
  <2>1. prsQueue' = Tail(prsQueue) /\ prsDirty' = [prsDirty EXCEPT ![t.user] = @ - 1] /\ prsStates' = prsStates
    BY <1>1, <1>2 DEF Presence!ObserveBegin
  <2>2. DirtyCounts' /\ prsDirty' \in [Users -> Int]
    BY <1>1, <2>1, CountsWhenDropped
  <2>3. PresenceTyped'
    BY <1>1, <2>1, <2>2, TailFacts DEF PresenceTyped
  <2>4. Linked'
    BY <1>1, <2>1, LinkedWhenDropped
  <2>5. Lined'
    BY <1>1, <2>1, <2>2, ShapeWhenDropped DEF Lined
  <2>6. Evident'
    <3>1. MemoryIsSound' /\ (prsVerdict.yes => prsVerdict.real)'
      BY <1>1, <1>2 DEF MemoryIsSound, Evident
    <3> QED
      BY <1>1, <2>1, <3>1, EvidenceWhenDropped
  <2> QED
    BY <2>3, <2>4, <2>5, <2>6
<1>3. CASE prsReady
  <2> PICK d : d = [ch |-> t.after, since |-> Presence!Since(t.user, t.before, t.after), at |-> prsClock, gen |-> prsGen]
    OBVIOUS
  <2> PICK r : r = Wrote(t, d)
    OBVIOUS
  <2>1. /\ prsQueue' = <<r>> \o Tail(prsQueue) /\ prsDirty' = prsDirty
        /\ prsStates' = [prsStates EXCEPT ![t.user] = Presence!NoObservation]
    BY <1>1, <1>3 DEF Presence!ObserveBegin, Presence!Writing, Presence!Forgotten, Wrote
  <2>2. d \in Docs
    BY <1>1 DEF PresenceTyped, Docs, Presence!Since
  <2>3. /\ r \in ObserveRecs /\ r.kind = "observe" /\ r.pc = "writing" /\ r.doc = d
        /\ r.user = t.user /\ r.before = t.before /\ r.after = t.after
    BY <1>1, <2>2, ObserveWrites
  <2>4. SameTask(t, r)
    BY <1>1, <2>3 DEF SameTask, TaskRecs
  <2>5. /\ prsQueue' \in Seq(TaskRecs) /\ SameNews(prsQueue, prsQueue') /\ prsQueue'[1] = r
    BY <1>1, <2>1, <2>4, HeadReplaced
  <2>6. /\ prsStates' \in [Users -> Docs] /\ prsStates'[t.user].ch = Nowhere
        /\ \A v \in Users : v # t.user => prsStates'[v] = prsStates[v]
    BY <1>1, <2>1, Forgetting
  <2>7. PresenceTyped'
    BY <1>1, <2>1, <2>5, <2>6 DEF PresenceTyped
  <2>8. Linked'
    BY <1>1, <2>5, LinkedWhenReplaced
  <2>9. Lined'
    BY <1>1, <2>1, <2>4, ShapeWhenReplaced
  <2>10. AsksFit'
    BY <1>1, <2>1, <2>4, AsksWhenReplaced
  <2>11. /\ \A k \in Nat, u \in Users :
                 (NewsAfter(k, u)' <=> NewsAfter(k, u)) /\ (BreakAfter(k, u)' <=> BreakAfter(k, u))
         /\ Renewal' <=> Renewal
    BY <1>1, <2>5, NewsWhenReplaced
  <2>12. MemoryIsSound'
    <3>1. ASSUME NEW u \in Users PROVE Sound(u, prsStates[u], 0)'
      <4> PICK o : o = prsStates'[u]
        OBVIOUS
      <4>1. CASE u = t.user
        BY <4>1, <2>6 DEF Sound
      <4>2. CASE u # t.user
        <5>1. Sound(u, o, 0) /\ o = prsStates[u]
          BY <1>3, <2>6, <4>2 DEF Evident, MemoryIsSound
        <5>2. Sound(u, o, 0)'
          BY <5>1, <1>1, <2>11, SoundStays
        <5> QED
          BY <5>2
      <4> QED
        BY <4>1, <4>2
    <3> QED
      BY <3>1 DEF MemoryIsSound
  <2>13. Sound(t.user, d, 1)
    <3>1. SUFFICES ASSUME t.after # Nowhere, ~Renewal, prsTruth[t.user].ch # Nowhere
                   PROVE  /\ prsTruth[t.user].since <= d.since \/ BreakAfter(1, t.user)
                          /\ prsTruth[t.user].ch = t.after \/ NewsAfter(1, t.user)
      BY DEF Sound
    <3>2. prsTruth[t.user].ch = t.after \/ NewsAfter(1, t.user)
      <4>1. NoSeedAfter(prsQueue, 1) /\ IsNews(t, t.user)
        BY <1>1, <1>3 DEF Lined, NoSeedWhenReady, NoSeedAfter, IsNews
      <4> QED
        BY <4>1, <1>1, <3>1 DEF Linked, QueuedNewsLead
    <3>3. CASE t.before # Nowhere /\ prsStates[t.user].ch = t.before
      <4>1. d.since = prsStates[t.user].since
        BY <3>1, <3>3 DEF Presence!Since
      <4>2. Sound(t.user, prsStates[t.user], 0)
        BY <1>1, <1>3 DEF Evident, MemoryIsSound
      <4>3. prsTruth[t.user].since <= d.since \/ BreakAfter(0, t.user)
        BY <4>1, <4>2, <3>1, <3>3 DEF Sound
      <4>4. BreakAfter(0, t.user) => BreakAfter(1, t.user)
        <5>1. HasBreak(prsQueue, 0, t.user) <=> HasBreak(prsQueue, 1, t.user) \/ (IsNews(t, t.user) /\ Breaks(t))
          BY <1>1, NewsOfHead DEF PresenceTyped
        <5>2. ~Breaks(t)
          BY <3>1, <3>3 DEF Breaks
        <5> QED
          BY <5>1, <5>2 DEF BreakAfter
      <4> QED
        BY <4>3, <4>4, <3>2
    <3>4. CASE ~(t.before # Nowhere /\ prsStates[t.user].ch = t.before)
      <4>1. d.since = prsClock
        BY <3>1, <3>4 DEF Presence!Since
      <4>2. prsTruth[t.user].since <= prsClock
        BY <1>1 DEF Linked, StaysHaveBegun
      <4> QED
        BY <4>1, <4>2, <3>2
    <3> QED
      BY <3>3, <3>4
  <2>14. Sound(t.user, d, 1)'
    <3>1. prsTruth'[t.user] = prsTruth[t.user]
      BY <1>1
    <3> QED
      BY <3>1, <2>13, <2>11, <1>1, SoundStays
  <2>15. (ObserveFits(r) /\ SeedIsSound(r) /\ ProofFits(r))'
    BY <2>3, <2>6, <2>14 DEF ObserveFits, SeedIsSound, ProofFits
  <2>16. Evident'
    BY <1>1, <2>5, <2>10, <2>12, <2>15 DEF Evident, HeadFits
  <2> QED
    BY <2>7, <2>8, <2>9, <2>16
<1> QED
  BY <1>2, <1>3

LEMMA ObserveEndKeeps ==
    ASSUME PresenceInv, Presence!ObserveEnd
    PROVE  PresenceInv'
<1> USE DEF PresenceInv
<1> PICK t : t = prsQueue[1]
  OBVIOUS
<1>1. /\ prsQueue # <<>> /\ t \in ObserveRecs /\ Presence!Holder = t /\ t.pc = "writing" /\ 1 \in DOMAIN prsQueue
      /\ t.kind = "observe" /\ t.user \in Users /\ t.doc \in Docs
      /\ UNCHANGED <<prsClock, prsTruth, prsCache, prsConn, prsMissed, prsMoves, prsDrops, prsSpawned,
                     prsGen, prsReady, prsVerdict>>
      /\ prsQueue' = Tail(prsQueue)
  <2>1. prsQueue # <<>> /\ Presence!Holder.kind = "observe" /\ Presence!Holder.pc = "writing"
    BY DEF Presence!ObserveEnd, Presence!Holds
  <2>2. t \in TaskRecs /\ Presence!Holder = t /\ 1 \in DOMAIN prsQueue
    BY <2>1, HeadIsTask
  <2> QED
    BY <2>1, <2>2, TaskKinds DEF Presence!ObserveEnd, Presence!outside, ObserveRecs
<1>2. /\ prsDirty' = [prsDirty EXCEPT ![t.user] = @ - 1]
      /\ prsStates' = [prsStates EXCEPT ![t.user] = t.doc] \/ prsStates' = prsStates
  BY <1>1 DEF Presence!ObserveEnd, Presence!Written, Presence!Cleaned
<1>3. DirtyCounts' /\ prsDirty' \in [Users -> Int]
  BY <1>1, <1>2, CountsWhenDropped
<1>4. /\ prsStates' \in [Users -> Docs]
      /\ \A v \in Users : v # t.user => prsStates'[v] = prsStates[v]
      /\ prsStates'[t.user] = t.doc \/ prsStates'[t.user] = prsStates[t.user]
  BY <1>1, <1>2, Remembering DEF PresenceTyped
<1>5. PresenceTyped'
  BY <1>1, <1>3, <1>4, TailFacts DEF PresenceTyped
<1>6. Linked'
  BY <1>1, LinkedWhenDropped
<1>7. Lined'
  BY <1>1, <1>3, ShapeWhenDropped DEF Lined
<1>8. ObserveFits(t)
  BY <1>1 DEF Evident, HeadFits
<1>9. /\ \A k \in Nat, u \in Users :
            (NewsAfter(k, u)' <=> NewsAfter(k + 1, u)) /\ (BreakAfter(k, u)' <=> BreakAfter(k + 1, u))
      /\ Renewal' <=> Renewal
  BY <1>1, NewsWhenDropped
<1>10. ASSUME NEW u \in Users, prsReady PROVE Sound(u, prsStates[u], 0)'
  <2> PICK o : o = prsStates'[u]
    OBVIOUS
  <2>0. prsTruth'[u] = prsTruth[u] /\ 0 \in Nat /\ 1 \in Nat /\ 0 + 1 = 1
    BY <1>1
  <2>1. CASE u = t.user
    <3>1. CASE o = t.doc
      <4>1. Sound(u, o, 1)
        BY <1>10, <2>1, <3>1, <1>1, <1>8 DEF ObserveFits
      <4>2. Sound(u, o, 0)'
        BY <4>1, <2>0, <1>9, SoundStays
      <4> QED
        BY <4>2
    <3>2. CASE o = prsStates[u]
      BY <3>2, <2>1, <1>1, <1>8 DEF ObserveFits, Sound
    <3> QED
      BY <3>1, <3>2, <2>1, <1>4
  <2>2. CASE u # t.user
    <3>1. Sound(u, o, 0) /\ o = prsStates[u]
      BY <1>10, <2>2, <1>4 DEF Evident, MemoryIsSound
    <3>2. (NewsAfter(0, u) => NewsAfter(1, u)) /\ (BreakAfter(0, u) => BreakAfter(1, u))
      <4>1. ~IsNews(t, u)
        BY <2>2 DEF IsNews
      <4> QED
        BY <4>1, <1>1, NewsOfHead DEF NewsAfter, BreakAfter, PresenceTyped
    <3>3. Sound(u, o, 0)'
      BY <3>1, <3>2, <2>0, <1>9, SoundStays
    <3> QED
      BY <3>3
  <2> QED
    BY <2>1, <2>2
<1>11. MemoryIsSound'
  BY <1>1, <1>10 DEF MemoryIsSound
<1>12. Evident'
  BY <1>1, <1>11, EvidenceWhenDropped DEF Evident
<1> QED
  BY <1>5, <1>6, <1>7, <1>12

(* A seed at work.                                                          *)
LEMMA SeedAtWork ==
    ASSUME PresenceInv, prsQueue # <<>>, Presence!Holder.kind = "seed"
    PROVE  /\ prsQueue[1] \in SeedRecs /\ Presence!Holder = prsQueue[1] /\ 1 \in DOMAIN prsQueue
           /\ ~prsReady /\ SeedFits(prsQueue[1]) /\ SeedIsSound(prsQueue[1]) /\ prsQueue[1].kind = "seed"
BY HeadIsTask, TaskKinds DEF PresenceInv, Lined, SeedsFit, NoSeedWhenReady, Evident, HeadFits

(* A step of the seed that stays at the lock.                               *)
LEMMA SeedGoesOn ==
    ASSUME PresenceInv, prsQueue # <<>>, Presence!Holder.kind = "seed",
           NEW r, SameTask(prsQueue[1], r), r.kind = "seed",
           prsQueue' = <<r>> \o Tail(prsQueue),
           UNCHANGED <<prsClock, prsTruth, prsCache, prsConn, prsMissed, prsDrops, prsSpawned,
                       prsGen, prsReady, prsDirty, prsVerdict>>,
           prsStates' \in [Users -> Docs],
           SeedIsSound(r)'
    PROVE  PresenceInv'
<1> USE DEF PresenceInv
<1>1. prsQueue' \in Seq(TaskRecs) /\ SameNews(prsQueue, prsQueue') /\ prsQueue'[1] = r
  BY HeadReplaced
<1>2. ~prsReady
  BY SeedAtWork
<1>3. PresenceTyped'
  BY <1>1 DEF PresenceTyped
<1>4. Linked'
  BY <1>1, LinkedWhenReplaced
<1>5. Lined'
  BY ShapeWhenReplaced
<1>6. AsksFit'
  BY AsksWhenReplaced
<1>7. (ObserveFits(r) /\ SeedIsSound(r) /\ ProofFits(r))'
  BY DEF ObserveFits, ProofFits
<1>8. MemoryIsSound' /\ (prsVerdict.yes => prsVerdict.real)'
  BY <1>2 DEF MemoryIsSound, Evident
<1> QED
  BY <1>1, <1>3, <1>4, <1>5, <1>6, <1>7, <1>8 DEF Evident, HeadFits

LEMMA SeedBeginKeeps ==
    ASSUME PresenceInv, Presence!SeedBegin
    PROVE  PresenceInv'
<1> PICK t : t = prsQueue[1]
  OBVIOUS
<1> PICK n : n = Presence!Cardinality(Presence!InVoice)
  OBVIOUS
<1> PICK r : r = [t EXCEPT !.pc = "iterating", !.now = prsClock, !.size = n]
  OBVIOUS
<1>1. /\ prsQueue # <<>> /\ Presence!Holder.kind = "seed" /\ Presence!Holder.pc = "waiting"
      /\ t \in SeedRecs /\ Presence!Holder = t /\ SeedFits(t)
  BY SeedAtWork DEF Presence!SeedBegin, Presence!Holds
<1>2. /\ prsQueue' = <<r>> \o Tail(prsQueue)
      /\ UNCHANGED <<prsClock, prsTruth, prsCache, prsConn, prsMissed, prsDrops, prsSpawned,
                     prsGen, prsReady, prsDirty, prsVerdict, prsStates>>
  BY <1>1 DEF Presence!SeedBegin, Presence!outside, Presence!evidence
<1>3. n \in Sizes
  <2>1. Presence!InVoice \in SUBSET Users
    BY DEF Presence!InVoice
  <2> PICK S : S = Presence!InVoice
    OBVIOUS
  <2> QED
    BY <2>1 DEF Sizes
<1>4. /\ r \in SeedRecs /\ r.kind = "seed" /\ r.pc = "iterating" /\ r.visited = t.visited /\ r.now = prsClock
      /\ r.gen = t.gen /\ r.live = t.live /\ r.view = t.view
  BY <1>1, <1>3 DEF SeedRecs, PresenceInv, PresenceTyped
<1>5. SameTask(t, r)
  BY <1>1, <1>4 DEF SameTask, TaskRecs
<1>6. r.visited = {}
  BY <1>1, <1>4 DEF SeedFits
<1>7. \A u \in Users : prsTruth'[u].since <= r.now
  BY <1>2, <1>4 DEF PresenceInv, Linked, StaysHaveBegun
<1>8. SeedIsSound(r)'
  BY <1>4, <1>6, <1>7 DEF SeedIsSound
<1>9. prsStates' \in [Users -> Docs]
  BY <1>2 DEF PresenceInv, PresenceTyped
<1> QED
  BY <1>1, <1>2, <1>4, <1>5, <1>8, <1>9, SeedGoesOn

(* Nothing is on its way of a user whom a living snapshot shows elsewhere.  *)
LEMMA SeenOrNews ==
    ASSUME PresenceInv, prsQueue # <<>>, NEW u \in Users
    PROVE  prsCache[u] = prsTruth[u].ch \/ HasNews(prsMissed, 0, u)
BY DEF PresenceInv, Linked, FreshIsIdle, MissedLeads, Leads

LEMMA SeedNextKeeps ==
    ASSUME PresenceInv, Presence!SeedNext
    PROVE  PresenceInv'
<1> PICK t : t = prsQueue[1]
  OBVIOUS
<1>1. /\ prsQueue # <<>> /\ Presence!Holder.kind = "seed" /\ Presence!Holder.pc = "iterating"
      /\ t \in SeedRecs /\ Presence!Holder = t /\ SeedFits(t) /\ SeedIsSound(t) /\ t.kind = "seed"
  BY SeedAtWork DEF Presence!SeedNext, Presence!Holds
<1>2. PICK u \in Presence!InVoice \ t.visited :
          Presence!Writing(Took(t, u), u, t.view[u], t.now, t.now)
  BY <1>1 DEF Presence!SeedNext, Took
<1>3. u \in Users
  BY <1>2 DEF Presence!InVoice
<1> PICK d : d = [ch |-> t.view[u], since |-> t.now, at |-> t.now, gen |-> prsGen]
  OBVIOUS
<1> PICK r : r = Wrote(Took(t, u), d)
  OBVIOUS
<1>4. /\ prsQueue' = <<r>> \o Tail(prsQueue)
      /\ prsStates' = [prsStates EXCEPT ![u] = Presence!NoObservation]
      /\ UNCHANGED <<prsClock, prsTruth, prsCache, prsConn, prsMissed, prsDrops, prsSpawned,
                     prsGen, prsReady, prsDirty, prsVerdict>>
  BY <1>1, <1>2 DEF Presence!SeedNext, Presence!Writing, Presence!Forgotten, Presence!outside, Wrote
<1>5. d \in Docs
  BY <1>1, <1>3 DEF SeedRecs, Docs, PresenceInv, PresenceTyped
<1>6. /\ r \in SeedRecs /\ r.kind = "seed" /\ r.pc = "writing" /\ r.doc = d /\ r.user = u
      /\ r.visited = t.visited \cup {u}
      /\ r.gen = t.gen /\ r.now = t.now /\ r.live = t.live /\ r.view = t.view
  BY <1>1, <1>3, <1>5, SeedWrites
<1>7. SameTask(t, r)
  BY <1>1, <1>3, <1>6 DEF SameTask, TaskRecs
<1>8. /\ prsStates' \in [Users -> Docs] /\ \A v \in Users : v # u => prsStates'[v] = prsStates[v]
  BY <1>3, <1>4, Forgetting DEF PresenceInv
<1>9. /\ \A k \in Nat, v \in Users :
            (NewsAfter(k, v)' <=> NewsAfter(k, v)) /\ (BreakAfter(k, v)' <=> BreakAfter(k, v))
      /\ Renewal' <=> Renewal
  BY <1>1, <1>4, <1>7, HeadReplaced, NewsWhenReplaced DEF PresenceInv
<1>10. SeedIsSound(r)'
  <2>1. SUFFICES ASSUME t.gen = prsGen
                 PROVE  (/\ \A v \in Users : prsTruth[v].since <= t.now \/ BreakAfter(0, v) \/ Renewal
                         /\ \A v \in t.visited : v # u => Sound(v, prsStates[v], 0)
                         /\ Sound(u, d, 0))'
    BY SMTT(30), <1>4, <1>6 DEF SeedIsSound
  <2>2. /\ \A v \in Users : prsTruth[v].since <= t.now \/ BreakAfter(0, v) \/ Renewal
        /\ \A v \in t.visited : Sound(v, prsStates[v], 0)
        /\ t.visited \subseteq Users
    BY <1>1, <2>1 DEF SeedIsSound, SeedRecs
  <2>3. \A v \in Users : prsTruth'[v].since <= t.now \/ BreakAfter(0, v)' \/ Renewal'
    BY <1>4, <1>9, <2>2
  <2>4. ASSUME NEW v \in t.visited, v # u PROVE Sound(v, prsStates[v], 0)'
    <3> PICK o : o = prsStates'[v]
      OBVIOUS
    <3>1. v \in Users /\ Sound(v, o, 0) /\ prsTruth'[v] = prsTruth[v]
      BY <2>2, <2>4, <1>8, <1>4
    <3>2. Sound(v, o, 0)'
      BY <3>1, <1>9, SoundStays
    <3> QED
      BY <3>2
  <2>5. Sound(u, d, 0)
    <3>1. ~Renewal => t.view = prsCache
      BY <1>1, <2>1 DEF SeedFits, SeedRecs
    <3>2. prsCache[u] = prsTruth[u].ch \/ NewsAfter(0, u)
      BY <1>1, <1>3, SeenOrNews DEF NewsAfter
    <3> QED
      BY <3>1, <3>2, <2>2, <1>3 DEF Sound
  <2>6. Sound(u, d, 0)'
    <3>1. prsTruth'[u] = prsTruth[u]
      BY <1>4
    <3> QED
      BY <3>1, <2>5, <1>3, <1>9, SoundStays
  <2> QED
    BY <2>3, <2>4, <2>6
<1> QED
  BY <1>1, <1>4, <1>6, <1>7, <1>8, <1>10, SeedGoesOn

(* A seed that leaves the lock.                                             *)
LEMMA SeedLeaves ==
    ASSUME PresenceInv, prsQueue # <<>>, Presence!Holder.kind = "seed", prsQueue' = Tail(prsQueue),
           UNCHANGED <<prsClock, prsTruth, prsCache, prsConn, prsMissed, prsDrops, prsSpawned,
                       prsGen, prsDirty, prsVerdict>>,
           prsStates' = prsStates, prsReady' \in BOOLEAN,
           NoSeedWhenReady', MemoryIsSound'
    PROVE  PresenceInv'
<1> USE DEF PresenceInv
<1>1. prsQueue[1].kind = "seed"
  BY SeedAtWork
<1>2. DirtyCounts'
  BY <1>1, CountsWhenDropped
<1>3. PresenceTyped'
  BY TailFacts DEF PresenceTyped
<1>4. Linked'
  BY LinkedWhenDropped
<1>5. Lined'
  BY <1>2, ShapeWhenDropped DEF Lined
<1>6. Evident'
  BY <1>1, EvidenceWhenDropped DEF Evident
<1> QED
  BY <1>3, <1>4, <1>5, <1>6

LEMMA SeedWrittenKeeps ==
    ASSUME PresenceInv, Presence!SeedWritten
    PROVE  PresenceInv'
<1> PICK t : t = prsQueue[1]
  OBVIOUS
<1>1. /\ prsQueue # <<>> /\ Presence!Holder.kind = "seed" /\ t.pc = "writing"
      /\ t \in SeedRecs /\ Presence!Holder = t /\ SeedFits(t) /\ SeedIsSound(t) /\ t.kind = "seed" /\ ~prsReady
  BY SeedAtWork DEF Presence!SeedWritten, Presence!Holds
<1>2. UNCHANGED <<prsClock, prsTruth, prsCache, prsConn, prsMissed, prsDrops, prsSpawned,
                  prsGen, prsReady, prsDirty, prsVerdict>>
  BY DEF Presence!SeedWritten, Presence!outside
<1> PICK r : r = [t EXCEPT !.pc = "iterating", !.doc = Presence!NoObservation]
  OBVIOUS
<1>3. CASE /\ prsStates' = [prsStates EXCEPT ![t.user] = t.doc]
           /\ prsQueue' = <<r>> \o Tail(prsQueue)
  <2>1. Presence!NoObservation \in Docs
    BY DEF Presence!NoObservation, Docs, Places
  <2>2. /\ r \in SeedRecs /\ r.kind = "seed" /\ r.pc = "iterating" /\ r.user = t.user
        /\ r.visited = t.visited /\ r.now = t.now
        /\ r.gen = t.gen /\ r.live = t.live /\ r.view = t.view
    BY <1>1, <2>1 DEF SeedRecs
  <2>3. SameTask(t, r)
    BY <1>1, <2>2 DEF SameTask, TaskRecs
  <2>4. t.user \in Users /\ t.doc \in Docs
    BY <1>1 DEF SeedFits, SeedRecs
  <2>5. /\ prsStates' \in [Users -> Docs] /\ prsStates'[t.user] = t.doc
        /\ \A v \in Users : v # t.user => prsStates'[v] = prsStates[v]
    BY <1>3, <2>4, Remembering DEF PresenceInv
  <2>6. /\ \A k \in Nat, v \in Users :
              (NewsAfter(k, v)' <=> NewsAfter(k, v)) /\ (BreakAfter(k, v)' <=> BreakAfter(k, v))
        /\ Renewal' <=> Renewal
    BY <1>1, <1>2, <1>3, <2>3, HeadReplaced, NewsWhenReplaced DEF PresenceInv
  <2>7. SeedIsSound(r)'
    <3>1. SUFFICES ASSUME t.gen = prsGen
                   PROVE  (/\ \A v \in Users : prsTruth[v].since <= t.now \/ BreakAfter(0, v) \/ Renewal
                           /\ \A v \in t.visited : Sound(v, prsStates[v], 0))'
      BY <1>2, <2>2 DEF SeedIsSound
    <3>2. /\ \A v \in Users : prsTruth[v].since <= t.now \/ BreakAfter(0, v) \/ Renewal
          /\ \A v \in t.visited : v # t.user => Sound(v, prsStates[v], 0)
          /\ Sound(t.user, t.doc, 0)
          /\ t.visited \subseteq Users
      BY <1>1, <3>1 DEF SeedIsSound, SeedRecs
    <3>3. \A v \in Users : prsTruth'[v].since <= t.now \/ BreakAfter(0, v)' \/ Renewal'
      BY <1>2, <2>6, <3>2
    <3>4. ASSUME NEW v \in t.visited PROVE Sound(v, prsStates[v], 0)'
      <4> PICK o : o = prsStates'[v]
        OBVIOUS
      <4>1. v \in Users /\ Sound(v, o, 0) /\ prsTruth'[v] = prsTruth[v]
        BY <3>2, <3>4, <2>5, <1>2
      <4>2. Sound(v, o, 0)'
        BY <4>1, <2>6, SoundStays
      <4> QED
        BY <4>2
    <3> QED
      BY <3>3, <3>4
  <2> QED
    BY <1>1, <1>2, <1>3, <2>2, <2>3, <2>5, <2>7, SeedGoesOn
<1>4. CASE prsStates' = prsStates /\ prsQueue' = Tail(prsQueue)
  <2>1. ~prsReady'
    BY <1>1, <1>2
  <2>2. NoSeedWhenReady' /\ MemoryIsSound'
    BY <2>1 DEF NoSeedWhenReady, MemoryIsSound
  <2>3. prsReady' \in BOOLEAN
    BY <1>2 DEF PresenceInv, PresenceTyped
  <2> QED
    BY <1>1, <1>2, <1>4, <2>2, <2>3, SeedLeaves
<1> QED
  BY <1>1, <1>3, <1>4 DEF Presence!SeedWritten, Presence!Written

(* Among the news that were missed there is a first one.                    *)
LEMMA FirstNews ==
    ASSUME NEW T, NEW s \in Seq(T), NEW u, HasNews(s, 0, u)
    PROVE  \E i \in DOMAIN s : IsNews(s[i], u) /\ NoneBetween(s, 0, i, u)
<1>1. NewsOf(s, u) \in SUBSET Nat /\ NewsOf(s, u) # {}
  BY DEF NewsOf, HasNews
<1>2. PICK i \in NewsOf(s, u) : \A l \in NewsOf(s, u) : i <= l
  BY <1>1, LeastNumber
<1>3. NoneBetween(s, 0, i, u)
  BY <1>1, <1>2 DEF NoneBetween, NewsOf
<1> QED
  BY <1>2, <1>3 DEF NewsOf

LEMMA SeedEndKeeps ==
    ASSUME PresenceInv, Presence!SeedEnd
    PROVE  PresenceInv'
<1> PICK t : t = prsQueue[1]
  OBVIOUS
<1>1. /\ prsQueue # <<>> /\ Presence!Holder.kind = "seed" /\ t.pc = "iterating"
      /\ t \in SeedRecs /\ Presence!Holder = t /\ SeedFits(t) /\ SeedIsSound(t) /\ t.kind = "seed" /\ ~prsReady
      /\ 1 \in DOMAIN prsQueue
  BY SeedAtWork DEF Presence!SeedEnd, Presence!Holds
<1>2. /\ UNCHANGED <<prsClock, prsTruth, prsCache, prsConn, prsMissed, prsDrops, prsSpawned,
                     prsGen, prsStates, prsDirty, prsVerdict>>
      /\ prsQueue' = Tail(prsQueue)
  BY DEF Presence!SeedEnd, Presence!outside
<1>3. CASE ~prsReady'
  <2>1. NoSeedWhenReady' /\ MemoryIsSound' /\ prsReady' = FALSE
    BY <1>1, <1>3 DEF NoSeedWhenReady, MemoryIsSound, Presence!SeedEnd, PresenceInv, PresenceTyped
  <2> QED
    BY <1>1, <1>2, <2>1, SeedLeaves
<1>4. CASE prsReady'
  <2>1. prsReady' = TRUE /\ t.gen = prsGen /\ Presence!InVoice \subseteq t.visited
    BY <1>1, <1>4 DEF Presence!SeedEnd, Presence!SnapshotStands, PresenceInv, PresenceTyped
  <2>2. NoSeedWhenReady'
    <3> PICK r : r = Tail(prsQueue)
      OBVIOUS
    <3>1. \A i \in DOMAIN r : i \in Nat /\ i + 1 \in DOMAIN prsQueue /\ r[i] = prsQueue[i + 1] /\ i + 1 > 1
      BY <1>1, TailFacts DEF PresenceInv, PresenceTyped
    <3>2. ASSUME NEW i \in DOMAIN r, r[i].kind = "seed" PROVE FALSE
      <4> PICK s : s = prsQueue[i + 1]
        OBVIOUS
      <4>1. s = r[i] /\ t.gen < s.gen
        BY <1>1, <3>1, <3>2 DEF PresenceInv, Lined, SeedsFit
      <4>2. s.gen <= prsGen
        BY <3>1, <3>2, <4>1 DEF PresenceInv, Lined, SeedsFit, SeedFits
      <4>3. s \in SeedRecs
        BY <3>1, <3>2, <4>1, TaskKinds DEF PresenceInv, PresenceTyped
      <4> QED
        BY <4>1, <4>2, <4>3, <2>1 DEF SeedRecs, PresenceInv, PresenceTyped
    <3> QED
      BY <1>2, <3>2 DEF NoSeedWhenReady
  <2>3. ASSUME NEW u \in Users PROVE Sound(u, prsStates[u], 0)
    <3>1. CASE u \in t.visited
      BY <1>1, <2>1, <3>1 DEF SeedIsSound
    <3>2. CASE u \notin t.visited
      <4>1. SUFFICES ASSUME ~Renewal, prsTruth[u].ch # Nowhere
                     PROVE  BreakAfter(0, u) /\ NewsAfter(0, u)
        BY DEF Sound
      <4>2. prsCache[u] = Nowhere
        <5>1. t.view = prsCache
          BY <1>1, <2>1, <4>1 DEF SeedFits, SeedRecs
        <5>2. t.view[u] = Nowhere
          BY <1>1, <2>1, <3>2 DEF Presence!InVoice
        <5> QED
          BY <5>1, <5>2
      <4>3. HasNews(prsMissed, 0, u)
        BY <1>1, <4>1, <4>2, SeenOrNews
      <4>4. PICK i \in DOMAIN prsMissed : IsNews(prsMissed[i], u) /\ NoneBetween(prsMissed, 0, i, u)
        BY <4>3, FirstNews DEF PresenceInv, PresenceTyped
      <4>5. prsMissed[i].before = Nowhere
        BY <1>1, <4>2, <4>4 DEF PresenceInv, Linked, FreshIsIdle, MissedLeads, Leads
      <4>6. HasBreak(prsMissed, 0, u)
        <5>1. i > 0
          BY DEF PresenceInv, PresenceTyped
        <5> QED
          BY <5>1, <4>4, <4>5 DEF HasBreak, Breaks
      <4> QED
        BY <4>3, <4>6 DEF NewsAfter, BreakAfter
    <3> QED
      BY <3>1, <3>2
  <2>4. /\ \A k \in Nat, v \in Users :
              (NewsAfter(k, v)' <=> NewsAfter(k + 1, v)) /\ (BreakAfter(k, v)' <=> BreakAfter(k + 1, v))
        /\ Renewal' <=> Renewal
    BY <1>1, <1>2, NewsWhenDropped DEF PresenceInv
  <2>5. ASSUME NEW u \in Users PROVE Sound(u, prsStates[u], 0)'
    <3> PICK o : o = prsStates[u]
      OBVIOUS
    <3>1. (NewsAfter(0, u) => NewsAfter(1, u)) /\ (BreakAfter(0, u) => BreakAfter(1, u))
      <4>1. ~IsNews(t, u)
        BY <1>1 DEF IsNews
      <4> QED
        BY <4>1, <1>1, NewsOfHead DEF NewsAfter, BreakAfter, PresenceInv, PresenceTyped
    <3>2. /\ prsTruth'[u] = prsTruth[u] /\ prsStates'[u] = o /\ Sound(u, o, 0)
          /\ 0 \in Nat /\ 0 + 1 = 1
      BY <1>2, <2>3
    <3>3. Sound(u, o, 0)'
      BY <3>1, <3>2, <2>4, SoundStays
    <3> QED
      BY <3>2, <3>3
  <2>6. MemoryIsSound'
    BY <2>5 DEF MemoryIsSound
  <2> QED
    BY <1>1, <1>2, <2>1, <2>2, <2>6, SeedLeaves
<1> QED
  BY <1>3, <1>4

(* A proof at work.                                                         *)
LEMMA ProofAtWork ==
    ASSUME PresenceInv, prsQueue # <<>>, Presence!Holder.kind = "prove"
    PROVE  /\ prsQueue[1] \in ProveRecs /\ Presence!Holder = prsQueue[1] /\ 1 \in DOMAIN prsQueue
           /\ ProofFits(prsQueue[1]) /\ prsQueue[1].kind = "prove"
           /\ prsQueue[1].user \in Users /\ prsQueue[1].live \in Channels
BY HeadIsTask, TaskKinds DEF PresenceInv, Evident, HeadFits, ProveRecs

LEMMA ProofGoesOn ==
    ASSUME PresenceInv, prsQueue # <<>>, Presence!Holder.kind = "prove",
           NEW r, SameTask(prsQueue[1], r), r.kind = "prove",
           prsQueue' = <<r>> \o Tail(prsQueue),
           UNCHANGED <<prsClock, prsTruth, prsCache, prsConn, prsMissed, prsDrops, prsSpawned,
                       prsGen, prsReady, prsDirty, prsVerdict, prsStates>>,
           ProofFits(r)
    PROVE  PresenceInv'
<1> USE DEF PresenceInv
<1>1. prsQueue' \in Seq(TaskRecs) /\ SameNews(prsQueue, prsQueue') /\ prsQueue'[1] = r
  BY HeadReplaced
<1>3. PresenceTyped'
  BY <1>1 DEF PresenceTyped
<1>4. Linked'
  BY <1>1, LinkedWhenReplaced
<1>5. Lined'
  BY ShapeWhenReplaced
<1>6. AsksFit'
  BY AsksWhenReplaced
<1>7. (ObserveFits(r) /\ SeedIsSound(r) /\ ProofFits(r))'
  BY DEF ObserveFits, SeedIsSound, ProofFits, Presence!LocalProof
<1>8. /\ \A k \in Nat, v \in Users :
            (NewsAfter(k, v)' <=> NewsAfter(k, v)) /\ (BreakAfter(k, v)' <=> BreakAfter(k, v))
      /\ Renewal' <=> Renewal
  BY <1>1, NewsWhenReplaced
<1>9. ASSUME NEW u \in Users, prsReady PROVE Sound(u, prsStates[u], 0)'
  <2> PICK o : o = prsStates[u]
    OBVIOUS
  <2>1. Sound(u, o, 0) /\ prsStates'[u] = o /\ prsTruth'[u] = prsTruth[u]
    BY <1>9 DEF Evident, MemoryIsSound
  <2>2. Sound(u, o, 0)'
    BY <2>1, <1>8, SoundStays
  <2> QED
    BY <2>1, <2>2
<1>10. MemoryIsSound' /\ (prsVerdict.yes => prsVerdict.real)'
  BY <1>9 DEF MemoryIsSound, Evident
<1> QED
  BY <1>1, <1>3, <1>4, <1>5, <1>6, <1>7, <1>10 DEF Evident, HeadFits

LEMMA ProofLeaves ==
    ASSUME PresenceInv, prsQueue # <<>>, Presence!Holder.kind = "prove",
           prsQueue' = Tail(prsQueue),
           UNCHANGED <<prsClock, prsTruth, prsCache, prsConn, prsMissed, prsDrops, prsSpawned,
                       prsGen, prsReady, prsDirty, prsStates>>,
           (prsVerdict.yes => prsVerdict.real)'
    PROVE  PresenceInv'
<1> USE DEF PresenceInv
<1>1. prsQueue[1].kind = "prove" /\ 1 \in DOMAIN prsQueue
  BY ProofAtWork
<1>2. DirtyCounts'
  BY <1>1, CountsWhenDropped
<1>3. PresenceTyped'
  BY TailFacts DEF PresenceTyped
<1>4. Linked'
  BY LinkedWhenDropped
<1>5. Lined'
  BY <1>2, ShapeWhenDropped DEF Lined
<1>6. /\ \A k \in Nat, v \in Users :
            (NewsAfter(k, v)' <=> NewsAfter(k + 1, v)) /\ (BreakAfter(k, v)' <=> BreakAfter(k + 1, v))
      /\ Renewal' <=> Renewal
  BY NewsWhenDropped
<1>7. ASSUME NEW u \in Users, prsReady PROVE Sound(u, prsStates[u], 0)'
  <2> PICK o : o = prsStates[u]
    OBVIOUS
  <2>1. (NewsAfter(0, u) => NewsAfter(1, u)) /\ (BreakAfter(0, u) => BreakAfter(1, u))
    <3>1. ~IsNews(prsQueue[1], u)
      BY <1>1 DEF IsNews
    <3> QED
      BY <3>1, NewsOfHead DEF NewsAfter, BreakAfter, PresenceTyped
  <2>2. /\ Sound(u, o, 0) /\ prsStates'[u] = o /\ prsTruth'[u] = prsTruth[u]
        /\ 0 \in Nat /\ 0 + 1 = 1
    BY <1>7 DEF Evident, MemoryIsSound
  <2>3. Sound(u, o, 0)'
    BY <2>1, <2>2, <1>6, SoundStays
  <2> QED
    BY <2>2, <2>3
<1>8. MemoryIsSound'
  BY <1>7 DEF MemoryIsSound
<1>9. Evident'
  BY <1>8, EvidenceWhenDropped
<1> QED
  BY <1>3, <1>4, <1>5, <1>9

(* With the memory sound and no news of the user, what it says is so.       *)
LEMMA MemoryProves ==
    ASSUME PresenceInv, prsQueue # <<>>, Presence!Holder.kind = "prove",
           Presence!StillClean(prsQueue[1].user), Presence!Told(prsQueue[1].user),
           Presence!LocalProof(prsStates[prsQueue[1].user], prsQueue[1].live)
    PROVE  Presence!InVoiceSinceDue(prsQueue[1].user, prsQueue[1].live)
<1> PICK t : t = prsQueue[1]
  OBVIOUS
<1> PICK u : u = t.user
  OBVIOUS
<1>1. u \in Users /\ t.live \in Channels /\ t.live # Nowhere /\ t.kind = "prove" /\ 1 \in DOMAIN prsQueue
  BY ProofAtWork, SessionConstants
<1>2. prsReady /\ prsDirty[u] = 0
  BY DEF Presence!StillClean
<1>3. ~Renewal /\ ~HasNews(prsSpawned, 0, u) /\ ~HasNews(prsMissed, 0, u)
  BY DEF Presence!Told, Renewal, HasNews, IsNews
<1>4. ~HasNews(prsQueue, 0, u)
  <2>1. Cardinality(NewsOf(prsQueue, u)) = 0
    BY <1>1, <1>2 DEF PresenceInv, Lined, DirtyCounts
  <2>2. NewsOf(prsQueue, u) = {}
    BY <2>1, NewsAreFinite, FS_EmptySet DEF PresenceInv, PresenceTyped
  <2> QED
    BY <2>2 DEF NewsOf, HasNews
<1>5. ~NewsAfter(0, u) /\ ~BreakAfter(0, u) /\ ~NewsAfter(1, u)
  BY <1>3, <1>4 DEF NewsAfter, BreakAfter, HasNews, HasBreak, PresenceInv, PresenceTyped
<1>6. prsTruth[u].ch # Nowhere
  BY <1>1, <1>2, <1>3, <1>5 DEF PresenceInv, Evident, AsksFit, AskFits
<1>7. Sound(u, prsStates[u], 0)
  BY <1>1, <1>2 DEF PresenceInv, Evident, MemoryIsSound
<1>8. prsStates[u].ch = t.live /\ prsStates[u].since < Due
  BY DEF Presence!LocalProof
<1>9. prsTruth[u].ch = t.live /\ prsTruth[u].since <= prsStates[u].since
  BY <1>1, <1>3, <1>5, <1>6, <1>7, <1>8 DEF Sound
<1>10. prsTruth[u].since \in Nat /\ prsStates[u].since \in Nat /\ Due \in Nat
  BY <1>1, DeadlineAssumption DEF PresenceInv, PresenceTyped, Docs
<1> QED
  BY <1>8, <1>9, <1>10 DEF Presence!InVoiceSinceDue

LEMMA ProveBeginKeeps ==
    ASSUME PresenceInv, Presence!ProveBegin
    PROVE  PresenceInv'
<1> PICK t : t = prsQueue[1]
  OBVIOUS
<1>1. /\ prsQueue # <<>> /\ Presence!Holder.kind = "prove"
      /\ t \in ProveRecs /\ Presence!Holder = t /\ t.kind = "prove" /\ t.user \in Users /\ t.live \in Channels
  BY ProofAtWork DEF Presence!ProveBegin, Presence!Holds
<1>2. UNCHANGED <<prsClock, prsTruth, prsCache, prsConn, prsMissed, prsDrops, prsSpawned,
                  prsGen, prsReady, prsDirty, prsStates>>
  BY DEF Presence!ProveBegin, Presence!outside, Presence!evidence
<1>3. CASE ~Presence!StillClean(t.user)
  <2>1. prsQueue' = Tail(prsQueue) /\ prsVerdict' = [yes |-> FALSE, real |-> t.real]
    BY <1>1, <1>3 DEF Presence!ProveBegin, Presence!Answer
  <2> QED
    BY <1>1, <1>2, <2>1, ProofLeaves
<1>4. CASE Presence!StillClean(t.user)
  <2> PICK b : b = (Presence!Told(t.user) => Presence!InVoiceSinceDue(t.user, t.live))
    OBVIOUS
  <2> PICK r : r = [t EXCEPT !.pc = "leasing", !.real = b]
    OBVIOUS
  <2>1. prsQueue' = <<r>> \o Tail(prsQueue) /\ prsVerdict' = prsVerdict
    BY <1>1, <1>4 DEF Presence!ProveBegin
  <2>2. b \in BOOLEAN
    OBVIOUS
  <2>3. r \in ProveRecs /\ r.kind = "prove" /\ r.pc = "leasing" /\ r.real = b /\ r.user = t.user /\ r.live = t.live
    BY <1>1, <2>2 DEF ProveRecs
  <2>4. SameTask(t, r)
    BY <1>1, <2>3 DEF SameTask, TaskRecs
  <2>5. b \/ ~Presence!LocalProof(prsStates[t.user], t.live)
    BY <1>1, <1>4, MemoryProves
  <2>6. ProofFits(r)
    BY <2>3, <2>5 DEF ProofFits
  <2> QED
    BY <1>1, <1>2, <2>1, <2>3, <2>4, <2>6, ProofGoesOn
<1> QED
  BY <1>3, <1>4

LEMMA ProveLocalKeeps ==
    ASSUME PresenceInv, Presence!ProveLocal
    PROVE  PresenceInv'
<1> PICK t : t = prsQueue[1]
  OBVIOUS
<1> PICK o : o = prsStates[t.user]
  OBVIOUS
<1>1. /\ prsQueue # <<>> /\ Presence!Holder.kind = "prove" /\ t.pc = "leasing"
      /\ t \in ProveRecs /\ Presence!Holder = t /\ t.kind = "prove" /\ ProofFits(t)
      /\ o \in Docs
  BY ProofAtWork DEF Presence!ProveLocal, Presence!Holds, PresenceInv, PresenceTyped
<1>2. UNCHANGED <<prsClock, prsTruth, prsCache, prsConn, prsMissed, prsDrops, prsSpawned,
                  prsGen, prsReady, prsDirty, prsStates>>
  BY DEF Presence!ProveLocal, Presence!outside, Presence!evidence
<1> PICK r : r = [t EXCEPT !.pc = "finding", !.since = o.since, !.at = o.at]
  OBVIOUS
<1>3. CASE Presence!LocalProof(o, t.live) /\ prsQueue' = <<r>> \o Tail(prsQueue) /\ prsVerdict' = prsVerdict
  <2>1. r \in ProveRecs /\ r.kind = "prove" /\ r.pc = "finding" /\ r.real = t.real /\ r.user = t.user
    BY <1>1 DEF ProveRecs, Docs
  <2>2. SameTask(t, r)
    BY <1>1, <2>1 DEF SameTask, TaskRecs
  <2>3. ProofFits(r)
    BY <1>1, <1>3, <2>1 DEF ProofFits
  <2> QED
    BY <1>1, <1>2, <1>3, <2>1, <2>2, <2>3, ProofGoesOn
<1>4. CASE prsQueue' = Tail(prsQueue) /\ prsVerdict' = [yes |-> FALSE, real |-> t.real]
  BY <1>1, <1>2, <1>4, ProofLeaves
<1> QED
  BY <1>1, <1>3, <1>4 DEF Presence!ProveLocal, Presence!Answer

LEMMA ProveStoredKeeps ==
    ASSUME PresenceInv, Presence!ProveStored
    PROVE  PresenceInv'
<1> PICK t : t = prsQueue[1]
  OBVIOUS
<1>1. /\ prsQueue # <<>> /\ Presence!Holder.kind = "prove" /\ t.pc = "finding"
      /\ t \in ProveRecs /\ Presence!Holder = t /\ t.kind = "prove" /\ ProofFits(t)
  BY ProofAtWork DEF Presence!ProveStored, Presence!Holds
<1>2. UNCHANGED <<prsClock, prsTruth, prsCache, prsConn, prsMissed, prsDrops, prsSpawned,
                  prsGen, prsReady, prsDirty, prsStates>>
  BY DEF Presence!ProveStored, Presence!outside, Presence!evidence
<1>3. prsQueue' = Tail(prsQueue) /\ prsVerdict'.real = t.real
  BY <1>1 DEF Presence!ProveStored, Presence!Answer
<1>4. t.real
  BY <1>1 DEF ProofFits
<1> QED
  BY <1>1, <1>2, <1>3, <1>4, ProofLeaves

-----------------------------------------------------------------------------
(* The world: members, connection, callbacks.                               *)

LEMMA SeenTask ==
    ASSUME NEW t \in TaskRecs, NEW u \in Users, NEW ch \in Places, NEW r, r = Presence!Seen(t, u, ch)
    PROVE  /\ r \in TaskRecs /\ r.kind = t.kind /\ r.pc = t.pc
           /\ t.kind # "seed" => r = t
           /\ t.kind = "seed" =>
                 /\ r.gen = t.gen /\ r.now = t.now /\ r.user = t.user /\ r.doc = t.doc
                 /\ r.visited \subseteq t.visited /\ r.live = t.live
                 /\ t.live => r.view = [t.view EXCEPT ![u] = ch]
<1>1. CASE t.kind # "seed" \/ ~t.live
  BY <1>1 DEF Presence!Seen
<1>2. CASE t.kind = "seed" /\ t.live
  <2>1. t \in SeedRecs
    BY <1>2, TaskKinds
  <2> PICK w : w = IF ch = Nowhere THEN t.visited \ {u} ELSE t.visited
    OBVIOUS
  <2> PICK y : y = [t.view EXCEPT ![u] = ch]
    OBVIOUS
  <2>2. w \subseteq t.visited /\ t.visited \subseteq Users /\ y \in [Users -> Places]
    BY <2>1 DEF SeedRecs
  <2>3. r = [t EXCEPT !.view = y, !.visited = w]
    BY <1>2, <2>1 DEF Presence!Seen, SeedRecs
  <2>4. /\ r \in SeedRecs /\ r.kind = t.kind /\ r.pc = t.pc /\ r.gen = t.gen /\ r.now = t.now
        /\ r.user = t.user /\ r.doc = t.doc /\ r.visited = w /\ r.live = t.live /\ r.view = y
    BY <2>1, <2>2, <2>3 DEF SeedRecs
  <2> QED
    BY <1>2, <2>2, <2>4 DEF TaskRecs
<1> QED
  BY <1>1, <1>2

LEMMA QueueMapped ==
    ASSUME PresenceTyped, NEW s, s = [i \in DOMAIN prsQueue |-> s[i]],
           \A i \in DOMAIN prsQueue :
              /\ s[i] \in TaskRecs /\ s[i].kind = prsQueue[i].kind /\ s[i].pc = prsQueue[i].pc
              /\ prsQueue[i].kind # "seed" => s[i] = prsQueue[i]
              /\ prsQueue[i].kind = "seed" =>
                    /\ s[i].gen = prsQueue[i].gen /\ s[i].now = prsQueue[i].now
                    /\ s[i].user = prsQueue[i].user /\ s[i].doc = prsQueue[i].doc
                    /\ s[i].visited \subseteq prsQueue[i].visited
    PROVE  s \in Seq(TaskRecs) /\ GoesOn(prsQueue, s) /\ SameNews(prsQueue, s) /\ Len(s) = Len(prsQueue)
<1>1. DOMAIN prsQueue = 1 .. Len(prsQueue) /\ Len(prsQueue) \in Nat
  BY DEF PresenceTyped
<1>2. s \in Seq(TaskRecs) /\ Len(s) = Len(prsQueue) /\ DOMAIN s = DOMAIN prsQueue
  BY <1>1
<1>3. GoesOn(prsQueue, s)
  BY <1>1, <1>2 DEF GoesOn
<1> QED
  BY <1>2, <1>3 DEF SameNews

(* A callback is spawned: the news behind, the seeds.                       *)
LEMMA RenewalOfAppend ==
    ASSUME PresenceTyped, NEW e \in SpawnRecs, prsSpawned' = Append(prsSpawned, e)
    PROVE  Renewal' <=> Renewal \/ e.kind = "seed"
<1> PICK s : s = Append(prsSpawned, e)
  OBVIOUS
<1>1. /\ DOMAIN s = 1 .. Len(prsSpawned) + 1 /\ DOMAIN prsSpawned = 1 .. Len(prsSpawned) /\ Len(prsSpawned) \in Nat
      /\ s[Len(prsSpawned) + 1] = e /\ \A i \in 1 .. Len(prsSpawned) : s[i] = prsSpawned[i]
  BY DEF PresenceTyped
<1> QED
  BY <1>1 DEF Renewal

LEMMA ArrivesFacts ==
    ASSUME PresenceInv, NEW e \in NewsRecs, Presence!Arrives(e)
    PROVE  /\ prsQueue' \in Seq(TaskRecs) /\ GoesOn(prsQueue, prsQueue') /\ SameNews(prsQueue, prsQueue')
           /\ Len(prsQueue') = Len(prsQueue)
           /\ \A i \in DOMAIN prsQueue' : prsQueue'[i].kind = "seed" =>
                 /\ i \in DOMAIN prsQueue
                 /\ prsQueue'[i].live => prsQueue'[i].view = prsCache'
                 /\ ~prsQueue'[i].live => Renewal \/ prsQueue[i].gen # prsGen
           /\ prsCache' \in [Users -> Places]
           /\ prsSpawned' = Append(prsSpawned, e) /\ prsSpawned' \in Seq(SpawnRecs) /\ (Renewal' <=> Renewal)
<1> USE DEF PresenceInv
<1> PICK s : s = prsQueue'
  OBVIOUS
<1>1. e.user \in Users /\ e.after \in Places /\ e.kind = "observe" /\ e \in SpawnRecs
  BY DEF NewsRecs, SpawnRecs
<1>2. /\ s = [i \in DOMAIN prsQueue |-> Presence!Seen(prsQueue[i], e.user, e.after)]
      /\ prsCache' = [prsCache EXCEPT ![e.user] = e.after] /\ prsSpawned' = Append(prsSpawned, e)
  BY DEF Presence!Arrives
<1>3. ASSUME NEW i \in DOMAIN prsQueue
      PROVE  /\ s[i] \in TaskRecs /\ s[i].kind = prsQueue[i].kind /\ s[i].pc = prsQueue[i].pc
             /\ prsQueue[i].kind # "seed" => s[i] = prsQueue[i]
             /\ prsQueue[i].kind = "seed" =>
                   /\ s[i].gen = prsQueue[i].gen /\ s[i].now = prsQueue[i].now
                   /\ s[i].user = prsQueue[i].user /\ s[i].doc = prsQueue[i].doc
                   /\ s[i].visited \subseteq prsQueue[i].visited
                   /\ s[i].live => s[i].view = prsCache'
                   /\ ~s[i].live => Renewal \/ prsQueue[i].gen # prsGen
  <2> PICK t : t = prsQueue[i]
    OBVIOUS
  <2> PICK r : r = s[i]
    OBVIOUS
  <2>1. t \in TaskRecs
    BY DEF PresenceTyped
  <2>2. r = Presence!Seen(t, e.user, e.after)
    BY <1>2
  <2>3. t.kind = "seed" => SeedFits(t)
    BY DEF Lined, SeedsFit
  <2>4. /\ r \in TaskRecs /\ r.kind = t.kind /\ r.pc = t.pc
        /\ t.kind # "seed" => r = t
        /\ t.kind = "seed" =>
              /\ r.gen = t.gen /\ r.now = t.now /\ r.user = t.user /\ r.doc = t.doc
              /\ r.visited \subseteq t.visited /\ r.live = t.live
              /\ t.live => r.view = [t.view EXCEPT ![e.user] = e.after]
    BY <1>1, <2>1, <2>2, SeenTask
  <2>5. t.kind = "seed" => (r.live => r.view = prsCache') /\ (~r.live => Renewal \/ t.gen # prsGen)
    BY <1>2, <2>3, <2>4 DEF SeedFits
  <2> QED
    BY <2>4, <2>5
<1>4. s = [i \in DOMAIN prsQueue |-> s[i]]
  BY <1>2
<1>5. s \in Seq(TaskRecs) /\ GoesOn(prsQueue, s) /\ SameNews(prsQueue, s) /\ Len(s) = Len(prsQueue)
  BY <1>3, <1>4, QueueMapped
<1>6. /\ DOMAIN s = DOMAIN prsQueue
      /\ \A i \in DOMAIN s : s[i].kind = "seed" =>
            /\ i \in DOMAIN prsQueue
            /\ s[i].live => s[i].view = prsCache'
            /\ ~s[i].live => Renewal \/ prsQueue[i].gen # prsGen
  BY <1>2, <1>3
<1>7. prsCache' \in [Users -> Places]
  BY <1>1, <1>2 DEF PresenceTyped
<1>8. prsSpawned' \in Seq(SpawnRecs)
  BY <1>1, <1>2 DEF PresenceTyped
<1>9. Renewal' <=> Renewal
  BY <1>1, <1>2, RenewalOfAppend
<1> QED
  BY <1>2, <1>5, <1>6, <1>7, <1>8, <1>9

LEMMA NewsAlike ==
    ASSUME PresenceTyped, prsQueue' \in Seq(TaskRecs), SameNews(prsQueue, prsQueue'), NEW u \in Users, NEW k \in Nat
    PROVE  (HasNews(prsQueue', k, u) <=> HasNews(prsQueue, k, u)) /\ (HasBreak(prsQueue', k, u) <=> HasBreak(prsQueue, k, u))
<1> PICK r : r = prsQueue'
  OBVIOUS
<1> QED
  BY NewsOfSame DEF PresenceTyped

(* Callbacks in the order of their spawning, after one more.                *)
LEMMA SpawnedWhenAppended ==
    ASSUME PresenceTyped, SpawnedNewsLead, NEW e \in SpawnRecs, prsSpawned' = Append(prsSpawned, e),
           \A u \in Users : \/ IsNews(e, u)
                            \/ e.kind = "seed"
                            \/ prsTruth'[u] = prsTruth[u] /\ (HasNews(prsMissed, 0, u) => HasNews(prsMissed', 0, u)),
           \A u \in Users : IsNews(e, u) /\ ~HasNews(prsMissed', 0, u) => e.after = prsTruth'[u].ch
    PROVE  SpawnedNewsLead'
<1> PICK s : s = Append(prsSpawned, e)
  OBVIOUS
<1> DEFINE n == Len(prsSpawned) + 1
<1>1. /\ DOMAIN s = 1 .. n /\ DOMAIN prsSpawned = 1 .. Len(prsSpawned) /\ Len(prsSpawned) \in Nat /\ n \in Nat
      /\ s[n] = e /\ \A i \in 1 .. Len(prsSpawned) : s[i] = prsSpawned[i]
  BY DEF PresenceTyped
<1>2. ASSUME NEW u \in Users, NEW i \in DOMAIN s,
             IsNews(s[i], u), ~HasNews(s, i, u), ~HasNews(prsMissed', 0, u), NoSeedAfter(s, i)
      PROVE  s[i].after = prsTruth'[u].ch
  <2>1. CASE i = n
    BY <1>1, <1>2, <2>1
  <2>2. CASE i # n
    <3>1. i \in DOMAIN prsSpawned /\ s[i] = prsSpawned[i] /\ n \in DOMAIN s /\ n > i /\ i \in 0 .. Len(prsSpawned)
      BY <1>1, <2>2
    <3>2. ~IsNews(e, u) /\ e.kind # "seed"
      BY <1>1, <1>2, <3>1 DEF HasNews, NoSeedAfter
    <3>3. ~HasNews(prsSpawned, i, u)
      BY <1>2, <3>1, NewsOfAppend DEF PresenceTyped
    <3>4. NoSeedAfter(prsSpawned, i)
      BY <1>1, <1>2, <3>1 DEF NoSeedAfter
    <3> QED
      BY <1>2, <3>1, <3>2, <3>3, <3>4 DEF SpawnedNewsLead
  <2> QED
    BY <2>1, <2>2
<1> QED
  BY <1>2 DEF SpawnedNewsLead

(* The news at the lock, while the queue stays and no seed is begun.        *)
LEMMA QueuedWhenSame ==
    ASSUME PresenceTyped, QueuedNewsLead, prsQueue' \in Seq(TaskRecs), SameNews(prsQueue, prsQueue'),
           Renewal => Renewal',
           \A u \in Users, k \in 0 .. Len(prsQueue) : NewsAfter(k, u) => NewsAfter(k, u)',
           \A u \in Users, k \in 0 .. Len(prsQueue) : prsTruth'[u] = prsTruth[u] \/ NewsAfter(k, u)' \/ Renewal'
    PROVE  QueuedNewsLead'
<1> PICK s : s = prsQueue'
  OBVIOUS
<1>1. DOMAIN s = DOMAIN prsQueue /\ \A i \in DOMAIN prsQueue : i \in 0 .. Len(prsQueue)
  BY DEF SameNews, PresenceTyped
<1>2. ASSUME NEW u \in Users, NEW i \in DOMAIN prsQueue,
             IsNews(s[i], u), ~NewsAfter(i, u)', ~Renewal', NoSeedAfter(s, i)
      PROVE  s[i].after = prsTruth'[u].ch
  <2>1. IsNews(prsQueue[i], u) /\ s[i].after = prsQueue[i].after
    BY <1>1, <1>2 DEF SameNews, IsNews
  <2>2. NoSeedAfter(prsQueue, i)
    BY <1>1, <1>2 DEF NoSeedAfter, SameNews
  <2>3. ~NewsAfter(i, u) /\ ~Renewal /\ prsTruth'[u] = prsTruth[u]
    BY <1>1, <1>2
  <2> QED
    BY <2>1, <2>2, <2>3 DEF QueuedNewsLead
<1> QED
  BY <1>1, <1>2 DEF QueuedNewsLead

(* Nothing at the lock changes.                                             *)
LEMMA QueueStays ==
    ASSUME PresenceInv, prsQueue' = prsQueue
    PROVE  GoesOn(prsQueue, prsQueue') /\ SameNews(prsQueue, prsQueue') /\ prsQueue' \in Seq(TaskRecs)
BY DEF PresenceInv, PresenceTyped, GoesOn, SameNews

-----------------------------------------------------------------------------
LEMMA CountsStay ==
    ASSUME PresenceInv, prsQueue' \in Seq(TaskRecs), SameNews(prsQueue, prsQueue'), prsDirty' = prsDirty
    PROVE  DirtyCounts'
<1> PICK q : q = prsQueue'
  OBVIOUS
<1>1. q \in Seq(TaskRecs) /\ prsQueue \in Seq(TaskRecs) /\ SameNews(prsQueue, q)
  BY DEF PresenceInv, PresenceTyped
<1>2. ASSUME NEW u \in Users PROVE Cardinality(NewsOf(q, u)) = Cardinality(NewsOf(prsQueue, u))
  BY <1>1, CountSame
<1> QED
  BY <1>2 DEF PresenceInv, Lined, DirtyCounts

(* The seeds at the lock see what the client sees, or another one follows.  *)
SeedsWatch ==
    \A i \in DOMAIN prsQueue' : prsQueue'[i].kind = "seed" =>
        /\ i \in DOMAIN prsQueue
        /\ prsQueue'[i].live => prsQueue'[i].view = prsCache'
        /\ ~prsQueue'[i].live => Renewal' \/ prsQueue[i].gen # prsGen

(* A step of the world that the evidence does not take part in.             *)
LEMMA WorldGoesOn ==
    ASSUME PresenceInv,
           prsQueue' \in Seq(TaskRecs), GoesOn(prsQueue, prsQueue'), SameNews(prsQueue, prsQueue'), SeedsWatch,
           UNCHANGED <<prsDirty, prsGen, prsReady, prsStates, prsVerdict>>,
           Renewal => Renewal',
           \A u \in Users : Onward(u),
           \A u \in Users, k \in 0 .. Len(prsQueue) :
               (NewsAfter(k, u) => NewsAfter(k, u)') /\ (BreakAfter(k, u) => BreakAfter(k, u)'),
           PresenceTyped', FreshIsIdle', MissedLeads', NoneMissedOnline', StaysHaveBegun', SpawnedNewsLead'
    PROVE  PresenceInv'
<1>1. \A i \in DOMAIN prsQueue' : ~(i > Len(prsQueue))
  BY DEF SameNews, PresenceInv, PresenceTyped
<1>2. OnlyFirstWorks' /\ SeedsFit' /\ NoSeedWhenReady'
  BY <1>1, ShapeGoesOn DEF SeedsWatch
<1>3. DirtyCounts'
  BY CountsStay
<1>4. Evident'
  BY <1>1, EvidenceGoesOn
<1>5. \A u \in Users, k \in 0 .. Len(prsQueue) : prsTruth'[u] = prsTruth[u] \/ NewsAfter(k, u)' \/ Renewal'
  BY DEF Onward
<1>6. QueuedNewsLead'
  BY <1>5, QueuedWhenSame DEF PresenceInv, Linked
<1> QED
  BY <1>2, <1>3, <1>4, <1>6 DEF PresenceInv, Linked, Lined

(* A step of the world after which a seed is on its way.                    *)
LEMMA WorldIsNew ==
    ASSUME PresenceInv,
           prsQueue' \in Seq(TaskRecs), GoesOn(prsQueue, prsQueue'), SameNews(prsQueue, prsQueue'), SeedsWatch,
           UNCHANGED <<prsDirty, prsGen, prsReady, prsStates, prsVerdict>>,
           Renewal',
           PresenceTyped', FreshIsIdle', MissedLeads', NoneMissedOnline', StaysHaveBegun', SpawnedNewsLead'
    PROVE  PresenceInv'
<1>1. \A i \in DOMAIN prsQueue' : ~(i > Len(prsQueue))
  BY DEF SameNews, PresenceInv, PresenceTyped
<1>2. OnlyFirstWorks' /\ SeedsFit' /\ NoSeedWhenReady'
  BY <1>1, ShapeGoesOn DEF SeedsWatch
<1>3. DirtyCounts'
  BY CountsStay
<1>4. QueuedNewsLead'
  BY DEF QueuedNewsLead
<1>5. MemoryIsSound'
  BY DEF MemoryIsSound, Sound
<1>6. AsksFit'
  BY DEF AsksFit, AskFits
<1>7. ASSUME prsQueue' # <<>> PROVE (ObserveFits(prsQueue[1]) /\ SeedIsSound(prsQueue[1]) /\ ProofFits(prsQueue[1]))'
  <2> PICK t : t = prsQueue[1]
    OBVIOUS
  <2> PICK r : r = prsQueue'[1]
    OBVIOUS
  <2>0. prsQueue # <<>> /\ 1 \in DOMAIN prsQueue
    <3> PICK q : q = prsQueue'
      OBVIOUS
    <3>1. q # <<>> /\ q \in Seq(TaskRecs) /\ Len(q) = Len(prsQueue) /\ prsQueue \in Seq(TaskRecs)
      BY <1>7 DEF SameNews, PresenceInv, PresenceTyped
    <3> QED
      BY <3>1
  <2>1. r.kind = t.kind /\ r.pc = t.pc /\ (t.kind # "seed" => r = t)
    BY <2>0 DEF GoesOn
  <2>2. ObserveFits(t) /\ ProofFits(t)
    BY <2>0 DEF PresenceInv, Evident, HeadFits
  <2>3. SeedIsSound(r)'
    BY DEF SeedIsSound, Sound
  <2>4. ObserveFits(r)'
    BY <2>0, <2>1, <2>2 DEF ObserveFits, Sound
  <2>5. ProofFits(r)'
    BY <2>1, <2>2 DEF ProofFits, Presence!LocalProof
  <2> QED
    BY <2>3, <2>4, <2>5
<1>8. Evident'
  BY <1>5, <1>6, <1>7 DEF PresenceInv, Evident, HeadFits
<1> QED
  BY <1>2, <1>3, <1>4, <1>8 DEF PresenceInv, Linked, Lined

(* A callback is spawned.                                                   *)
LEMMA NewsWhenSpawned ==
    ASSUME PresenceTyped, prsQueue' \in Seq(TaskRecs), SameNews(prsQueue, prsQueue'),
           NEW e \in SpawnRecs, prsSpawned' = Append(prsSpawned, e)
    PROVE  \A k \in Nat, u \in Users :
               /\ NewsAfter(k, u)' <=> HasNews(prsQueue, k, u) \/ HasNews(prsSpawned, 0, u) \/ IsNews(e, u)
                                           \/ HasNews(prsMissed', 0, u)
               /\ BreakAfter(k, u)' <=> HasBreak(prsQueue, k, u) \/ HasBreak(prsSpawned, 0, u)
                                            \/ (IsNews(e, u) /\ Breaks(e)) \/ HasBreak(prsMissed', 0, u)
<1> PICK s : s = Append(prsSpawned, e)
  OBVIOUS
<1>1. \A u \in Users :
         /\ HasNews(s, 0, u) <=> HasNews(prsSpawned, 0, u) \/ IsNews(e, u)
         /\ HasBreak(s, 0, u) <=> HasBreak(prsSpawned, 0, u) \/ (IsNews(e, u) /\ Breaks(e))
  <2>1. prsSpawned \in Seq(SpawnRecs) /\ 0 \in 0 .. Len(prsSpawned)
    BY DEF PresenceTyped
  <2> QED
    BY <2>1, NewsOfAppend
<1> QED
  BY <1>1, NewsAlike DEF NewsAfter, BreakAfter

LEMMA TickKeeps ==
    ASSUME PresenceInv, Presence!Tick
    PROVE  PresenceInv'
<1>1. /\ prsClock' = prsClock + 1
      /\ UNCHANGED <<prsTruth, prsCache, prsConn, prsMissed, prsSpawned, prsQueue, prsDirty,
                     prsGen, prsReady, prsStates, prsVerdict, prsDrops>>
  BY DEF Presence!Tick, Presence!evidence
<1>2. GoesOn(prsQueue, prsQueue') /\ SameNews(prsQueue, prsQueue') /\ prsQueue' \in Seq(TaskRecs)
  BY <1>1, QueueStays
<1>3. /\ Renewal' <=> Renewal
      /\ \A u, k : (NewsAfter(k, u)' <=> NewsAfter(k, u)) /\ (BreakAfter(k, u)' <=> BreakAfter(k, u))
  BY <1>1 DEF Renewal, NewsAfter, BreakAfter
<1>4. SeedsWatch
  BY <1>1, <1>3 DEF SeedsWatch, PresenceInv, Lined, SeedsFit, SeedFits
<1>5. \A u \in Users : Onward(u)
  BY <1>1 DEF Onward
<1>6. PresenceTyped'
  BY <1>1 DEF PresenceInv, PresenceTyped
<1>7. FreshIsIdle' /\ NoneMissedOnline'
  BY <1>1 DEF PresenceInv, Linked, FreshIsIdle, Fresh, NoneMissedOnline
<1>8. MissedLeads'
  BY <1>1 DEF PresenceInv, Linked, MissedLeads, Leads, Fresh, NoneBetween
<1>9. SpawnedNewsLead'
  BY <1>1, SpawnedStill DEF PresenceInv
<1>10. StaysHaveBegun'
  <2>1. ASSUME NEW u \in Users PROVE prsTruth'[u].since <= prsClock'
    <3>1. prsTruth[u].since <= prsClock /\ prsTruth[u].since \in Nat /\ prsClock \in Nat
      BY DEF PresenceInv, PresenceTyped, Linked, StaysHaveBegun
    <3> QED
      BY <1>1, <3>1
  <2> QED
    BY <2>1 DEF StaysHaveBegun
<1> QED
  BY <1>1, <1>2, <1>3, <1>4, <1>5, <1>6, <1>7, <1>8, <1>9, <1>10, WorldGoesOn

LEMMA ResumeKeeps ==
    ASSUME PresenceInv, Presence!Resume
    PROVE  PresenceInv'
<1>1. /\ prsConn = "off" /\ prsDrops > 0 /\ prsConn' = "resuming"
      /\ UNCHANGED <<prsClock, prsTruth, prsCache, prsMissed, prsSpawned, prsQueue, prsDirty,
                     prsGen, prsReady, prsStates, prsVerdict, prsDrops>>
  BY DEF Presence!Resume, Presence!evidence
<1>2. GoesOn(prsQueue, prsQueue') /\ SameNews(prsQueue, prsQueue') /\ prsQueue' \in Seq(TaskRecs)
  BY <1>1, QueueStays
<1>3. /\ Renewal' <=> Renewal
      /\ \A u, k : (NewsAfter(k, u)' <=> NewsAfter(k, u)) /\ (BreakAfter(k, u)' <=> BreakAfter(k, u))
  BY <1>1 DEF Renewal, NewsAfter, BreakAfter
<1>4. SeedsWatch
  BY <1>1, <1>3 DEF SeedsWatch, PresenceInv, Lined, SeedsFit, SeedFits
<1>5. \A u \in Users : Onward(u)
  BY <1>1 DEF Onward
<1>6. PresenceTyped'
  BY <1>1 DEF PresenceInv, PresenceTyped
<1>7. FreshIsIdle' /\ NoneMissedOnline' /\ StaysHaveBegun'
  BY <1>1 DEF PresenceInv, Linked, FreshIsIdle, Fresh, NoneMissedOnline, StaysHaveBegun
<1>8. ~Fresh
  BY <1>1 DEF Fresh, PresenceInv, PresenceTyped
<1>9. MissedLeads'
  BY <1>1, <1>8 DEF PresenceInv, Linked, MissedLeads, Leads, NoneBetween
<1>10. SpawnedNewsLead'
  BY <1>1, SpawnedStill DEF PresenceInv
<1> QED
  BY <1>1, <1>2, <1>3, <1>4, <1>5, <1>6, <1>7, <1>9, <1>10, WorldGoesOn

LEMMA DropKeeps ==
    ASSUME PresenceInv, Presence!Drop
    PROVE  PresenceInv'
<1> PICK e : e = Presence!Losing
  OBVIOUS
<1>1. /\ prsConn = "on" /\ prsConn' = "off" /\ prsDrops' = prsDrops + 1 /\ prsSpawned' = Append(prsSpawned, e)
      /\ UNCHANGED <<prsClock, prsTruth, prsCache, prsMissed, prsQueue, prsDirty,
                     prsGen, prsReady, prsStates, prsVerdict>>
  BY DEF Presence!Drop, Presence!evidence
<1>2. GoesOn(prsQueue, prsQueue') /\ SameNews(prsQueue, prsQueue') /\ prsQueue' \in Seq(TaskRecs)
  BY <1>1, QueueStays
<1>3. e \in SpawnRecs /\ e.kind = "disconnect"
  BY DEF SpawnRecs, Presence!Losing
<1>4. Renewal' <=> Renewal
  BY <1>1, <1>3, RenewalOfAppend DEF PresenceInv
<1>5. \A k \in Nat, u \in Users : (NewsAfter(k, u) => NewsAfter(k, u)') /\ (BreakAfter(k, u) => BreakAfter(k, u)')
  BY <1>1, <1>2, <1>3, NewsWhenSpawned DEF PresenceInv, NewsAfter, BreakAfter
<1>6. SeedsWatch
  BY <1>1, <1>4 DEF SeedsWatch, PresenceInv, Lined, SeedsFit, SeedFits
<1>7. \A u \in Users : Onward(u)
  BY <1>1 DEF Onward
<1>8. prsDrops' > 0 /\ prsDrops' \in Nat
  BY <1>1 DEF PresenceInv, PresenceTyped
<1>9. PresenceTyped'
  BY <1>1, <1>3, <1>8 DEF PresenceInv, PresenceTyped
<1>10. FreshIsIdle' /\ NoneMissedOnline' /\ StaysHaveBegun'
  BY <1>1, <1>8 DEF PresenceInv, Linked, FreshIsIdle, Fresh, NoneMissedOnline, StaysHaveBegun
<1>11. MissedLeads'
  BY <1>1 DEF PresenceInv, Linked, MissedLeads, Leads, Fresh, NoneBetween
<1>12. SpawnedNewsLead'
  <2>1. \A u \in Users : ~IsNews(e, u)
    BY <1>3 DEF IsNews
  <2> QED
    BY <1>1, <1>3, <2>1, SpawnedWhenAppended DEF PresenceInv, Linked
<1> QED
  BY <1>1, <1>2, <1>4, <1>5, <1>6, <1>7, <1>9, <1>10, <1>11, <1>12, WorldGoesOn

(* A new session.                                                           *)
LEMMA IdentifyKeeps ==
    ASSUME PresenceInv, Presence!Identify
    PROVE  PresenceInv'
<1> USE DEF PresenceInv
<1> PICK e : e = Presence!Seeding
  OBVIOUS
<1> PICK s : s = prsQueue'
  OBVIOUS
<1>1. /\ prsConn' = "on" /\ prsSpawned' = Append(prsSpawned, e) /\ prsMissed' = <<>>
      /\ prsCache' = [u \in Users |-> prsTruth[u].ch]
      /\ s = [i \in DOMAIN prsQueue |-> IF prsQueue[i].kind = "seed" THEN [prsQueue[i] EXCEPT !.live = FALSE]
                                        ELSE prsQueue[i]]
      /\ UNCHANGED <<prsClock, prsTruth, prsDirty, prsGen, prsReady, prsStates, prsVerdict, prsDrops>>
  BY DEF Presence!Identify, Presence!evidence
<1>2. e \in SpawnRecs /\ e.kind = "seed"
  BY DEF SpawnRecs, Presence!Seeding
<1>3. Renewal'
  BY <1>1, <1>2, RenewalOfAppend
<1>4. ASSUME NEW i \in DOMAIN prsQueue
      PROVE  /\ s[i] \in TaskRecs /\ s[i].kind = prsQueue[i].kind /\ s[i].pc = prsQueue[i].pc
             /\ prsQueue[i].kind # "seed" => s[i] = prsQueue[i]
             /\ prsQueue[i].kind = "seed" =>
                   /\ s[i].gen = prsQueue[i].gen /\ s[i].now = prsQueue[i].now
                   /\ s[i].user = prsQueue[i].user /\ s[i].doc = prsQueue[i].doc
                   /\ s[i].visited \subseteq prsQueue[i].visited
                   /\ ~s[i].live
  <2> PICK t : t = prsQueue[i]
    OBVIOUS
  <2> PICK r : r = s[i]
    OBVIOUS
  <2>1. t \in TaskRecs
    BY DEF PresenceTyped
  <2>2. CASE t.kind # "seed"
    BY <1>1, <2>1, <2>2
  <2>3. CASE t.kind = "seed"
    <3>1. t \in SeedRecs /\ r = [t EXCEPT !.live = FALSE]
      BY <1>1, <2>1, <2>3, TaskKinds
    <3>2. /\ r \in SeedRecs /\ r.kind = "seed" /\ r.pc = t.pc /\ r.gen = t.gen /\ r.now = t.now
          /\ r.user = t.user /\ r.doc = t.doc /\ r.visited = t.visited /\ ~r.live
      BY <3>1 DEF SeedRecs
    <3> QED
      BY <3>2, <2>3 DEF TaskRecs
  <2> QED
    BY <2>2, <2>3
<1>5. s = [i \in DOMAIN prsQueue |-> s[i]]
  BY <1>1
<1>6. s \in Seq(TaskRecs) /\ GoesOn(prsQueue, s) /\ SameNews(prsQueue, s)
  BY <1>4, <1>5, QueueMapped
<1>7. SeedsWatch
  BY <1>3, <1>4, <1>5 DEF SeedsWatch
<1>8. PresenceTyped'
  <2>1. prsSpawned' \in Seq(SpawnRecs) /\ prsMissed' \in Seq(NewsRecs) /\ prsCache' \in [Users -> Places]
    BY <1>1, <1>2 DEF PresenceTyped
  <2> QED
    BY <1>1, <1>6, <2>1 DEF PresenceTyped
<1>9. FreshIsIdle' /\ NoneMissedOnline' /\ StaysHaveBegun'
  BY <1>1 DEF Linked, FreshIsIdle, Fresh, NoneMissedOnline, StaysHaveBegun
<1>10. MissedLeads'
  BY <1>1 DEF MissedLeads, Leads
<1>11. SpawnedNewsLead'
  <2>1. \A u \in Users : ~IsNews(e, u)
    BY <1>2 DEF IsNews
  <2> QED
    BY <1>1, <1>2, <2>1, SpawnedWhenAppended DEF Linked
<1> QED
  BY <1>1, <1>3, <1>6, <1>7, <1>8, <1>9, <1>10, <1>11, WorldIsNew

(* What was missed has been replayed.                                       *)
LEMMA ReplayedKeeps ==
    ASSUME PresenceInv, Presence!Replay, prsMissed = <<>>
    PROVE  PresenceInv'
<1> USE DEF PresenceInv
<1> PICK e : e = Presence!Seeding
  OBVIOUS
<1>1. /\ prsConn = "resuming" /\ prsConn' = "on" /\ prsSpawned' = Append(prsSpawned, e)
      /\ UNCHANGED <<prsClock, prsTruth, prsCache, prsQueue, prsMissed, prsDirty,
                     prsGen, prsReady, prsStates, prsVerdict, prsDrops>>
  BY DEF Presence!Replay, Presence!evidence
<1>2. e \in SpawnRecs /\ e.kind = "seed"
  BY DEF SpawnRecs, Presence!Seeding
<1>3. Renewal'
  BY <1>1, <1>2, RenewalOfAppend
<1>4. GoesOn(prsQueue, prsQueue') /\ SameNews(prsQueue, prsQueue') /\ prsQueue' \in Seq(TaskRecs)
  BY <1>1, QueueStays
<1>5. SeedsWatch
  BY <1>1, <1>3 DEF SeedsWatch, Lined, SeedsFit, SeedFits
<1>6. PresenceTyped'
  <2>1. prsSpawned' \in Seq(SpawnRecs)
    BY <1>1, <1>2 DEF PresenceTyped
  <2> QED
    BY <1>1, <2>1 DEF PresenceTyped
<1>7. FreshIsIdle' /\ NoneMissedOnline' /\ StaysHaveBegun'
  BY <1>1 DEF Linked, FreshIsIdle, Fresh, NoneMissedOnline, StaysHaveBegun
<1>8. MissedLeads'
  BY <1>1 DEF Linked, MissedLeads, Leads, Fresh, NoneBetween
<1>9. SpawnedNewsLead'
  <2>1. \A u \in Users : ~IsNews(e, u)
    BY <1>2 DEF IsNews
  <2> QED
    BY <1>1, <1>2, <2>1, SpawnedWhenAppended DEF Linked
<1> QED
  BY <1>1, <1>3, <1>4, <1>5, <1>6, <1>7, <1>8, <1>9, WorldIsNew

(* The first of what was missed is told.                                    *)
LEMMA MissedWhenTold ==
    ASSUME PresenceTyped, ~Fresh, ~Fresh', MissedLeads, prsMissed # <<>>,
           prsMissed' = Tail(prsMissed), prsTruth' = prsTruth,
           prsCache' = [prsCache EXCEPT ![prsMissed[1].user] = prsMissed[1].after]
    PROVE  MissedLeads'
<1> PICK m : m = Tail(prsMissed)
  OBVIOUS
<1> PICK e : e = prsMissed[1]
  OBVIOUS
<1>1. /\ \A i \in DOMAIN m : i \in Nat \ {0} /\ i + 1 \in DOMAIN prsMissed /\ m[i] = prsMissed[i + 1]
      /\ \A i \in DOMAIN prsMissed : i \in Nat \ {0} /\ (i > 1 => i - 1 \in DOMAIN m /\ m[i - 1] = prsMissed[i])
      /\ 1 \in DOMAIN prsMissed /\ e \in NewsRecs
  BY TailFacts DEF PresenceTyped
<1>2. e.user \in Users /\ e.kind = "observe"
  BY <1>1 DEF NewsRecs
<1>3. ASSUME NEW u \in Users
      PROVE  /\ \A k \in Nat : HasNews(m, k, u) <=> HasNews(prsMissed, k + 1, u)
             /\ prsCache'[u] = IF IsNews(e, u) THEN e.after ELSE prsCache[u]
             /\ HasNews(prsMissed, 0, u) <=> HasNews(prsMissed, 1, u) \/ IsNews(e, u)
  <2>1. prsMissed \in Seq(NewsRecs)
    BY DEF PresenceTyped
  <2>2. prsCache'[u] = IF IsNews(e, u) THEN e.after ELSE prsCache[u]
    BY <1>2 DEF IsNews, PresenceTyped
  <2> QED
    BY <2>1, <2>2, NewsOfTail, NewsOfHead
<1>4. ASSUME NEW u \in Users, NEW i \in DOMAIN m, NEW j \in 0 .. i - 1, NoneBetween(m, j, i, u)
      PROVE  NoneBetween(prsMissed, j + 1, i + 1, u)
  <2>1. ASSUME NEW l \in DOMAIN prsMissed, j + 1 < l, l < i + 1 PROVE ~IsNews(prsMissed[l], u)
    <3>1. l - 1 \in DOMAIN m /\ m[l - 1] = prsMissed[l] /\ j < l - 1 /\ l - 1 < i
      BY <1>1, <2>1
    <3> QED
      BY <3>1, <1>4 DEF NoneBetween
  <2> QED
    BY <2>1 DEF NoneBetween
<1>5. ASSUME NEW u \in Users
      PROVE  /\ \A i \in DOMAIN m : IsNews(m[i], u) /\ NoneBetween(m, 0, i, u) => m[i].before = prsCache'[u]
             /\ \A i, j \in DOMAIN m : /\ j < i /\ IsNews(m[i], u) /\ IsNews(m[j], u) /\ NoneBetween(m, j, i, u)
                                       => m[i].before = m[j].after
             /\ \A i \in DOMAIN m : IsNews(m[i], u) /\ ~HasNews(m, i, u) => m[i].after = prsTruth[u].ch
             /\ ~HasNews(m, 0, u) => prsCache'[u] = prsTruth[u].ch
  <2>1. ASSUME NEW i \in DOMAIN m, IsNews(m[i], u), NoneBetween(m, 0, i, u)
        PROVE  m[i].before = prsCache'[u]
    <3>1. NoneBetween(prsMissed, 1, i + 1, u) /\ i + 1 \in DOMAIN prsMissed /\ m[i] = prsMissed[i + 1] /\ 1 < i + 1
      <4>1. 0 \in 0 .. i - 1 /\ 0 + 1 = 1 /\ 1 < i + 1
        BY <1>1
      <4> QED
        BY <1>1, <1>4, <2>1, <4>1
    <3>2. CASE IsNews(e, u)
      <4>1. prsMissed[i + 1].before = prsMissed[1].after
        BY <3>1, <3>2, <2>1, <1>1 DEF MissedLeads, Leads
      <4> QED
        BY <4>1, <3>1, <3>2, <1>3
    <3>3. CASE ~IsNews(e, u)
      <4>1. NoneBetween(prsMissed, 0, i + 1, u)
        <5>1. \A l \in DOMAIN prsMissed : l = 1 \/ 1 < l
          BY <1>1
        <5> QED
          BY <5>1, <3>1, <3>3 DEF NoneBetween
      <4> QED
        BY <4>1, <3>1, <3>3, <2>1, <1>3 DEF MissedLeads, Leads
    <3> QED
      BY <3>2, <3>3
  <2>2. ASSUME NEW i \in DOMAIN m, NEW j \in DOMAIN m, j < i, IsNews(m[i], u), IsNews(m[j], u), NoneBetween(m, j, i, u)
        PROVE  m[i].before = m[j].after
    <3>1. /\ i + 1 \in DOMAIN prsMissed /\ j + 1 \in DOMAIN prsMissed /\ j + 1 < i + 1
          /\ m[i] = prsMissed[i + 1] /\ m[j] = prsMissed[j + 1] /\ j \in 0 .. i - 1
      BY <1>1, <2>2
    <3>2. NoneBetween(prsMissed, j + 1, i + 1, u)
      BY <3>1, <1>4, <2>2
    <3> QED
      BY <3>1, <3>2, <2>2 DEF MissedLeads, Leads
  <2>3. ASSUME NEW i \in DOMAIN m, IsNews(m[i], u), ~HasNews(m, i, u)
        PROVE  m[i].after = prsTruth[u].ch
    <3>1. i \in Nat /\ i + 1 \in DOMAIN prsMissed /\ m[i] = prsMissed[i + 1]
      BY <1>1
    <3>2. ~HasNews(prsMissed, i + 1, u)
      BY <3>1, <2>3, <1>3
    <3> QED
      BY <3>1, <3>2, <2>3 DEF MissedLeads, Leads
  <2>4. ASSUME ~HasNews(m, 0, u)
        PROVE  prsCache'[u] = prsTruth[u].ch
    <3>1. ~HasNews(prsMissed, 1, u)
      <4>1. 0 \in Nat /\ 0 + 1 = 1
        OBVIOUS
      <4> QED
        BY <4>1, <2>4, <1>3
    <3> QED
      BY <3>1, <1>1, <1>3 DEF MissedLeads, Leads
  <2> QED
    BY <2>1, <2>2, <2>3, <2>4
<1>6. Leads(m, prsCache', prsTruth)
  BY <1>5 DEF Leads
<1> QED
  BY <1>6 DEF MissedLeads

(* One more is missed.                                                      *)
LEMMA MissedWhenAppended ==
    ASSUME PresenceTyped, ~Fresh, MissedLeads, NEW e \in NewsRecs,
           prsMissed' = Append(prsMissed, e), prsCache' = prsCache,
           e.before = prsTruth[e.user].ch, e.after = prsTruth'[e.user].ch,
           \A v \in Users : v # e.user => prsTruth'[v] = prsTruth[v]
    PROVE  MissedLeads'
<1> PICK m : m = Append(prsMissed, e)
  OBVIOUS
<1> PICK w : w = prsTruth'
  OBVIOUS
<1> PICK n : n = Len(prsMissed) + 1
  OBVIOUS
<1>1. /\ n \in Nat /\ n \in DOMAIN m /\ m[n] = e
      /\ \A i \in DOMAIN m : i \in 1 .. n /\ (i = n \/ (i \in DOMAIN prsMissed /\ i < n))
      /\ \A i \in DOMAIN prsMissed : i \in 1 .. n /\ i < n /\ i \in DOMAIN m /\ m[i] = prsMissed[i]
      /\ \A i \in DOMAIN prsMissed : i \in 0 .. Len(prsMissed)
      /\ 0 \in 0 .. Len(prsMissed)
  BY DEF PresenceTyped
<1>2. e.user \in Users /\ e.kind = "observe"
  BY DEF NewsRecs
<1>3. \A k \in 0 .. Len(prsMissed), u \in Users : HasNews(m, k, u) <=> HasNews(prsMissed, k, u) \/ IsNews(e, u)
  BY NewsOfAppend DEF PresenceTyped
<1>4. \A j : \A u \in Users : NoneBetween(m, j, n, u) => ~HasNews(prsMissed, j, u)
  BY <1>1 DEF NoneBetween, HasNews
<1>5. \A j : \A u \in Users, i \in DOMAIN prsMissed : NoneBetween(m, j, i, u) => NoneBetween(prsMissed, j, i, u)
  BY <1>1 DEF NoneBetween
<1>6. \A u \in Users : IsNews(e, u) => u = e.user
  BY DEF IsNews
<1>7. ASSUME NEW u \in Users
      PROVE  /\ \A i \in DOMAIN m : IsNews(m[i], u) /\ NoneBetween(m, 0, i, u) => m[i].before = prsCache[u]
             /\ \A i, j \in DOMAIN m : /\ j < i /\ IsNews(m[i], u) /\ IsNews(m[j], u) /\ NoneBetween(m, j, i, u)
                                       => m[i].before = m[j].after
             /\ \A i \in DOMAIN m : IsNews(m[i], u) /\ ~HasNews(m, i, u) => m[i].after = w[u].ch
             /\ ~HasNews(m, 0, u) => prsCache[u] = w[u].ch
  <2>1. ASSUME NEW i \in DOMAIN m, IsNews(m[i], u), NoneBetween(m, 0, i, u)
        PROVE  m[i].before = prsCache[u]
    <3>1. CASE i = n
      BY <3>1, <2>1, <1>1, <1>4, <1>6 DEF MissedLeads, Leads
    <3>2. CASE i # n
      BY <3>2, <2>1, <1>1, <1>5 DEF MissedLeads, Leads
    <3> QED
      BY <3>1, <3>2
  <2>2. ASSUME NEW i \in DOMAIN m, NEW j \in DOMAIN m, j < i, IsNews(m[i], u), IsNews(m[j], u), NoneBetween(m, j, i, u)
        PROVE  m[i].before = m[j].after
    <3>1. j \in DOMAIN prsMissed /\ m[j] = prsMissed[j]
      BY <1>1, <2>2
    <3>2. CASE i = n
      <4>1. ~HasNews(prsMissed, j, u)
        BY <3>2, <2>2, <1>4
      <4> QED
        BY <4>1, <3>1, <3>2, <2>2, <1>1, <1>6 DEF MissedLeads, Leads
    <3>3. CASE i # n
      <4>1. i \in DOMAIN prsMissed /\ m[i] = prsMissed[i]
        BY <3>3, <1>1
      <4>2. NoneBetween(prsMissed, j, i, u)
        BY <4>1, <2>2, <1>5
      <4> QED
        BY <4>1, <4>2, <3>1, <2>2 DEF MissedLeads, Leads
    <3> QED
      BY <3>2, <3>3
  <2>3. ASSUME NEW i \in DOMAIN m, IsNews(m[i], u), ~HasNews(m, i, u)
        PROVE  m[i].after = w[u].ch
    <3>1. CASE i = n
      BY <3>1, <2>3, <1>1, <1>6
    <3>2. CASE i # n
      <4>1. i \in DOMAIN prsMissed /\ m[i] = prsMissed[i] /\ i < n /\ i \in 0 .. Len(prsMissed)
        BY <3>2, <1>1
      <4>2. ~IsNews(e, u) /\ ~HasNews(prsMissed, i, u)
        BY <4>1, <2>3, <1>3
      <4>3. u # e.user
        BY <4>2, <1>2 DEF IsNews
      <4> QED
        BY <4>1, <4>2, <4>3, <2>3 DEF MissedLeads, Leads
    <3> QED
      BY <3>1, <3>2
  <2>4. ASSUME ~HasNews(m, 0, u)
        PROVE  prsCache[u] = w[u].ch
    <3>1. ~IsNews(e, u) /\ ~HasNews(prsMissed, 0, u)
      BY <2>4, <1>1, <1>3
    <3>2. u # e.user
      BY <3>1, <1>2 DEF IsNews
    <3> QED
      BY <3>1, <3>2 DEF MissedLeads, Leads
  <2> QED
    BY <2>1, <2>2, <2>3, <2>4
<1>8. Leads(m, prsCache, w)
  BY <1>7 DEF Leads
<1> QED
  BY <1>8 DEF MissedLeads

(* What was missed is told.                                                 *)
LEMMA ReplayKeeps ==
    ASSUME PresenceInv, Presence!Replay, prsMissed # <<>>
    PROVE  PresenceInv'
<1> USE DEF PresenceInv
<1> PICK e : e = prsMissed[1]
  OBVIOUS
<1>1. /\ prsConn = "resuming" /\ prsConn' = "resuming" /\ Presence!Arrives(e) /\ prsMissed' = Tail(prsMissed)
      /\ UNCHANGED <<prsClock, prsTruth, prsDirty, prsGen, prsReady, prsStates, prsVerdict, prsDrops>>
  BY DEF Presence!Replay, Presence!evidence
<1>2. /\ e \in NewsRecs /\ e \in SpawnRecs /\ e.kind = "observe" /\ e.user \in Users
      /\ prsMissed' \in Seq(NewsRecs) /\ 1 \in DOMAIN prsMissed
  <2>1. prsMissed \in Seq(NewsRecs)
    BY DEF PresenceTyped
  <2>2. Tail(prsMissed) \in Seq(NewsRecs) /\ 1 \in DOMAIN prsMissed /\ e \in NewsRecs
    BY <2>1, TailFacts
  <2> QED
    BY <1>1, <2>2 DEF NewsRecs, SpawnRecs
<1>3. /\ prsQueue' \in Seq(TaskRecs) /\ GoesOn(prsQueue, prsQueue') /\ SameNews(prsQueue, prsQueue')
      /\ SeedsWatch /\ prsCache' \in [Users -> Places]
      /\ prsSpawned' = Append(prsSpawned, e) /\ prsSpawned' \in Seq(SpawnRecs) /\ (Renewal' <=> Renewal)
  BY <1>1, <1>2, ArrivesFacts DEF SeedsWatch
<1>4. ASSUME NEW u \in Users
      PROVE  /\ HasNews(prsMissed, 0, u) <=> HasNews(prsMissed', 0, u) \/ IsNews(e, u)
             /\ HasBreak(prsMissed, 0, u) <=> HasBreak(prsMissed', 0, u) \/ (IsNews(e, u) /\ Breaks(e))
  <2>1. prsMissed \in Seq(NewsRecs) /\ 0 \in Nat /\ 0 + 1 = 1
    BY DEF PresenceTyped
  <2> QED
    BY <2>1, <1>1, NewsOfTail, NewsOfHead
<1>5. \A k \in Nat, u \in Users : (NewsAfter(k, u) => NewsAfter(k, u)') /\ (BreakAfter(k, u) => BreakAfter(k, u)')
  BY <1>2, <1>3, <1>4, NewsWhenSpawned DEF NewsAfter, BreakAfter
<1>6. \A u \in Users : Onward(u)
  BY <1>1 DEF Onward
<1>7. PresenceTyped'
  BY <1>1, <1>2, <1>3 DEF PresenceTyped
<1>8. FreshIsIdle' /\ NoneMissedOnline' /\ StaysHaveBegun'
  BY <1>1 DEF Linked, FreshIsIdle, Fresh, NoneMissedOnline, StaysHaveBegun
<1>9. MissedLeads'
  BY <1>1, MissedWhenTold DEF Linked, Presence!Arrives, Fresh
<1>10. SpawnedNewsLead'
  <2>1. ASSUME NEW u \in Users, IsNews(e, u), ~HasNews(prsMissed', 0, u)
        PROVE  e.after = prsTruth'[u].ch
    <3>1. ~HasNews(prsMissed, 1, u)
      BY <2>1, <1>1, NewsOfTail DEF PresenceTyped
    <3> QED
      BY <3>1, <2>1, <1>1, <1>2 DEF Linked, MissedLeads, Leads, Fresh
  <2>2. \A u \in Users : HasNews(prsMissed, 0, u) /\ ~IsNews(e, u) => HasNews(prsMissed', 0, u)
    BY <1>4
  <2> QED
    BY <1>1, <1>2, <1>3, <2>1, <2>2, SpawnedWhenAppended DEF Linked
<1> QED
  BY <1>1, <1>3, <1>5, <1>6, <1>7, <1>8, <1>9, <1>10, WorldGoesOn

(* A transition of a user.                                                  *)
LEMMA Moved ==
    ASSUME PresenceInv, NEW u \in Users, Presence!Move(u)
    PROVE  \E e \in NewsRecs :
              /\ e \in SpawnRecs /\ e.kind = "observe" /\ e.user = u /\ e.before = prsTruth[u].ch /\ e.after = prsTruth'[u].ch
              /\ prsTruth' \in [Users -> [ch : Places, since : Nat]]
              /\ \A v \in Users : v # u => prsTruth'[v] = prsTruth[v]
              /\ prsTruth'[u].since = IF prsTruth[u].ch = Nowhere THEN prsClock ELSE prsTruth[u].since
              /\ IF prsConn = "on" THEN Presence!Arrives(e) /\ prsMissed' = prsMissed
                 ELSE prsMissed' = Append(prsMissed, e) /\ UNCHANGED <<prsCache, prsSpawned, prsQueue>>
              /\ UNCHANGED <<prsClock, prsConn, prsDirty, prsGen, prsReady, prsStates, prsVerdict, prsDrops>>
<1>1. PICK ch \in (Channels \cup {Nowhere}) \ {prsTruth[u].ch} :
          /\ prsTruth' = [prsTruth EXCEPT ![u] = [ch |-> ch, since |-> IF prsTruth[u].ch = Nowhere THEN prsClock ELSE prsTruth[u].since]]
          /\ IF prsConn = "on"
             THEN Presence!Arrives(Presence!Observation(u, prsTruth[u].ch, ch)) /\ prsMissed' = prsMissed
             ELSE /\ prsMissed' = Append(prsMissed, Presence!Observation(u, prsTruth[u].ch, ch))
                  /\ UNCHANGED <<prsCache, prsSpawned, prsQueue>>
  BY DEF Presence!Move
<1>2. UNCHANGED <<prsClock, prsConn, prsDirty, prsGen, prsReady, prsStates, prsVerdict, prsDrops>>
  BY DEF Presence!Move, Presence!evidence
<1> PICK n : n = IF prsTruth[u].ch = Nowhere THEN prsClock ELSE prsTruth[u].since
  OBVIOUS
<1>3. ch \in Places /\ n \in Nat /\ prsTruth[u].ch \in Places
  BY <1>1 DEF Places, PresenceInv, PresenceTyped
<1>4. /\ prsTruth' \in [Users -> [ch : Places, since : Nat]]
      /\ prsTruth'[u].ch = ch /\ prsTruth'[u].since = n
      /\ \A v \in Users : v # u => prsTruth'[v] = prsTruth[v]
  BY <1>1, <1>3 DEF PresenceInv, PresenceTyped
<1> PICK e : e = Presence!Observation(u, prsTruth[u].ch, ch)
  OBVIOUS
<1>5. /\ e \in NewsRecs /\ e \in SpawnRecs /\ e.kind = "observe" /\ e.user = u
      /\ e.before = prsTruth[u].ch /\ e.after = ch
  BY <1>3 DEF NewsRecs, SpawnRecs, Presence!Observation
<1> QED
  BY <1>1, <1>2, <1>4, <1>5

LEMMA StaysWhenMoved ==
    ASSUME PresenceTyped, StaysHaveBegun, prsClock' = prsClock, NEW u \in Users,
           prsTruth'[u].since = IF prsTruth[u].ch = Nowhere THEN prsClock ELSE prsTruth[u].since,
           \A v \in Users : v # u => prsTruth'[v] = prsTruth[v]
    PROVE  StaysHaveBegun'
<1>1. ASSUME NEW v \in Users PROVE prsTruth'[v].since <= prsClock'
  <2>1. prsTruth[v].since <= prsClock /\ prsClock \in Nat
    BY DEF StaysHaveBegun, PresenceTyped
  <2>2. CASE v = u
    BY <2>1, <2>2
  <2>3. CASE v # u
    BY <2>1, <2>3
  <2> QED
    BY <2>2, <2>3
<1> QED
  BY <1>1 DEF StaysHaveBegun

(* News of the change are on their way.                                     *)
LEMMA OnwardWhenMoved ==
    ASSUME NEW u \in Users, NEW e, IsNews(e, u), e.before = prsTruth[u].ch, e.after = prsTruth'[u].ch,
           prsTruth'[u].since = IF prsTruth[u].ch = Nowhere THEN prsClock ELSE prsTruth[u].since,
           \A v \in Users : v # u => prsTruth'[v] = prsTruth[v],
           \A k \in 0 .. Len(prsQueue) : NewsAfter(k, u)' /\ (Breaks(e) => BreakAfter(k, u)')
    PROVE  \A v \in Users : Onward(v)
BY DEF Onward, Breaks

LEMMA MoveSeenKeeps ==
    ASSUME PresenceInv, NEW u \in Users, Presence!Move(u), prsConn = "on"
    PROVE  PresenceInv'
<1> USE DEF PresenceInv
<1>1. PICK e \in NewsRecs :
              /\ e \in SpawnRecs /\ e.kind = "observe" /\ e.user = u /\ e.before = prsTruth[u].ch /\ e.after = prsTruth'[u].ch
              /\ prsTruth' \in [Users -> [ch : Places, since : Nat]]
              /\ \A v \in Users : v # u => prsTruth'[v] = prsTruth[v]
              /\ prsTruth'[u].since = IF prsTruth[u].ch = Nowhere THEN prsClock ELSE prsTruth[u].since
              /\ Presence!Arrives(e) /\ prsMissed' = prsMissed
              /\ UNCHANGED <<prsClock, prsConn, prsDirty, prsGen, prsReady, prsStates, prsVerdict, prsDrops>>
  BY Moved
<1>2. /\ prsQueue' \in Seq(TaskRecs) /\ GoesOn(prsQueue, prsQueue') /\ SameNews(prsQueue, prsQueue')
      /\ SeedsWatch /\ prsCache' \in [Users -> Places]
      /\ prsSpawned' = Append(prsSpawned, e) /\ prsSpawned' \in Seq(SpawnRecs) /\ (Renewal' <=> Renewal)
  BY <1>1, ArrivesFacts DEF SeedsWatch
<1>3. /\ \A k \in Nat, v \in Users : (NewsAfter(k, v) => NewsAfter(k, v)') /\ (BreakAfter(k, v) => BreakAfter(k, v)')
      /\ \A k \in Nat : NewsAfter(k, u)' /\ (Breaks(e) => BreakAfter(k, u)')
      /\ IsNews(e, u) /\ \A v \in Users : IsNews(e, v) => v = u
  BY <1>1, <1>2, NewsWhenSpawned DEF NewsAfter, BreakAfter, IsNews
<1>4. \A v \in Users : Onward(v)
  <2>1. \A k \in 0 .. Len(prsQueue) : NewsAfter(k, u)' /\ (Breaks(e) => BreakAfter(k, u)')
    BY <1>3
  <2> QED
    BY <1>1, <1>3, <2>1, OnwardWhenMoved
<1>5. PresenceTyped'
  BY <1>1, <1>2 DEF PresenceTyped
<1>6. FreshIsIdle' /\ NoneMissedOnline'
  BY <1>1 DEF Linked, FreshIsIdle, Fresh, NoneMissedOnline
<1>7. StaysHaveBegun'
  BY <1>1, StaysWhenMoved DEF Linked
<1>8. prsMissed = <<>>
  BY DEF Linked, NoneMissedOnline
<1>9. \A v : ~HasNews(prsMissed, 0, v)
  BY <1>8 DEF HasNews
<1>10. MissedLeads'
  <2>1. prsCache' = [prsCache EXCEPT ![u] = e.after]
    BY <1>1 DEF Presence!Arrives
  <2>2. ASSUME NEW v \in Users PROVE prsCache'[v] = prsTruth'[v].ch
    <3>1. prsCache[v] = prsTruth[v].ch
      BY <1>9 DEF Linked, MissedLeads, Leads, Fresh
    <3> QED
      BY <3>1, <2>1, <1>1 DEF PresenceTyped
  <2>3. \A i \in DOMAIN prsMissed' : FALSE
    BY <1>1, <1>8
  <2> QED
    BY <2>2, <2>3 DEF MissedLeads, Leads
<1>11. SpawnedNewsLead'
  <2>1. \A v \in Users : IsNews(e, v) \/ (prsTruth'[v] = prsTruth[v] /\ (HasNews(prsMissed, 0, v) => HasNews(prsMissed', 0, v)))
    BY <1>1 DEF IsNews
  <2>2. \A v \in Users : IsNews(e, v) => e.after = prsTruth'[v].ch
    BY <1>1, <1>3
  <2> QED
    BY <1>1, <1>2, <2>1, <2>2, SpawnedWhenAppended DEF Linked
<1> QED
  BY <1>1, <1>2, <1>3, <1>4, <1>5, <1>6, <1>7, <1>10, <1>11, WorldGoesOn

LEMMA MoveMissedKeeps ==
    ASSUME PresenceInv, NEW u \in Users, Presence!Move(u), prsConn # "on"
    PROVE  PresenceInv'
<1> USE DEF PresenceInv
<1>1. PICK e \in NewsRecs :
              /\ e \in SpawnRecs /\ e.kind = "observe" /\ e.user = u /\ e.before = prsTruth[u].ch /\ e.after = prsTruth'[u].ch
              /\ prsTruth' \in [Users -> [ch : Places, since : Nat]]
              /\ \A v \in Users : v # u => prsTruth'[v] = prsTruth[v]
              /\ prsTruth'[u].since = IF prsTruth[u].ch = Nowhere THEN prsClock ELSE prsTruth[u].since
              /\ prsMissed' = Append(prsMissed, e) /\ UNCHANGED <<prsCache, prsSpawned, prsQueue>>
              /\ UNCHANGED <<prsClock, prsConn, prsDirty, prsGen, prsReady, prsStates, prsVerdict, prsDrops>>
  BY Moved
<1>2. GoesOn(prsQueue, prsQueue') /\ SameNews(prsQueue, prsQueue') /\ prsQueue' \in Seq(TaskRecs)
  BY <1>1, QueueStays
<1>3. prsMissed' \in Seq(NewsRecs) /\ prsMissed \in Seq(NewsRecs) /\ 0 \in 0 .. Len(prsMissed)
  BY <1>1 DEF PresenceTyped
<1>4. /\ \A v \in Users : /\ HasNews(prsMissed', 0, v) <=> HasNews(prsMissed, 0, v) \/ IsNews(e, v)
                          /\ HasBreak(prsMissed', 0, v) <=> HasBreak(prsMissed, 0, v) \/ (IsNews(e, v) /\ Breaks(e))
      /\ IsNews(e, u) /\ \A v \in Users : IsNews(e, v) => v = u
  <2> PICK m : m = Append(prsMissed, e)
    OBVIOUS
  <2>1. \A v \in Users : /\ HasNews(m, 0, v) <=> HasNews(prsMissed, 0, v) \/ IsNews(e, v)
                         /\ HasBreak(m, 0, v) <=> HasBreak(prsMissed, 0, v) \/ (IsNews(e, v) /\ Breaks(e))
    BY <1>3, NewsOfAppend
  <2> QED
    BY <2>1, <1>1 DEF IsNews
<1>5. /\ \A k \in Nat, v \in Users : (NewsAfter(k, v) => NewsAfter(k, v)') /\ (BreakAfter(k, v) => BreakAfter(k, v)')
      /\ \A k \in Nat : NewsAfter(k, u)' /\ (Breaks(e) => BreakAfter(k, u)')
      /\ Renewal' <=> Renewal
  BY <1>1, <1>4 DEF NewsAfter, BreakAfter, Renewal
<1>6. SeedsWatch
  BY <1>1, <1>5 DEF SeedsWatch, Lined, SeedsFit, SeedFits
<1>7. \A v \in Users : Onward(v)
  <2>1. \A k \in 0 .. Len(prsQueue) : NewsAfter(k, u)' /\ (Breaks(e) => BreakAfter(k, u)')
    BY <1>5
  <2> QED
    BY <1>1, <1>4, <2>1, OnwardWhenMoved
<1>8. PresenceTyped'
  BY <1>1, <1>3 DEF PresenceTyped
<1>9. FreshIsIdle' /\ NoneMissedOnline'
  BY <1>1 DEF Linked, FreshIsIdle, Fresh, NoneMissedOnline
<1>10. StaysHaveBegun'
  BY <1>1, StaysWhenMoved DEF Linked
<1>11. MissedLeads'
  <2>1. CASE Fresh
    BY <1>1, <2>1 DEF MissedLeads, Fresh
  <2>2. CASE ~Fresh
    BY <1>1, <2>2, MissedWhenAppended DEF Linked
  <2> QED
    BY <2>1, <2>2
<1>12. SpawnedNewsLead'
  <2>1. \A v \in Users : ~HasNews(prsMissed', 0, v) => ~HasNews(prsMissed, 0, v) /\ prsTruth'[v] = prsTruth[v]
    BY <1>1, <1>4
  <2> QED
    BY <1>1, <2>1 DEF Linked, SpawnedNewsLead, NoSeedAfter
<1>13. /\ \A v \in Users, k \in 0 .. Len(prsQueue) :
               (NewsAfter(k, v) => NewsAfter(k, v)') /\ (BreakAfter(k, v) => BreakAfter(k, v)')
       /\ Renewal => Renewal'
       /\ UNCHANGED <<prsDirty, prsGen, prsReady, prsStates, prsVerdict>>
  BY <1>1, <1>5
<1> QED
  BY <1>2, <1>6, <1>7, <1>8, <1>9, <1>10, <1>11, <1>12, <1>13, WorldGoesOn

-----------------------------------------------------------------------------
(* A task comes to the lock.                                                *)
Longer(s, r, t) ==
    /\ Len(s) \in Nat /\ Len(s) + 1 \in DOMAIN r /\ r[Len(s) + 1] = t
    /\ \A i \in DOMAIN s : i \in DOMAIN r /\ r[i] = s[i] /\ i \in 1 .. Len(s)
    /\ \A i \in DOMAIN r : i \in DOMAIN s \/ i = Len(s) + 1

LEMMA TaskArrives ==
    ASSUME PresenceTyped, NEW t \in TaskRecs, t.pc = "waiting", prsQueue' = Append(prsQueue, t)
    PROVE  /\ prsQueue' \in Seq(TaskRecs) /\ GoesOn(prsQueue, prsQueue') /\ Longer(prsQueue, prsQueue', t)
           /\ \A k \in 0 .. Len(prsQueue), u \in Users :
                 /\ HasNews(prsQueue', k, u) <=> HasNews(prsQueue, k, u) \/ IsNews(t, u)
                 /\ HasBreak(prsQueue', k, u) <=> HasBreak(prsQueue, k, u) \/ (IsNews(t, u) /\ Breaks(t))
<1> PICK s : s = Append(prsQueue, t)
  OBVIOUS
<1>1. /\ s \in Seq(TaskRecs) /\ Len(s) = Len(prsQueue) + 1 /\ s[Len(prsQueue) + 1] = t
      /\ DOMAIN s = 1 .. Len(prsQueue) + 1 /\ DOMAIN prsQueue = 1 .. Len(prsQueue) /\ Len(prsQueue) \in Nat
      /\ \A i \in 1 .. Len(prsQueue) : s[i] = prsQueue[i]
  BY DEF PresenceTyped
<1>2. \A k \in 0 .. Len(prsQueue), u \in Users :
         /\ HasNews(s, k, u) <=> HasNews(prsQueue, k, u) \/ IsNews(t, u)
         /\ HasBreak(s, k, u) <=> HasBreak(prsQueue, k, u) \/ (IsNews(t, u) /\ Breaks(t))
  BY NewsOfAppend DEF PresenceTyped
<1>3. GoesOn(prsQueue, s)
  <2>1. \A i \in DOMAIN s : i > Len(prsQueue) => i = Len(prsQueue) + 1
    BY <1>1
  <2>2. \A i \in DOMAIN prsQueue : s[i] = prsQueue[i]
    BY <1>1
  <2> QED
    BY <1>1, <2>1, <2>2 DEF GoesOn
<1>4. Longer(prsQueue, s, t)
  BY <1>1 DEF Longer
<1> QED
  BY <1>1, <1>2, <1>3, <1>4

LEMMA AskKeeps ==
    ASSUME PresenceInv, NEW u \in Users, Presence!Ask(u)
    PROVE  PresenceInv'
<1> USE DEF PresenceInv
<1> PICK t : t = [kind |-> "prove", pc |-> "waiting", user |-> u, live |-> prsCache[u], since |-> 0, at |-> 0, real |-> FALSE]
  OBVIOUS
<1>1. /\ prsCache[u] # Nowhere /\ prsReady /\ prsQueue' = Append(prsQueue, t) /\ prsVerdict' = Presence!NoAnswer
      /\ UNCHANGED <<prsClock, prsTruth, prsCache, prsConn, prsMissed, prsSpawned, prsDirty,
                     prsGen, prsReady, prsStates, prsDrops>>
  BY DEF Presence!Ask, Presence!outside, Presence!evidence
<1>2. t \in ProveRecs /\ t \in TaskRecs /\ t.pc = "waiting" /\ t.kind = "prove" /\ t.user = u
  <2>1. prsCache[u] \in Channels
    BY <1>1 DEF PresenceTyped, Places
  <2> QED
    BY <2>1 DEF ProveRecs, TaskRecs
<1> PICK s : s = prsQueue'
  OBVIOUS
<1> PICK n : n = Len(prsQueue) + 1
  OBVIOUS
<1>0. s \in Seq(TaskRecs) /\ GoesOn(prsQueue, s) /\ Longer(prsQueue, s, t)
  BY <1>1, <1>2, TaskArrives
<1>3. /\ n \in DOMAIN s /\ s[n] = t
      /\ \A i \in DOMAIN prsQueue : i \in DOMAIN s /\ s[i] = prsQueue[i] /\ i \in 1 .. Len(prsQueue)
      /\ \A i \in DOMAIN s : i \in DOMAIN prsQueue \/ i = n
      /\ \A i \in DOMAIN s : i > Len(prsQueue) => i = n
  BY <1>0 DEF Longer
<1>4. \A v \in Users : ~IsNews(t, v)
  BY <1>2 DEF IsNews
<1>5. /\ \A v \in Users, k \in 0 .. Len(prsQueue) : (NewsAfter(k, v)' <=> NewsAfter(k, v)) /\ (BreakAfter(k, v)' <=> BreakAfter(k, v))
      /\ Renewal' <=> Renewal
  BY <1>1, <1>2, <1>4, TaskArrives DEF NewsAfter, BreakAfter, Renewal
<1>6. \A v \in Users : Onward(v)
  BY <1>1 DEF Onward
<1>7. PresenceTyped'
  BY <1>0, <1>1 DEF PresenceTyped
<1>8. FreshIsIdle' /\ NoneMissedOnline' /\ StaysHaveBegun' /\ MissedLeads'
  <2>1. ~Fresh
    BY <1>1 DEF Linked, FreshIsIdle
  <2> QED
    BY <2>1, <1>1 DEF Linked, FreshIsIdle, Fresh, NoneMissedOnline, StaysHaveBegun, MissedLeads
<1>9. SpawnedNewsLead'
  BY <1>1, SpawnedStill
<1>10. QueuedNewsLead'
  <2>1. ASSUME NEW v \in Users, NEW i \in DOMAIN s, IsNews(s[i], v), ~NewsAfter(i, v)', ~Renewal', NoSeedAfter(s, i)
        PROVE  s[i].after = prsTruth[v].ch
    <3>0. i # n
      BY <2>1, <1>3, <1>4
    <3>1. i \in DOMAIN prsQueue /\ s[i] = prsQueue[i] /\ i \in 0 .. Len(prsQueue)
      BY <3>0, <1>3
    <3>2. ~NewsAfter(i, v) /\ ~Renewal
      BY <3>1, <2>1, <1>5
    <3>3. NoSeedAfter(prsQueue, i)
      BY <2>1, <1>3 DEF NoSeedAfter
    <3> QED
      BY <3>1, <3>2, <3>3, <2>1 DEF Linked, QueuedNewsLead
  <2> QED
    BY <2>1, <1>1 DEF QueuedNewsLead
<1>11. DirtyCounts'
  <2>0. prsQueue \in Seq(TaskRecs) /\ s = Append(prsQueue, t)
    BY <1>1 DEF PresenceTyped
  <2>1. ASSUME NEW v \in Users PROVE Cardinality(NewsOf(s, v)) = Cardinality(NewsOf(prsQueue, v))
    <3>1. /\ IsNews(t, v) => Cardinality(NewsOf(Append(prsQueue, t), v)) = Cardinality(NewsOf(prsQueue, v)) + 1
          /\ ~IsNews(t, v) => Cardinality(NewsOf(Append(prsQueue, t), v)) = Cardinality(NewsOf(prsQueue, v))
      BY <2>0, <1>2, CountAppended
    <3> QED
      BY <3>1, <2>0, <1>4
  <2> QED
    BY <2>1, <1>1 DEF Lined, DirtyCounts
<1>12. OnlyFirstWorks' /\ SeedsFit' /\ NoSeedWhenReady'
  <2>1. \A i \in DOMAIN prsQueue' : prsQueue'[i].kind # "seed"
    BY <1>1, <1>2, <1>3 DEF Lined, NoSeedWhenReady
  <2>2. \A i \in DOMAIN prsQueue' : i > Len(prsQueue) /\ prsQueue'[i].kind = "prove" => prsReady
    BY <1>1
  <2> QED
    BY <1>0, <1>1, <2>1, <2>2, ShapeGoesOn
<1>13. AskFits(n)'
  <2>1. prsTruth[u].ch # Nowhere \/ HasNews(prsMissed, 0, u)
    BY <1>1 DEF Linked, FreshIsIdle, MissedLeads, Leads
  <2> QED
    BY <2>1, <1>1, <1>2, <1>3 DEF AskFits, NewsAfter
<1>14. Evident'
  <2>1. \A i \in DOMAIN prsQueue' : i > Len(prsQueue) => AskFits(i)'
    BY <1>3, <1>13
  <2> QED
    BY <1>0, <1>1, <1>5, <1>6, <2>1, EvidenceGoesOn
<1> QED
  BY <1>7, <1>8, <1>9, <1>10, <1>11, <1>12, <1>14 DEF Linked, Lined

(* The task of a callback begins.                                           *)
LEMMA RenewalOfTail ==
    ASSUME PresenceTyped, prsSpawned # <<>>, prsSpawned' = Tail(prsSpawned)
    PROVE  Renewal <=> prsSpawned[1].kind = "seed" \/ Renewal'
<1> PICK s : s = Tail(prsSpawned)
  OBVIOUS
<1>1. /\ \A i \in DOMAIN s : i \in Nat /\ i + 1 \in DOMAIN prsSpawned /\ s[i] = prsSpawned[i + 1]
      /\ \A i \in DOMAIN prsSpawned : i \in Nat \ {0} /\ (i > 1 => i - 1 \in DOMAIN s /\ s[i - 1] = prsSpawned[i])
      /\ 1 \in DOMAIN prsSpawned
  BY TailFacts DEF PresenceTyped
<1>2. \A i \in DOMAIN prsSpawned : i = 1 \/ i > 1
  BY <1>1
<1> QED
  BY <1>1, <1>2 DEF Renewal

LEMMA SpawnedWhenStarted ==
    ASSUME PresenceTyped, SpawnedNewsLead, prsSpawned # <<>>, prsSpawned' = Tail(prsSpawned),
           UNCHANGED <<prsTruth, prsMissed>>
    PROVE  SpawnedNewsLead'
<1> PICK s : s = Tail(prsSpawned)
  OBVIOUS
<1>1. /\ \A i \in DOMAIN s : i \in Nat /\ i + 1 \in DOMAIN prsSpawned /\ s[i] = prsSpawned[i + 1]
      /\ \A i \in DOMAIN prsSpawned : i \in Nat \ {0} /\ (i > 1 => i - 1 \in DOMAIN s /\ s[i - 1] = prsSpawned[i])
      /\ prsSpawned \in Seq(SpawnRecs)
  BY TailFacts DEF PresenceTyped
<1>2. ASSUME NEW u \in Users, NEW i \in DOMAIN s,
             IsNews(s[i], u), ~HasNews(s, i, u), ~HasNews(prsMissed, 0, u), NoSeedAfter(s, i)
      PROVE  s[i].after = prsTruth[u].ch
  <2>1. i + 1 \in DOMAIN prsSpawned /\ s[i] = prsSpawned[i + 1] /\ i \in Nat
    BY <1>1
  <2>2. ~HasNews(prsSpawned, i + 1, u)
    BY <1>1, <1>2, <2>1, NewsOfTail
  <2>3. NoSeedAfter(prsSpawned, i + 1)
    <3>1. ASSUME NEW l \in DOMAIN prsSpawned, l > i + 1 PROVE prsSpawned[l].kind # "seed"
      <4>1. l - 1 \in DOMAIN s /\ s[l - 1] = prsSpawned[l] /\ l - 1 > i
        BY <1>1, <2>1, <3>1
      <4> QED
        BY <4>1, <1>2 DEF NoSeedAfter
    <3> QED
      BY <3>1 DEF NoSeedAfter
  <2> QED
    BY <1>2, <2>1, <2>2, <2>3 DEF SpawnedNewsLead
<1> QED
  BY <1>2 DEF SpawnedNewsLead

(* News at the lock that were there before the task came.                   *)
LEMMA QueuedWhenLonger ==
    ASSUME PresenceTyped, QueuedNewsLead, NEW t, Longer(prsQueue, prsQueue', t), prsTruth' = prsTruth,
           t.kind = "seed" \/
               /\ Renewal => Renewal'
               /\ \A u \in Users, k \in 0 .. Len(prsQueue) : NewsAfter(k, u) => NewsAfter(k, u)',
           NEW n, n = Len(prsQueue) + 1,
           \A u \in Users : IsNews(t, u) /\ ~NewsAfter(n, u)' /\ ~Renewal' => t.after = prsTruth[u].ch
    PROVE  QueuedNewsLead'
<1> PICK s : s = prsQueue'
  OBVIOUS
<1>1. /\ n \in DOMAIN s /\ s[n] = t
      /\ \A i \in DOMAIN prsQueue : i \in DOMAIN s /\ s[i] = prsQueue[i] /\ i \in 0 .. Len(prsQueue) /\ n > i
      /\ \A i \in DOMAIN s : i \in DOMAIN prsQueue \/ i = n
  BY DEF Longer
<1>2. ASSUME NEW u \in Users, NEW i \in DOMAIN s, IsNews(s[i], u), ~NewsAfter(i, u)', ~Renewal', NoSeedAfter(s, i)
      PROVE  s[i].after = prsTruth[u].ch
  <2>1. CASE i = n
    BY <1>1, <1>2, <2>1
  <2>2. CASE i # n
    <3>1. i \in DOMAIN prsQueue /\ s[i] = prsQueue[i] /\ i \in 0 .. Len(prsQueue) /\ n > i
      BY <1>1, <2>2
    <3>2. t.kind # "seed"
      BY <3>1, <1>1, <1>2 DEF NoSeedAfter
    <3>3. ~NewsAfter(i, u) /\ ~Renewal
      BY <3>1, <3>2, <1>2
    <3>4. NoSeedAfter(prsQueue, i)
      BY <1>1, <1>2 DEF NoSeedAfter
    <3> QED
      BY <1>2, <3>1, <3>3, <3>4 DEF QueuedNewsLead
  <2> QED
    BY <2>1, <2>2
<1> QED
  BY <1>2 DEF QueuedNewsLead

LEMMA CountsWhenLonger ==
    ASSUME PresenceTyped, NEW t \in TaskRecs, prsQueue' = Append(prsQueue, t), NEW v
    PROVE  Cardinality(NewsOf(prsQueue', v)) =
               IF IsNews(t, v) THEN Cardinality(NewsOf(prsQueue, v)) + 1 ELSE Cardinality(NewsOf(prsQueue, v))
<1>1. prsQueue \in Seq(TaskRecs)
  BY DEF PresenceTyped
<1> QED
  BY <1>1, CountAppended

(* The task of an observation begins: it waits for the lock.                *)
LEMMA NewsMoveOn ==
    ASSUME PresenceTyped, prsSpawned # <<>>, prsSpawned' = Tail(prsSpawned), prsMissed' = prsMissed,
           NEW t \in TaskRecs, t.pc = "waiting", t.kind = "observe", prsQueue' = Append(prsQueue, t),
           prsSpawned[1].kind = "observe", t.user = prsSpawned[1].user,
           t.before = prsSpawned[1].before, t.after = prsSpawned[1].after
    PROVE  /\ \A u \in Users, k \in 0 .. Len(prsQueue) :
                 (NewsAfter(k, u)' <=> NewsAfter(k, u)) /\ (BreakAfter(k, u)' <=> BreakAfter(k, u))
           /\ Renewal' <=> Renewal
<1> PICK s : s = Tail(prsSpawned)
  OBVIOUS
<1>1. prsSpawned \in Seq(SpawnRecs) /\ 0 \in Nat /\ 0 + 1 = 1
  BY DEF PresenceTyped
<1>2. \A u \in Users :
         /\ HasNews(prsSpawned, 0, u) <=> HasNews(s, 0, u) \/ IsNews(prsSpawned[1], u)
         /\ HasBreak(prsSpawned, 0, u) <=> HasBreak(s, 0, u) \/ (IsNews(prsSpawned[1], u) /\ Breaks(prsSpawned[1]))
  BY <1>1, NewsOfTail, NewsOfHead
<1>3. \A u \in Users : (IsNews(t, u) <=> IsNews(prsSpawned[1], u)) /\ (Breaks(t) <=> Breaks(prsSpawned[1]))
  BY DEF IsNews, Breaks
<1>4. Renewal' <=> Renewal
  BY RenewalOfTail
<1> QED
  BY <1>2, <1>3, <1>4, TaskArrives DEF NewsAfter, BreakAfter

LEMMA StartObserveKeeps ==
    ASSUME PresenceInv, Presence!StartTask, prsSpawned[1].kind = "observe"
    PROVE  PresenceInv'
<1> USE DEF PresenceInv
<1> PICK e : e = prsSpawned[1]
  OBVIOUS
<1> PICK t : t = [kind |-> "observe", pc |-> "waiting", user |-> e.user, before |-> e.before, after |-> e.after,
                  doc |-> Presence!NoObservation]
  OBVIOUS
<1>1. /\ prsSpawned # <<>> /\ prsSpawned' = Tail(prsSpawned) /\ prsQueue' = Append(prsQueue, t)
      /\ prsDirty' = [prsDirty EXCEPT ![e.user] = @ + 1]
      /\ UNCHANGED <<prsClock, prsTruth, prsCache, prsConn, prsMissed, prsGen, prsReady, prsStates, prsVerdict, prsDrops>>
  BY DEF Presence!StartTask, Presence!Marked, Presence!outside, Presence!evidence
<1>2. /\ e \in NewsRecs /\ e.user \in Users
      /\ prsSpawned' \in Seq(SpawnRecs) /\ prsSpawned \in Seq(SpawnRecs) /\ 1 \in DOMAIN prsSpawned
  <2>1. prsSpawned \in Seq(SpawnRecs)
    BY DEF PresenceTyped
  <2>2. 1 \in DOMAIN prsSpawned /\ e \in SpawnRecs /\ prsSpawned' \in Seq(SpawnRecs)
    BY <2>1, <1>1, TailFacts
  <2> QED
    BY <2>1, <2>2 DEF SpawnRecs, NewsRecs
<1>3. /\ t \in TaskRecs /\ t.pc = "waiting" /\ t.kind = "observe"
      /\ t.user = e.user /\ t.before = e.before /\ t.after = e.after
  BY <1>2 DEF TaskRecs, ObserveRecs, NewsRecs, Docs, Presence!NoObservation, Places
<1> HIDE DEF PresenceInv
<1> PICK s : s = prsQueue'
  OBVIOUS
<1> PICK n : n = Len(prsQueue) + 1
  OBVIOUS
<1>4. s \in Seq(TaskRecs) /\ GoesOn(prsQueue, s) /\ Longer(prsQueue, s, t)
  BY <1>1, <1>3, TaskArrives DEF PresenceInv
<1>5. /\ n \in DOMAIN s /\ s[n] = t
      /\ \A i \in DOMAIN prsQueue : i \in DOMAIN s /\ s[i] = prsQueue[i] /\ i \in 1 .. Len(prsQueue)
      /\ \A i \in DOMAIN s : i \in DOMAIN prsQueue \/ i = n
      /\ \A i \in DOMAIN s : i > Len(prsQueue) => i = n
  BY <1>4 DEF Longer
<1>6. /\ \A v \in Users, k \in 0 .. Len(prsQueue) : (NewsAfter(k, v)' <=> NewsAfter(k, v)) /\ (BreakAfter(k, v)' <=> BreakAfter(k, v))
      /\ Renewal' <=> Renewal
  BY <1>1, <1>3, NewsMoveOn DEF PresenceInv
<1>7. \A v \in Users : Onward(v)
  BY <1>1 DEF Onward
<1>8. PresenceTyped'
  <2>1. prsDirty' \in [Users -> Int]
    BY <1>1, <1>2 DEF PresenceInv, PresenceTyped
  <2> QED
    BY <1>1, <1>2, <1>4, <2>1 DEF PresenceInv, PresenceTyped
<1>9. FreshIsIdle' /\ NoneMissedOnline' /\ StaysHaveBegun' /\ MissedLeads'
  BY <1>1 DEF PresenceInv, Linked, FreshIsIdle, Fresh, NoneMissedOnline, StaysHaveBegun, MissedLeads
<1>10. SpawnedNewsLead'
  BY <1>1, SpawnedWhenStarted DEF PresenceInv, Linked
<1>11. ASSUME NEW v \in Users, IsNews(t, v), ~NewsAfter(n, v)', ~Renewal'
       PROVE  t.after = prsTruth[v].ch
  <2>1. ~HasNews(prsSpawned', 0, v) /\ ~HasNews(prsMissed, 0, v)
    BY <1>11, <1>1 DEF NewsAfter
  <2>2. ~HasNews(prsSpawned, 1, v)
    <3>1. 0 \in Nat /\ 0 + 1 = 1
      OBVIOUS
    <3> QED
      BY <3>1, <2>1, <1>1, <1>2, NewsOfTail
  <2>3. IsNews(e, v)
    BY <1>3, <1>11 DEF IsNews
  <2>4. NoSeedAfter(prsSpawned, 1)
    BY <1>11, <1>6 DEF Renewal, NoSeedAfter
  <2> QED
    BY <2>1, <2>2, <2>3, <2>4, <1>2, <1>3 DEF PresenceInv, Linked, SpawnedNewsLead
<1>12. QueuedNewsLead'
  BY <1>1, <1>4, <1>6, <1>11, QueuedWhenLonger DEF PresenceInv, Linked
<1>13. DirtyCounts'
  <2>1. ASSUME NEW v \in Users PROVE prsDirty'[v] = Cardinality(NewsOf(s, v))
    <3>1. Cardinality(NewsOf(s, v)) = IF IsNews(t, v) THEN Cardinality(NewsOf(prsQueue, v)) + 1 ELSE Cardinality(NewsOf(prsQueue, v))
      BY <1>1, <1>3, CountsWhenLonger DEF PresenceInv
    <3>2. prsDirty'[v] = IF v = e.user THEN prsDirty[v] + 1 ELSE prsDirty[v]
      BY <1>1, <1>2 DEF PresenceInv, PresenceTyped
    <3>3. IsNews(t, v) <=> v = e.user
      BY <1>3 DEF IsNews
    <3> QED
      BY <3>1, <3>2, <3>3 DEF PresenceInv, Lined, DirtyCounts
  <2> QED
    BY <2>1 DEF DirtyCounts
<1>14. OnlyFirstWorks' /\ SeedsFit' /\ NoSeedWhenReady'
  <2>1. ASSUME NEW i \in DOMAIN s, s[i].kind = "seed"
        PROVE  /\ i \in DOMAIN prsQueue
               /\ s[i].live => s[i].view = prsCache'
               /\ ~s[i].live => Renewal' \/ prsQueue[i].gen # prsGen
    <3>1. i \in DOMAIN prsQueue /\ s[i] = prsQueue[i]
      BY <2>1, <1>3, <1>5
    <3>2. SeedFits(prsQueue[i])
      BY <3>1, <2>1 DEF PresenceInv, Lined, SeedsFit
    <3> QED
      BY <3>1, <3>2, <1>1, <1>6 DEF SeedFits
  <2>2. \A i \in DOMAIN s : i > Len(prsQueue) /\ s[i].kind = "prove" => prsReady
    BY <1>3, <1>5
  <2> QED
    BY <1>1, <1>4, <2>1, <2>2, ShapeGoesOn
<1>15. Evident'
  <2>1. ASSUME NEW i \in DOMAIN s, i > Len(prsQueue) PROVE AskFits(i)'
    BY <2>1, <1>3, <1>5 DEF AskFits
  <2> QED
    BY <1>1, <1>4, <1>6, <1>7, <2>1, EvidenceGoesOn
<1> QED
  BY <1>8, <1>9, <1>10, <1>12, <1>13, <1>14, <1>15 DEF PresenceInv, Linked, Lined

(* A new generation: nothing is known any more.                             *)
LEMMA Emptied ==
    ASSUME PresenceTyped, prsStates' = [u \in Users |-> Presence!NoObservation]
    PROVE  prsStates' \in [Users -> Docs] /\ \A u \in Users : prsStates'[u].ch = Nowhere
BY DEF Presence!NoObservation, Docs, Places

LEMMA EvidenceWhenReset ==
    ASSUME PresenceInv, GoesOn(prsQueue, prsQueue'),
           prsGen' = prsGen + 1, prsReady' = FALSE, prsVerdict' = prsVerdict,
           \A u \in Users : prsStates'[u].ch = Nowhere
    PROVE  Evident'
<1>1. MemoryIsSound' /\ AsksFit' /\ (prsVerdict.yes => prsVerdict.real)'
  BY DEF MemoryIsSound, AsksFit, AskFits, PresenceInv, Evident
<1>2. ASSUME prsQueue' # <<>> PROVE (ObserveFits(prsQueue[1]) /\ SeedIsSound(prsQueue[1]) /\ ProofFits(prsQueue[1]))'
  <2> PICK t : t = prsQueue[1]
    OBVIOUS
  <2> PICK s : s = prsQueue'
    OBVIOUS
  <2> PICK r : r = s[1]
    OBVIOUS
  <2>1. CASE prsQueue = <<>>
    <3>1. r.pc = "waiting"
      BY <1>2, <2>1 DEF GoesOn
    <3> QED
      BY <3>1 DEF ObserveFits, SeedIsSound, ProofFits
  <2>2. CASE prsQueue # <<>>
    <3>1. 1 \in DOMAIN prsQueue /\ t \in TaskRecs
      BY <2>2 DEF PresenceInv, PresenceTyped
    <3>2. /\ r.kind = t.kind /\ r.pc = t.pc /\ (t.kind # "seed" => r = t) /\ (t.kind = "seed" => r.gen = t.gen)
      BY <3>1 DEF GoesOn
    <3>3. ObserveFits(r)'
      BY <3>1, <3>2, TaskKinds DEF ObserveFits, ObserveRecs
    <3>4. SeedIsSound(r)'
      <4>1. r.kind = "seed" => r.gen # prsGen'
        <5>1. r.kind = "seed" => r.gen <= prsGen
          BY <3>1, <3>2 DEF PresenceInv, Lined, SeedsFit, SeedFits
        <5>2. r.kind = "seed" => r.gen \in Nat /\ prsGen \in Nat
          BY <3>1, <3>2, TaskKinds DEF SeedRecs, PresenceInv, PresenceTyped
        <5> QED
          BY <5>1, <5>2
      <4> QED
        BY <4>1 DEF SeedIsSound
    <3>5. ProofFits(r)'
      <4>1. SUFFICES ASSUME r.kind = "prove"
                     PROVE  /\ r.pc = "leasing" => r.real \/ ~Presence!LocalProof(prsStates[r.user], r.live)'
                            /\ r.pc = "finding" => r.real
        BY DEF ProofFits
      <4>2. r = t /\ t.user \in Users /\ t.live # Nowhere
        BY <4>1, <3>1, <3>2, TaskKinds, SessionConstants DEF ProveRecs
      <4>3. ~Presence!LocalProof(prsStates[r.user], r.live)'
        BY <4>2 DEF Presence!LocalProof
      <4>4. t.pc = "finding" => t.real
        BY <4>1, <4>2, <2>2 DEF PresenceInv, Evident, HeadFits, ProofFits
      <4> QED
        BY <4>2, <4>3, <4>4
    <3> QED
      BY <3>3, <3>4, <3>5
  <2> QED
    BY <2>1, <2>2
<1> QED
  BY <1>1, <1>2 DEF Evident, HeadFits

LEMMA SeedsOfReset ==
    ASSUME PresenceInv, prsGen' = prsGen + 1, prsCache' = prsCache,
           NEW i \in DOMAIN prsQueue, prsQueue[i].kind = "seed"
    PROVE  /\ SeedFits(prsQueue[i]) /\ prsQueue[i].gen < prsGen'
           /\ \A t : t = prsQueue[i] => SeedFits(t)'
<1> PICK t : t = prsQueue[i]
  OBVIOUS
<1>1. SeedFits(t) /\ t.gen \in Nat /\ prsGen \in Nat
  BY TaskKinds DEF PresenceInv, PresenceTyped, Lined, SeedsFit, SeedRecs
<1>2. t.gen <= prsGen
  BY <1>1 DEF SeedFits
<1>3. t.gen < prsGen' /\ t.gen <= prsGen' /\ t.gen # prsGen'
  BY <1>1, <1>2
<1>4. SeedFits(t)'
  BY <1>1, <1>3 DEF SeedFits
<1> QED
  BY <1>1, <1>3, <1>4

LEMMA StartLosingKeeps ==
    ASSUME PresenceInv, Presence!StartTask, prsSpawned[1].kind = "disconnect"
    PROVE  PresenceInv'
<1>1. /\ prsSpawned # <<>> /\ prsSpawned' = Tail(prsSpawned) /\ prsReady' = FALSE /\ prsGen' = prsGen + 1
      /\ prsStates' = [u \in Users |-> Presence!NoObservation]
      /\ UNCHANGED <<prsClock, prsTruth, prsCache, prsConn, prsMissed, prsQueue, prsDirty, prsVerdict, prsDrops>>
  BY DEF Presence!StartTask, Presence!Disconnected, Presence!outside
<1>2. prsSpawned' \in Seq(SpawnRecs) /\ prsSpawned \in Seq(SpawnRecs)
  BY <1>1, TailFacts DEF PresenceInv, PresenceTyped
<1>3. prsStates' \in [Users -> Docs] /\ \A u \in Users : prsStates'[u].ch = Nowhere
  BY <1>1, Emptied DEF PresenceInv
<1>4. GoesOn(prsQueue, prsQueue') /\ SameNews(prsQueue, prsQueue') /\ prsQueue' \in Seq(TaskRecs)
  BY <1>1, QueueStays
<1>5. PresenceTyped'
  <2>0. prsGen' \in Nat
    BY <1>1 DEF PresenceInv, PresenceTyped
  <2>1. prsReady' \in BOOLEAN
    BY <1>1, Zenon
  <2> QED
    BY <1>1, <1>2, <1>3, <2>0, <2>1 DEF PresenceInv, PresenceTyped
<1>6. FreshIsIdle' /\ NoneMissedOnline' /\ StaysHaveBegun' /\ MissedLeads'
  BY <1>1 DEF PresenceInv, Linked, FreshIsIdle, Fresh, NoneMissedOnline, StaysHaveBegun, MissedLeads
<1>7. SpawnedNewsLead'
  BY <1>1, SpawnedWhenStarted DEF PresenceInv, Linked
<1>8. Renewal' <=> Renewal
  BY <1>1, RenewalOfTail DEF PresenceInv
<1>9. \A k : \A u \in Users : NewsAfter(k, u) => NewsAfter(k, u)'
  <2> PICK s : s = Tail(prsSpawned)
    OBVIOUS
  <2>1. 0 \in Nat /\ 0 + 1 = 1
    OBVIOUS
  <2>2. \A u \in Users : HasNews(prsSpawned, 0, u) <=> HasNews(s, 0, u) \/ IsNews(prsSpawned[1], u)
    BY <1>1, <1>2, <2>1, NewsOfTail, NewsOfHead
  <2>3. \A u \in Users : ~IsNews(prsSpawned[1], u)
    BY DEF IsNews
  <2> QED
    BY <1>1, <2>2, <2>3 DEF NewsAfter
<1>10. QueuedNewsLead'
  BY <1>1, <1>4, <1>8, <1>9, QueuedWhenSame DEF PresenceInv, Linked
<1>11. DirtyCounts'
  BY <1>1, <1>4, CountsStay
<1>12. OnlyFirstWorks' /\ NoSeedWhenReady'
  BY <1>1 DEF PresenceInv, Lined, OnlyFirstWorks, NoSeedWhenReady
<1>13. SeedsFit'
  <2>1. ASSUME NEW i \in DOMAIN prsQueue, prsQueue[i].kind = "seed" PROVE SeedFits(prsQueue[i])'
    <3> PICK t : t = prsQueue[i]
      OBVIOUS
    <3>1. SeedFits(t)'
      BY <1>1, <2>1, SeedsOfReset
    <3> QED
      BY <1>1, <3>1
  <2> QED
    BY <1>1, <2>1 DEF PresenceInv, Lined, SeedsFit
<1>14. Evident'
  BY <1>1, <1>3, <1>4, EvidenceWhenReset
<1> QED
  BY <1>5, <1>6, <1>7, <1>10, <1>11, <1>12, <1>13, <1>14 DEF PresenceInv, Linked, Lined

LEMMA StartSeedKeeps ==
    ASSUME PresenceInv, Presence!StartTask, prsSpawned[1].kind = "seed"
    PROVE  PresenceInv'
<1> PICK t : t = [kind |-> "seed", pc |-> "waiting", gen |-> prsGen', now |-> 0,
                  live |-> TRUE, view |-> prsCache, size |-> 0, visited |-> {}, user |-> Nowhere,
                  doc |-> Presence!NoObservation]
  OBVIOUS
<1>1. /\ prsSpawned # <<>> /\ prsSpawned' = Tail(prsSpawned) /\ prsReady' = FALSE /\ prsGen' = prsGen + 1
      /\ prsStates' = [u \in Users |-> Presence!NoObservation]
      /\ prsQueue' = Append(prsQueue, t)
      /\ UNCHANGED <<prsClock, prsTruth, prsCache, prsConn, prsMissed, prsDirty, prsVerdict, prsDrops>>
  BY DEF Presence!StartTask, Presence!Disconnected, Presence!outside
<1>2. /\ t \in TaskRecs /\ t.pc = "waiting" /\ t.kind = "seed" /\ t.gen = prsGen + 1
      /\ t.live /\ t.view = prsCache /\ t.visited = {}
  <2>0. prsGen' \in Nat /\ prsGen' = prsGen + 1
    BY <1>1 DEF PresenceInv, PresenceTyped
  <2>1. prsCache \in [Users -> Places] /\ Presence!NoObservation \in Docs /\ 0 \in Sizes
    BY DEF PresenceInv, PresenceTyped, Presence!NoObservation, Docs, Places, Sizes
  <2> QED
    BY <2>0, <2>1 DEF TaskRecs, SeedRecs
<1> PICK s : s = prsQueue'
  OBVIOUS
<1> PICK n : n = Len(prsQueue) + 1
  OBVIOUS
<1>3. s \in Seq(TaskRecs) /\ GoesOn(prsQueue, s) /\ Longer(prsQueue, s, t)
  BY <1>1, <1>2, TaskArrives DEF PresenceInv
<1>4. /\ n \in DOMAIN s /\ s[n] = t
      /\ \A i \in DOMAIN prsQueue : i \in DOMAIN s /\ s[i] = prsQueue[i] /\ i \in Nat /\ i < n
      /\ \A i \in DOMAIN s : i \in DOMAIN prsQueue \/ i = n
  BY <1>3 DEF Longer
<1>5. prsSpawned' \in Seq(SpawnRecs) /\ prsSpawned \in Seq(SpawnRecs)
  BY <1>1, TailFacts DEF PresenceInv, PresenceTyped
<1>6. prsStates' \in [Users -> Docs] /\ \A u \in Users : prsStates'[u].ch = Nowhere
  BY <1>1, Emptied DEF PresenceInv
<1>7. PresenceTyped'
  <2>0. prsGen' \in Nat
    BY <1>1 DEF PresenceInv, PresenceTyped
  <2>1. prsReady' \in BOOLEAN
    BY <1>1, Zenon
  <2> QED
    BY <1>1, <1>3, <1>5, <1>6, <2>0, <2>1 DEF PresenceInv, PresenceTyped
<1>8. FreshIsIdle' /\ NoneMissedOnline' /\ StaysHaveBegun' /\ MissedLeads'
  BY <1>1 DEF PresenceInv, Linked, FreshIsIdle, Fresh, NoneMissedOnline, StaysHaveBegun, MissedLeads
<1>9. SpawnedNewsLead'
  BY <1>1, SpawnedWhenStarted DEF PresenceInv, Linked
<1>10. \A v : ~IsNews(t, v)
  BY <1>2 DEF IsNews
<1>11. QueuedNewsLead'
  BY <1>1, <1>2, <1>3, <1>10, QueuedWhenLonger DEF PresenceInv, Linked
<1>12. DirtyCounts'
  <2>1. ASSUME NEW v \in Users PROVE prsDirty'[v] = Cardinality(NewsOf(s, v))
    <3>1. Cardinality(NewsOf(s, v)) = Cardinality(NewsOf(prsQueue, v))
      BY ZenonT(40), <1>1, <1>2, <1>10, CountsWhenLonger DEF PresenceInv
    <3> QED
      BY <3>1, <1>1 DEF PresenceInv, Lined, DirtyCounts
  <2> QED
    BY <2>1 DEF DirtyCounts
<1>13. NoSeedWhenReady' /\ OnlyFirstWorks'
  BY <1>1, <1>2, <1>4 DEF PresenceInv, Lined, OnlyFirstWorks, NoSeedWhenReady
<1>14. SeedsFit'
  <2>1. ASSUME NEW i \in DOMAIN s, s[i].kind = "seed"
        PROVE  /\ \A r : r = s[i] => SeedFits(r)'
               /\ \A j \in DOMAIN s : j > i => s[j].kind # "prove" /\ (s[j].kind = "seed" => s[i].gen < s[j].gen)
    <3>1. CASE i = n
      <4>1. SeedFits(t)'
        BY <1>1, <1>2 DEF SeedFits, PresenceInv, PresenceTyped
      <4>2. \A j \in DOMAIN s : ~(j > n)
        BY <1>4, <1>3 DEF Longer
      <4> QED
        BY <4>1, <4>2, <3>1, <1>4
    <3>2. CASE i # n
      <4>1. i \in DOMAIN prsQueue /\ s[i] = prsQueue[i]
        BY <3>2, <1>4
      <4>2. s[i].gen < t.gen /\ \A r : r = s[i] => SeedFits(r)'
        BY <4>1, <2>1, <1>1, <1>2, SeedsOfReset
      <4>3. ASSUME NEW j \in DOMAIN s, j > i
            PROVE  s[j].kind # "prove" /\ (s[j].kind = "seed" => s[i].gen < s[j].gen)
        <5>1. CASE j = n
          BY <5>1, <4>2, <1>2, <1>4
        <5>2. CASE j # n
          BY <5>2, <4>1, <4>3, <2>1, <1>4 DEF PresenceInv, Lined, SeedsFit
        <5> QED
          BY <5>1, <5>2
      <4> QED
        BY <4>2, <4>3
    <3> QED
      BY <3>1, <3>2
  <2> QED
    BY <2>1 DEF SeedsFit
<1>15. Evident'
  BY <1>1, <1>3, <1>6, EvidenceWhenReset
<1> QED
  BY <1>7, <1>8, <1>9, <1>11, <1>12, <1>13, <1>14, <1>15 DEF PresenceInv, Linked, Lined

LEMMA StartTaskKeeps ==
    ASSUME PresenceInv, Presence!StartTask
    PROVE  PresenceInv'
<1>1. Head(prsSpawned) = prsSpawned[1]
  BY DEF Presence!StartTask, PresenceInv, PresenceTyped
<1>2. prsSpawned[1].kind \in {"observe", "seed", "disconnect"}
  BY <1>1 DEF Presence!StartTask
<1> QED
  BY <1>2, StartObserveKeeps, StartSeedKeeps, StartLosingKeeps

LEMMA NothingKeeps ==
    ASSUME PresenceInv, UNCHANGED prsVars
    PROVE  PresenceInv'
<1>1. UNCHANGED <<prsClock, prsTruth, prsCache, prsMissed, prsConn, prsSpawned, prsQueue, prsDirty,
                  prsGen, prsReady, prsStates, prsVerdict, prsDrops>>
  BY DEF prsVars
<1>2. GoesOn(prsQueue, prsQueue') /\ SameNews(prsQueue, prsQueue') /\ prsQueue' \in Seq(TaskRecs)
  BY <1>1, QueueStays
<1>3. /\ Renewal' <=> Renewal
      /\ \A u, k : (NewsAfter(k, u)' <=> NewsAfter(k, u)) /\ (BreakAfter(k, u)' <=> BreakAfter(k, u))
  BY <1>1 DEF Renewal, NewsAfter, BreakAfter
<1>4. SeedsWatch
  BY <1>1, <1>3 DEF SeedsWatch, PresenceInv, Lined, SeedsFit, SeedFits
<1>5. \A u \in Users : Onward(u)
  BY <1>1 DEF Onward
<1>6. PresenceTyped'
  BY <1>1 DEF PresenceInv, PresenceTyped
<1>7. FreshIsIdle'
  BY <1>1 DEF PresenceInv, Linked, FreshIsIdle, Fresh
<1>8. MissedLeads' /\ NoneMissedOnline' /\ StaysHaveBegun' /\ SpawnedNewsLead'
  BY <1>1, WorldStill, SpawnedStill DEF PresenceInv
<1> QED
  BY <1>1, <1>2, <1>3, <1>4, <1>5, <1>6, <1>7, <1>8, WorldGoesOn

LEMMA PresenceNextKeeps ==
    ASSUME PresenceInv, Presence!Next
    PROVE  PresenceInv'
<1>1. CASE Presence!Tick
  BY <1>1, TickKeeps
<1>2. CASE Presence!Drop
  BY <1>2, DropKeeps
<1>3. CASE Presence!Resume
  BY <1>3, ResumeKeeps
<1>4. CASE Presence!Replay
  BY <1>4, ReplayKeeps, ReplayedKeeps
<1>5. CASE Presence!Identify
  BY <1>5, IdentifyKeeps
<1>6. ASSUME NEW u \in Users, Presence!Move(u) PROVE PresenceInv'
  BY <1>6, MoveSeenKeeps, MoveMissedKeeps
<1>7. ASSUME NEW u \in Users, Presence!Ask(u) PROVE PresenceInv'
  BY <1>7, AskKeeps
<1>8. CASE Presence!Tasks
  BY <1>8, StartTaskKeeps, ObserveBeginKeeps, ObserveEndKeeps, SeedBeginKeeps, SeedNextKeeps, SeedWrittenKeeps,
     SeedEndKeeps, ProveBeginKeeps, ProveLocalKeeps, ProveStoredKeeps DEF Presence!Tasks
<1> QED
  BY <1>1, <1>2, <1>3, <1>4, <1>5, <1>6, <1>7, <1>8 DEF Presence!Next

LEMMA PresenceInitFits == Presence!Init => PresenceInv
<1> SUFFICES ASSUME Presence!Init PROVE PresenceInv
  OBVIOUS
<1>1. /\ prsClock = 0 /\ prsConn = "off" /\ prsMissed = <<>> /\ prsSpawned = <<>> /\ prsQueue = <<>>
      /\ prsGen = 0 /\ prsReady = FALSE /\ prsDrops = 0 /\ prsVerdict = Presence!NoAnswer
      /\ prsDirty = [u \in Users |-> 0] /\ prsCache = [u \in Users |-> Nowhere]
      /\ prsStates = [u \in Users |-> Presence!NoObservation]
      /\ prsTruth \in [Users -> [ch : Places, since : {0}]]
  BY DEF Presence!Init, Places
<1>2. prsTruth \in [Users -> [ch : Places, since : Nat]] /\ \A u \in Users : prsTruth[u].since = 0
  BY <1>1
<1>3. PresenceTyped
  <2>1. prsStates \in [Users -> Docs] /\ prsDirty \in [Users -> Int] /\ prsCache \in [Users -> Places]
    BY <1>1 DEF Presence!NoObservation, Docs, Places
  <2>2. prsMissed \in Seq(NewsRecs) /\ prsSpawned \in Seq(SpawnRecs) /\ prsQueue \in Seq(TaskRecs)
    BY <1>1
  <2> QED
    BY <1>1, <1>2, <2>1, <2>2 DEF PresenceTyped
<1>4. Fresh
  BY <1>1 DEF Fresh
<1>5. Linked
  BY <1>1, <1>2, <1>4 DEF Linked, FreshIsIdle, MissedLeads, NoneMissedOnline, StaysHaveBegun, SpawnedNewsLead,
     QueuedNewsLead
<1>6. DirtyCounts
  <2>1. \A u \in Users : NewsOf(prsQueue, u) = {}
    BY <1>1 DEF NewsOf
  <2> QED
    BY <1>1, <2>1, FS_EmptySet DEF DirtyCounts
<1>7. Lined
  BY <1>1, <1>6 DEF Lined, OnlyFirstWorks, SeedsFit, NoSeedWhenReady
<1>8. Evident
  BY <1>1 DEF Evident, MemoryIsSound, HeadFits, AsksFit, Presence!NoAnswer
<1> QED
  BY <1>3, <1>5, <1>7, <1>8 DEF PresenceInv

(* The evidence says no more of a user than is so, unless news or a new     *)
(* snapshot are on their way to correct it, and the counts, generations and *)
(* the tasks at the lock fit one another, over lost connections, resumed    *)
(* and new sessions and failed writes (voice_presence.py observe, seed,     *)
(* disconnected and proves_presence).                                       *)
THEOREM PresenceInvariant == SafetySpec => []PresenceInv
<1>1. SafetyInit => PresenceInv
  BY PresenceInitFits DEF SafetyInit
<1>2. PresenceInv /\ [SafetyNext]_SafetyVars => PresenceInv'
  BY PresenceNextKeeps, NothingKeeps DEF SafetyNext, SafetyVars
<1> QED
  BY <1>1, <1>2, PTL DEF SafetySpec

(* A yes to the executor was right when the proof looked under the lock:    *)
(* the member had been in the channel since before the deadline, unless     *)
(* Discord's news of him had not become a task yet (proves_presence).       *)
THEOREM YesIsRealAlways == SafetySpec => []YesIsReal
<1>1. PresenceInv => YesIsReal
  BY DEF PresenceInv, Evident, YesIsReal, Presence!YesIsReal
<1> QED
  BY <1>1, PresenceInvariant, PTL

(* With no callback left to run, the memory has each user in voice in the   *)
(* channel he is in, and no longer than he has been there (observe, seed).  *)
THEOREM RestIsTruthful == SafetySpec => []AtRestTruthful
<1>1. PresenceInv => AtRestTruthful
  <2> SUFFICES ASSUME PresenceInv, prsConn = "on", prsReady, prsSpawned = <<>>, prsQueue = <<>>,
                      NEW u \in Users, prsCache[u] # Nowhere, prsStates[u].ch # Nowhere
               PROVE  prsTruth[u].ch = prsStates[u].ch /\ prsTruth[u].since <= prsStates[u].since
    BY DEF AtRestTruthful, Presence!AtRestTruthful
  <2>1. prsMissed = <<>>
    BY DEF PresenceInv, Linked, NoneMissedOnline
  <2>2. ~HasNews(prsMissed, 0, u) /\ ~Renewal /\ ~NewsAfter(0, u) /\ ~BreakAfter(0, u)
    BY <2>1 DEF Renewal, NewsAfter, BreakAfter, HasNews, HasBreak
  <2>3. prsTruth[u].ch # Nowhere
    BY <2>2 DEF PresenceInv, Linked, MissedLeads, Leads, Fresh
  <2>4. Sound(u, prsStates[u], 0)
    BY DEF PresenceInv, Evident, MemoryIsSound
  <2> QED
    BY <2>2, <2>3, <2>4 DEF Sound
<1> QED
  BY <1>1, PresenceInvariant, PTL

(* The part about the tracker does what the tracker does, or nothing.       *)
LEMMA SafetyIsTracking == SafetySpec => Spec
<1>1. SafetyInit => Init
  BY DEF SafetyInit
<1>2. [SafetyNext]_SafetyVars => [Next]_vars
  BY DEF SafetyNext, SafetyVars
<1> QED
  BY <1>1, <1>2, PTL DEF SafetySpec, Spec

(* The rows say where the users are beside the evidence of presence, too:   *)
(* the specification of the run has both (RecordsAreTruthful).              *)
THEOREM SafetyRecordsAreTruthful == SafetySpec => []TruthfulWhenQuiet
BY SafetyIsTracking, RecordsAreTruthful, PTL

-----------------------------------------------------------------------------
(* What holds in every run, also when the reaper met live rows, answers      *)
(* were lost and moves went unseen: references lead to rows, a channel has   *)
(* one active session at most and a user one active interval in it.          *)

RowsRefer ==
    /\ session \in Seq(SessionRows) /\ interval \in Seq(IntervalRows)
    /\ \A i \in DOMAIN interval : interval[i].session \in DOMAIN session
    /\ \A s, t \in ActiveSessions : session[s].channel = session[t].channel => s = t
    /\ \A i, j \in DOMAIN interval :
          Open(i) /\ Open(j) /\ interval[i].session = interval[j].session
            /\ interval[i].user = interval[j].user => i = j

EventsLead ==
    /\ place \in [Users -> Places]
    /\ queue \in [Users -> Seq(VoiceEvents)]
    /\ \A u \in Users : \A k \in DOMAIN queue[u] : queue[u][k].from # Nowhere \/ queue[u][k].to # Nowhere

Entries == [session : Nat, parts : [Users -> Nat]]

MemoryRefers ==
    /\ mem \in [Channels -> Entries]
    /\ \A c \in Channels : mem[c].session # 0 =>
          mem[c].session \in DOMAIN session /\ session[mem[c].session].channel = c
    /\ \A c \in Channels, u \in Users : mem[c].parts[u] # 0 =>
          /\ mem[c].parts[u] \in DOMAIN interval
          /\ interval[mem[c].parts[u]].session = mem[c].session
          /\ interval[mem[c].parts[u]].user = u

BootRefers ==
    /\ boot \in BootRecs
    /\ boot.pc \in {"close", "publish", "mark"} => boot.session \in DOMAIN session
    /\ boot.pc \in {"down", "up"} => ~boot.replay

ReaperRefers == reaper \in ReaperRecs /\ ReaperFits

HandlerRefers(u) ==
    LET x == handler[u] IN
    /\ x.pc # "idle" => queue[u] # <<>> /\ boot.pc = "up"
    /\ x.pc \in Blocking <=> thread = u
    /\ x.pc \in Leaving => Event(u).from # Nowhere
    /\ x.pc = "join" => Event(u).to # Nowhere
    /\ x.pc \in Leaving \ {"leave"} => x.session \in DOMAIN session
    /\ x.pc \in {"find", "part", "left", "close"} => session[x.session].channel = Event(u).from
    /\ x.pc = "part" => \E i \in DOMAIN interval : interval[i].session = x.session /\ interval[i].user = u

HandlersRefer ==
    /\ handler \in [Users -> HandlerRecs]
    /\ thread \in Users \cup {Nobody}
    /\ \A u \in Users : HandlerRefers(u)

WellFormed == RowsRefer /\ EventsLead /\ MemoryRefers /\ BootRefers /\ ReaperRefers /\ HandlersRefer

(* Rows are never taken back, nor given to another channel or user.         *)
RowsGrow ==
    /\ session' \in Seq(SessionRows) /\ interval' \in Seq(IntervalRows)
    /\ DOMAIN session \subseteq DOMAIN session' /\ DOMAIN interval \subseteq DOMAIN interval'
    /\ \A s \in DOMAIN session : session'[s].channel = session[s].channel
    /\ \A i \in DOMAIN interval : /\ interval'[i].session = interval[i].session
                                  /\ interval'[i].user = interval[i].user

(* Most steps open none, either.                                            *)
RowsClose ==
    /\ RowsGrow
    /\ DOMAIN session' = DOMAIN session /\ DOMAIN interval' = DOMAIN interval
    /\ \A s \in DOMAIN session : session'[s].active => session[s].active
    /\ \A i \in DOMAIN interval : interval'[i].active => interval[i].active

(* What one part does, it leaves the state of the others alone.             *)
HandlerStep(u) == Begin(u) \/ Handle(u) \/ Fails(u)
Moves == \E u \in Users, c \in Places : Move(u, c) \/ MoveUnseen(u, c)

LEMMA HandlerLeaves ==
    ASSUME NEW u \in Users, HandlerStep(u)
    PROVE  UNCHANGED <<place, boot, reaper>> /\ (queue' = queue \/ Complete(u))
BY DEF HandlerStep, Begin, Handle, Fails, LeaveKnown, LeaveUnknown, FindParticipant, CloseParticipant,
       AnyoneLeft, CloseSession, Publish, Mark, AlreadyPresent, CreateSession, CreateParticipant, Complete, discord

LEMMA BootLeaves ==
    ASSUME Boot \/ BootSkips
    PROVE  UNCHANGED <<discord, interval, handler, thread, reaper>>
BY DEF Boot, BootSkips, ListActive, BootClose, BootPublish, BootMark, ListUntold, Ready, Load, Replay, rows

LEMMA ReaperLeaves ==
    ASSUME Reap \/ ReapFails
    PROVE  UNCHANGED <<discord, tracker>>
BY DEF Reap, ReapFails, ReapStart, ReapCheck, ReapClose, ReapPublish, ReapMark, ReapEnd, ReapSession, ReapParticipant

LEMMA MovesLeave ==
    ASSUME Moves
    PROVE  UNCHANGED <<rows, announced, tracker>>
BY DEF Moves, Move, MoveUnseen

LEMMA StepsAre ==
    ASSUME [Next]_vars
    PROVE  \/ UNCHANGED vars
           \/ Boot \/ BootSkips \/ Crash \/ Reap \/ ReapFails \/ Moves
           \/ \E u \in Users : HandlerStep(u)
BY DEF Next, Moves, HandlerStep, Places

(* What is no write of a row closes none.                                   *)
LEMMA SameRowsClose == ASSUME RowsRefer, UNCHANGED rows PROVE RowsClose
BY DEF RowsRefer, RowsClose, RowsGrow, rows

LEMMA ToldRowsClose ==
    ASSUME RowsRefer, NEW s \in DOMAIN session, MarkTold(s), UNCHANGED interval PROVE RowsClose
BY RowIsTold DEF RowsRefer, RowsClose, RowsGrow

LEMMA ClosedRowsClose ==
    ASSUME RowsRefer, NEW s \in DOMAIN session, CloseRow(s), UNCHANGED interval PROVE RowsClose
<1>1. /\ session' \in Seq(SessionRows) /\ DOMAIN session' = DOMAIN session /\ ~session'[s].active
      /\ \A t \in DOMAIN session : /\ session'[t].channel = session[t].channel
                                   /\ t # s => session'[t] = session[t]
  BY RowCloses DEF RowsRefer
<1> QED
  BY <1>1 DEF RowsRefer, RowsClose, RowsGrow

LEMMA ClosedIntervalsClose ==
    ASSUME RowsRefer, NEW i \in DOMAIN interval, CloseInterval(i), UNCHANGED session PROVE RowsClose
<1>1. /\ interval' \in Seq(IntervalRows) /\ DOMAIN interval' = DOMAIN interval /\ ~interval'[i].active
      /\ \A j \in DOMAIN interval : /\ interval'[j].session = interval[j].session
                                    /\ interval'[j].user = interval[j].user
                                    /\ j # i => interval'[j] = interval[j]
  BY IntervalCloses DEF RowsRefer
<1> QED
  BY <1>1 DEF RowsRefer, RowsClose, RowsGrow

(* What is opened is the only one of its kind.                              *)
LEMMA ClosingKeepsRows == ASSUME RowsRefer, RowsClose PROVE RowsRefer'
BY DEF RowsRefer, RowsClose, RowsGrow, ActiveSessions, Open

(* The interval that is found is one of the user's.                         *)
LEMMA FoundIs ==
    ASSUME RowsRefer, NEW s, NEW u,
           \E i \in DOMAIN interval : interval[i].session = s /\ interval[i].user = u
    PROVE  /\ Found(s, u) \in DOMAIN interval
           /\ interval[Found(s, u)].session = s /\ interval[Found(s, u)].user = u
<1> DEFINE S == {i \in DOMAIN interval : interval[i].session = s /\ interval[i].user = u}
           F(i) == /\ interval[i].session = s /\ interval[i].user = u
                   /\ \A j \in DOMAIN interval :
                        interval[j].session = s /\ interval[j].user = u => j <= i
<1>1. DOMAIN interval = 1 .. Len(interval) /\ Len(interval) \in Nat
  BY DEF RowsRefer
<1>2. S \subseteq Int /\ S # {} /\ \A j \in S : j <= Len(interval)
  BY <1>1
<1>3. PICK m \in S : \A j \in S : j <= m
  <2> DEFINE R == {n \in Nat : \E j \in S : n = Len(interval) - j}
  <2>1. R \in SUBSET Nat /\ R # {}
    <3>1. PICK j \in S : TRUE
      BY <1>2
    <3>2. Len(interval) - j \in R
      BY <1>1, <3>1
    <3> QED
      BY <3>2
  <2>2. PICK n \in R : \A k \in R : n <= k
    BY <2>1, LeastNumber
  <2>3. PICK m \in S : n = Len(interval) - m
    BY <2>2
  <2>4. ASSUME NEW j \in S PROVE j <= m
    <3>1. Len(interval) - j \in R /\ j \in Nat /\ m \in Nat
      BY <1>1
    <3>2. n <= Len(interval) - j
      BY <2>2, <3>1
    <3> QED
      BY <1>1, <2>3, <3>1, <3>2
  <2> QED
    BY <2>4
<1>4. F(m) /\ m \in DOMAIN interval
  BY <1>3
<1> QED
  BY <1>4 DEF Found

-----------------------------------------------------------------------------
(* The handlers                                                             *)

(* A busy handler has an event.                                             *)
LEMMA EventIs ==
    ASSUME EventsLead, NEW u \in Users, queue[u] # <<>>
    PROVE  /\ Event(u) \in VoiceEvents /\ Event(u).from \in Places /\ Event(u).to \in Places
           /\ Event(u).from # Nowhere \/ Event(u).to # Nowhere
<1>1. queue[u] \in Seq(VoiceEvents) /\ 1 \in DOMAIN queue[u] /\ Event(u) = queue[u][1]
  BY DEF EventsLead, Event
<1>2. queue[u][1].from # Nowhere \/ queue[u][1].to # Nowhere
  BY <1>1 DEF EventsLead
<1>3. Event(u) \in VoiceEvents
  BY <1>1
<1> QED
  BY <1>1, <1>2, <1>3 DEF VoiceEvents

(* A handler whose own state is untouched relies on no more than before.    *)
LEMMA HandlerRests ==
    ASSUME WellFormed, RowsGrow, NEW v \in Users, handler'[v] = handler[v],
           boot'.pc = boot.pc \/ handler[v].pc = "idle",
           queue[v] # <<>> => queue'[v] # <<>> /\ Head(queue'[v]) = Head(queue[v]),
           thread' = v <=> thread = v
    PROVE  HandlerRefers(v)'
<1>1. HandlerRefers(v)
  BY DEF WellFormed, HandlersRefer
<1>2. CASE handler[v].pc = "idle"
  BY <1>1, <1>2 DEF HandlerRefers, Leaving, Blocking
<1>3. CASE handler[v].pc # "idle"
  <2>1. Event(v)' = Event(v) /\ queue'[v] # <<>> /\ boot'.pc = "up"
    BY <1>1, <1>3 DEF HandlerRefers, Event
  <2>2. handler'[v].pc = "part" =>
          \E i \in DOMAIN interval' : interval'[i].session = handler'[v].session /\ interval'[i].user = v
    BY <1>1 DEF HandlerRefers, RowsGrow
  <2> QED
    BY <1>1, <2>1, <2>2 DEF HandlerRefers, RowsGrow, Leaving
<1> QED
  BY <1>2, <1>3

(* The loop is kept, given away or not touched.                             *)
LoopGoes(u, pc) ==
    \/ pc \in Blocking /\ thread' = u /\ thread \in {u, Nobody}
    \/ pc \notin Blocking /\ thread' = Nobody /\ thread \in {u, Nobody}
    \/ pc \notin Blocking /\ thread' = thread /\ thread # u

(* A handler moves on.                                                      *)
LEMMA HandlerMoves ==
    ASSUME WellFormed, RowsGrow, NEW u \in Users, NEW x \in HandlerRecs,
           handler' = [handler EXCEPT ![u] = x], LoopGoes(u, x.pc),
           UNCHANGED <<queue, boot>>, boot.pc = "up", queue[u] # <<>>,
           x.pc \in Leaving => Event(u).from # Nowhere,
           x.pc = "join" => Event(u).to # Nowhere,
           x.pc \in Leaving \ {"leave"} => x.session \in DOMAIN session,
           x.pc \in {"find", "part", "left", "close"} => session[x.session].channel = Event(u).from,
           x.pc = "part" => \E i \in DOMAIN interval : interval[i].session = x.session /\ interval[i].user = u
    PROVE  HandlersRefer'
<1>1. handler \in [Users -> HandlerRecs] /\ thread \in Users \cup {Nobody}
  BY DEF WellFormed, HandlersRefer
<1>2. ASSUME NEW v \in Users, v # u PROVE HandlerRefers(v)'
  <2>1. handler'[v] = handler[v] /\ (thread' = v <=> thread = v)
    BY <1>1, <1>2, SessionConstants DEF LoopGoes
  <2> QED
    BY <2>1, HandlerRests
<1>3. HandlerRefers(u)'
  <2>1. handler'[u] = x /\ Event(u)' = Event(u) /\ (thread' = u <=> x.pc \in Blocking)
    BY <1>1, SessionConstants DEF LoopGoes, Event
  <2>2. handler'[u].pc = "part" =>
          \E i \in DOMAIN interval' : interval'[i].session = x.session /\ interval'[i].user = u
    BY <2>1 DEF RowsGrow
  <2> QED
    BY <2>1, <2>2 DEF HandlerRefers, RowsGrow, Leaving
<1>4. thread' \in Users \cup {Nobody} /\ handler' \in [Users -> HandlerRecs]
  BY <1>1 DEF LoopGoes
<1> QED
  BY <1>2, <1>3, <1>4 DEF HandlersRefer

(* It moves on with the loop, or gives it away.                             *)
LEMMA GotoRefers ==
    ASSUME WellFormed, RowsGrow, NEW u \in Users, NEW pc \in Blocking, NEW s \in Nat, Goto(u, pc, s),
           thread \in {u, Nobody}, UNCHANGED <<queue, boot>>, boot.pc = "up", queue[u] # <<>>,
           pc \in Leaving => Event(u).from # Nowhere,
           pc = "join" => Event(u).to # Nowhere,
           pc \in {"find", "part", "left", "close"} => s \in DOMAIN session /\ session[s].channel = Event(u).from,
           pc = "part" => \E i \in DOMAIN interval : interval[i].session = s /\ interval[i].user = u
    PROVE  HandlersRefer'
<1> DEFINE x == [pc |-> pc, session |-> s]
<1>1. handler' = [handler EXCEPT ![u] = x] /\ thread' = u
  BY DEF Goto
<1>2. x \in HandlerRecs /\ x.pc = pc /\ x.session = s
  BY DEF HandlerRecs, HandlerPCs, Blocking
<1>3. LoopGoes(u, x.pc)
  BY <1>1, <1>2 DEF LoopGoes
<1> HIDE DEF x
<1> QED
  BY <1>1, <1>2, <1>3, HandlerMoves DEF Leaving, Blocking

LEMMA YieldRefers ==
    ASSUME WellFormed, RowsGrow, NEW u \in Users, NEW pc \in {"idle", "publish", "done"}, NEW s \in Nat,
           Yield(u, pc, s), thread \in {u, Nobody}, UNCHANGED <<queue, boot>>, boot.pc = "up", queue[u] # <<>>,
           pc = "publish" => s \in DOMAIN session /\ Event(u).from # Nowhere
    PROVE  HandlersRefer'
<1> DEFINE x == [pc |-> pc, session |-> s]
<1>1. handler' = [handler EXCEPT ![u] = x] /\ thread' = Nobody
  BY DEF Yield
<1>2. x \in HandlerRecs /\ x.pc = pc /\ x.session = s
  BY DEF HandlerRecs, HandlerPCs
<1>3. LoopGoes(u, x.pc)
  BY <1>1, <1>2 DEF LoopGoes, Blocking
<1> HIDE DEF x
<1> QED
  BY <1>1, <1>2, <1>3, HandlerMoves DEF Leaving

LEMMA AfterLeaveRefers ==
    ASSUME WellFormed, RowsGrow, NEW u \in Users, AfterLeave(u), thread \in {u, Nobody},
           UNCHANGED <<queue, boot>>, boot.pc = "up", queue[u] # <<>>
    PROVE  HandlersRefer'
<1>1. CASE Event(u).to # Nowhere
  <2>1. Goto(u, "join", 0)
    BY <1>1 DEF AfterLeave
  <2>2. "join" \in Blocking /\ "join" \notin Leaving
    BY DEF Blocking, Leaving
  <2> QED
    BY <1>1, <2>1, <2>2, GotoRefers
<1>2. CASE Event(u).to = Nowhere
  <2>1. Yield(u, "done", 0)
    BY <1>2 DEF AfterLeave
  <2> QED
    BY <2>1, YieldRefers
<1> QED
  BY <1>1, <1>2

LEMMA RaiseRefers ==
    ASSUME WellFormed, RowsGrow, NEW u \in Users, Raise(u), thread \in {u, Nobody},
           UNCHANGED <<queue, boot>>, boot.pc = "up", queue[u] # <<>>
    PROVE  HandlersRefer'
BY YieldRefers DEF Raise

(* What a handler at work knows.                                            *)
LEMMA AtWork ==
    ASSUME WellFormed, NEW u \in Users, handler[u].pc # "idle"
    PROVE  /\ boot.pc = "up" /\ queue[u] # <<>> /\ handler[u] \in HandlerRecs
           /\ handler[u].pc \in Blocking <=> thread = u
           /\ handler[u].pc \in Leaving => Event(u).from \in Channels
           /\ handler[u].pc = "join" => Event(u).to \in Channels
           /\ handler[u].pc \in Leaving \ {"leave"} => handler[u].session \in DOMAIN session
           /\ handler[u].pc \in {"find", "part", "left", "close"} =>
                session[handler[u].session].channel = Event(u).from
           /\ handler[u].pc = "part" =>
                \E i \in DOMAIN interval : interval[i].session = handler[u].session /\ interval[i].user = u
<1>1. HandlerRefers(u) /\ handler[u] \in HandlerRecs
  BY DEF WellFormed, HandlersRefer
<1>2. queue[u] # <<>>
  BY <1>1 DEF HandlerRefers
<1>3. Event(u).from \in Places /\ Event(u).to \in Places
  BY <1>2, EventIs DEF WellFormed
<1> QED
  BY <1>1, <1>2, <1>3 DEF HandlerRefers, Places

LEMMA BeginRefers ==
    ASSUME WellFormed, NEW u \in Users, Begin(u)
    PROVE  RowsClose /\ mem' = mem /\ HandlersRefer'
<1>1. /\ boot.pc = "up" /\ thread = Nobody /\ handler[u].pc = "idle" /\ queue[u] # <<>>
      /\ Goto(u, IF Event(u).from \in {Nowhere, Event(u).to} THEN "join" ELSE "leave", 0)
      /\ UNCHANGED <<queue, rows, mem, boot>>
  BY DEF Begin, At, discord
<1>2. RowsClose /\ RowsGrow
  BY <1>1, SameRowsClose DEF WellFormed, RowsClose
<1>3. Event(u).from # Nowhere \/ Event(u).to # Nowhere
  BY <1>1, EventIs DEF WellFormed
<1>4. CASE Event(u).from \in {Nowhere, Event(u).to}
  BY <1>1, <1>2, <1>3, <1>4, GotoRefers DEF Blocking, Leaving
<1>5. CASE Event(u).from \notin {Nowhere, Event(u).to}
  BY <1>1, <1>2, <1>5, GotoRefers DEF Blocking, Leaving
<1> QED
  BY <1>1, <1>2, <1>4, <1>5

LEMMA LeaveUnknownRefers ==
    ASSUME WellFormed, NEW u \in Users, LeaveUnknown(u)
    PROVE  RowsClose /\ mem' = mem /\ HandlersRefer'
<1>1. handler[u].pc = "leave" /\ UNCHANGED <<queue, rows, mem, boot>>
  BY DEF LeaveUnknown, At, discord
<1>2. RowsClose /\ RowsGrow
  BY <1>1, SameRowsClose DEF WellFormed, RowsClose
<1>3. boot.pc = "up" /\ queue[u] # <<>> /\ thread = u /\ Event(u).from \in Channels
  BY <1>1, AtWork DEF Blocking, Leaving
<1>4. CASE AfterLeave(u)
  BY <1>1, <1>2, <1>3, <1>4, AfterLeaveRefers
<1>5. CASE \E s \in ActiveIn(Event(u).from) : Goto(u, "find", s)
  <2>1. PICK s \in ActiveIn(Event(u).from) : Goto(u, "find", s)
    BY <1>5
  <2>2. s \in DOMAIN session /\ s \in Nat /\ session[s].channel = Event(u).from
    BY DEF ActiveIn, ActiveSessions, WellFormed, RowsRefer
  <2> QED
    BY <1>1, <1>2, <1>3, <2>1, <2>2, SessionConstants, GotoRefers DEF Blocking, Leaving
<1> QED
  BY <1>1, <1>2, <1>4, <1>5 DEF LeaveUnknown

LEMMA FindRefers ==
    ASSUME WellFormed, NEW u \in Users, FindParticipant(u) \/ AnyoneLeft(u)
    PROVE  RowsClose /\ mem' = mem /\ HandlersRefer'
<1> DEFINE s == handler[u].session
<1>1. handler[u].pc \in {"find", "left"} /\ UNCHANGED <<queue, rows, mem, boot>>
  BY DEF FindParticipant, AnyoneLeft, At, discord
<1>2. RowsClose /\ RowsGrow
  BY <1>1, SameRowsClose DEF WellFormed, RowsClose
<1>3. /\ boot.pc = "up" /\ queue[u] # <<>> /\ thread = u /\ Event(u).from \in Channels
      /\ s \in DOMAIN session /\ session[s].channel = Event(u).from /\ s \in Nat
  BY <1>1, AtWork DEF Blocking, Leaving, HandlerRecs
<1> HIDE DEF s
<1>4. CASE AfterLeave(u)
  BY <1>1, <1>2, <1>3, <1>4, AfterLeaveRefers
<1>5. CASE Goto(u, "part", s) /\ ActiveOf(s, u) # {}
  <2>1. \E i \in DOMAIN interval : interval[i].session = s /\ interval[i].user = u
    BY <1>5 DEF ActiveOf, ActiveIntervals
  <2> QED
    BY <1>1, <1>2, <1>3, <1>5, <2>1, SessionConstants, GotoRefers DEF Blocking, Leaving
<1>6. CASE Goto(u, "close", s)
  BY <1>1, <1>2, <1>3, <1>6, SessionConstants, GotoRefers DEF Blocking, Leaving
<1> QED
  BY <1>1, <1>2, <1>4, <1>5, <1>6 DEF FindParticipant, AnyoneLeft, s

LEMMA PublishRefers ==
    ASSUME WellFormed, NEW u \in Users, Publish(u)
    PROVE  RowsClose /\ mem' = mem /\ HandlersRefer'
<1> DEFINE x == [handler[u] EXCEPT !.pc = "mark"]
<1>1. handler[u].pc = "publish" /\ handler' = [handler EXCEPT ![u].pc = "mark"] /\ UNCHANGED <<queue, rows, mem, boot, thread>>
  BY DEF Publish, At, discord
<1>2. RowsClose /\ RowsGrow
  BY <1>1, SameRowsClose DEF WellFormed, RowsClose
<1>3. /\ boot.pc = "up" /\ queue[u] # <<>> /\ thread # u /\ Event(u).from # Nowhere
      /\ handler[u].session \in DOMAIN session /\ handler[u] \in HandlerRecs
  BY <1>1, AtWork, SessionConstants DEF Blocking, Leaving
<1>4. x \in HandlerRecs /\ x.pc = "mark" /\ x.session = handler[u].session /\ handler' = [handler EXCEPT ![u] = x]
  BY <1>1, <1>3 DEF HandlerRecs, HandlerPCs, WellFormed, HandlersRefer
<1>5. LoopGoes(u, x.pc)
  BY <1>1, <1>3, <1>4 DEF LoopGoes, Blocking
<1> HIDE DEF x
<1> QED
  BY <1>1, <1>2, <1>3, <1>4, <1>5, HandlerMoves DEF Leaving

LEMMA MarkRefers ==
    ASSUME WellFormed, NEW u \in Users, Mark(u)
    PROVE  RowsClose /\ mem' = mem /\ HandlersRefer'
<1>1. /\ handler[u].pc = "mark" /\ thread = Nobody /\ MarkTold(handler[u].session) /\ AfterLeave(u)
      /\ UNCHANGED <<queue, interval, mem, boot>>
  BY DEF Mark, At, discord
<1>2. boot.pc = "up" /\ queue[u] # <<>> /\ handler[u].session \in DOMAIN session
  BY <1>1, AtWork DEF Blocking, Leaving
<1>3. RowsClose
  BY <1>1, <1>2, ToldRowsClose DEF WellFormed
<1> QED
  BY <1>1, <1>2, <1>3, AfterLeaveRefers DEF RowsClose

LEMMA PresentRefers ==
    ASSUME WellFormed, NEW u \in Users, AlreadyPresent(u) \/ Fails(u)
    PROVE  RowsClose /\ mem' = mem /\ HandlersRefer'
<1>1. /\ handler[u].pc # "idle" /\ UNCHANGED <<queue, rows, mem, boot>>
      /\ handler[u].pc = "join" \/ thread \in {u, Nobody}
      /\ \E pc \in {"idle", "done"} : Yield(u, pc, 0)
  BY DEF AlreadyPresent, Fails, At, discord, Raise
<1>2. RowsClose /\ RowsGrow
  BY <1>1, SameRowsClose DEF WellFormed, RowsClose
<1>3. boot.pc = "up" /\ queue[u] # <<>> /\ thread \in {u, Nobody}
  BY <1>1, AtWork DEF Blocking
<1> QED
  BY <1>1, <1>2, <1>3, YieldRefers

LEMMA CompleteRefers ==
    ASSUME WellFormed, NEW u \in Users, Complete(u)
    PROVE  RowsClose /\ mem' = mem /\ HandlersRefer' /\ EventsLead'
<1>1. /\ handler[u].pc = "done" /\ queue' = [queue EXCEPT ![u] = Tail(@)] /\ handler' = [handler EXCEPT ![u] = Idle]
      /\ UNCHANGED <<place, rows, mem, boot, thread>>
  BY DEF Complete, At
<1>2. RowsClose /\ RowsGrow
  BY <1>1, SameRowsClose DEF WellFormed, RowsClose
<1>3. queue[u] # <<>> /\ thread # u /\ Idle \in HandlerRecs /\ Idle.pc = "idle"
  BY <1>1, AtWork DEF Blocking, Idle, HandlerRecs, HandlerPCs
<1>4. queue \in [Users -> Seq(VoiceEvents)] /\ handler \in [Users -> HandlerRecs]
  BY DEF WellFormed, EventsLead, HandlersRefer
<1>5. EventsLead'
  <2>1. queue[u] \in Seq(VoiceEvents) /\ Len(queue[u]) \in Nat
    BY <1>4
  <2>2. Tail(queue[u]) \in Seq(VoiceEvents) /\ DOMAIN Tail(queue[u]) = 1 .. Len(queue[u]) - 1
        /\ \A k \in DOMAIN Tail(queue[u]) : k + 1 \in DOMAIN queue[u] /\ Tail(queue[u])[k] = queue[u][k + 1]
    BY <1>3, <2>1
  <2>3. queue'[u] = Tail(queue[u]) /\ \A v \in Users \ {u} : queue'[v] = queue[v]
    BY <1>1, <1>4
  <2>4. queue' \in [Users -> Seq(VoiceEvents)]
    BY <1>1, <1>4, <2>2
  <2>5. ASSUME NEW v \in Users, NEW k \in DOMAIN queue'[v]
        PROVE  queue'[v][k].from # Nowhere \/ queue'[v][k].to # Nowhere
    <3>1. \A j \in DOMAIN queue[v] : queue[v][j].from # Nowhere \/ queue[v][j].to # Nowhere
      BY DEF WellFormed, EventsLead
    <3>2. CASE v = u
      BY <2>2, <2>3, <3>1, <3>2
    <3>3. CASE v # u
      BY <2>3, <3>1, <3>3
    <3> QED
      BY <3>2, <3>3
  <2> QED
    BY <1>1, <2>4, <2>5 DEF WellFormed, EventsLead
<1>6. ASSUME NEW v \in Users PROVE HandlerRefers(v)'
  <2>1. CASE v = u
    BY <1>1, <1>3, <1>4, <2>1 DEF HandlerRefers, Leaving, Blocking
  <2>2. CASE v # u
    <3>1. handler'[v] = handler[v] /\ queue'[v] = queue[v]
      BY <1>1, <1>4, <2>2
    <3> QED
      BY <1>1, <1>2, <3>1, HandlerRests
  <2> QED
    BY <2>1, <2>2
<1> QED
  BY <1>1, <1>2, <1>3, <1>4, <1>5, <1>6 DEF HandlersRefer, WellFormed

(* The memory refers to rows as long as it is not written.                  *)
LEMMA SameMemory ==
    ASSUME WellFormed, RowsGrow, mem' = mem PROVE MemoryRefers'
BY DEF WellFormed, MemoryRefers, RowsGrow

(* What is written into the memory, by channel.                             *)
EntryRefers(entry, c) ==
    /\ entry.session # 0 => entry.session \in DOMAIN session /\ session[entry.session].channel = c
    /\ \A u \in Users : entry.parts[u] # 0 =>
          /\ entry.parts[u] \in DOMAIN interval
          /\ interval[entry.parts[u]].session = entry.session
          /\ interval[entry.parts[u]].user = u

LEMMA MemoryIs == WellFormed => mem \in [Channels -> Entries] /\ \A c \in Channels : EntryRefers(mem[c], c)
BY DEF WellFormed, MemoryRefers, EntryRefers

(* An entry goes on referring while rows grow.                              *)
LEMMA EntryStays ==
    ASSUME RowsGrow, NEW entry, NEW c, EntryRefers(entry, c), mem'[c] = entry PROVE EntryRefers(mem[c], c)'
BY DEF RowsGrow, EntryRefers

LEMMA MemoryWritten ==
    ASSUME WellFormed, RowsGrow, NEW c \in Channels, NEW m \in Entries, mem' = [mem EXCEPT ![c] = m],
           EntryRefers(mem[c], c)'
    PROVE  MemoryRefers'
<1>1. mem \in [Channels -> Entries] /\ \A d \in Channels : EntryRefers(mem[d], d)
  BY MemoryIs
<1>2. mem' \in [Channels -> Entries] /\ \A d \in Channels \ {c} : mem'[d] = mem[d]
  BY <1>1
<1>3. ASSUME NEW d \in Channels PROVE EntryRefers(mem[d], d)'
  <2>1. CASE d = c
    BY <2>1
  <2>2. CASE d # c
    BY <1>1, <1>2, <2>2, EntryStays
  <2> QED
    BY <2>1, <2>2
<1> QED
  BY <1>2, <1>3 DEF MemoryRefers, EntryRefers

LEMMA LeaveKnownRefers ==
    ASSUME WellFormed, NEW u \in Users, LeaveKnown(u)
    PROVE  RowsClose /\ MemoryRefers' /\ HandlersRefer'
<1> DEFINE c == Event(u).from
           k == mem[c].parts[u]
           rest == [mem[c].parts EXCEPT ![u] = 0]
           m == [mem[c] EXCEPT !.parts = rest]
<1>1. /\ handler[u].pc = "leave" /\ mem[c].session # 0 /\ k # 0 /\ CloseInterval(k)
      /\ UNCHANGED <<queue, session, boot>>
  BY DEF LeaveKnown, At, discord
<1>2. boot.pc = "up" /\ queue[u] # <<>> /\ thread = u /\ c \in Channels
  BY <1>1, AtWork DEF Blocking, Leaving
<1>3. /\ k \in DOMAIN interval /\ mem[c] \in Entries /\ mem[c].session \in DOMAIN session
      /\ session[mem[c].session].channel = c
  BY <1>1, <1>2 DEF WellFormed, MemoryRefers
<1>4. RowsClose /\ RowsGrow
  BY <1>1, <1>3, ClosedIntervalsClose DEF WellFormed, RowsClose
<1>5. \/ /\ mem' = [mem EXCEPT ![c].parts = rest]
         /\ AfterLeave(u) \/ Goto(u, "close", mem[c].session)
      \/ Raise(u) /\ mem' = mem
  BY DEF LeaveKnown, LoseAnswer
<1>6. m \in Entries /\ m.session = mem[c].session /\ \A v \in Users : m.parts[v] \in {0, mem[c].parts[v]}
  BY <1>3 DEF Entries
<1> HIDE DEF c, k
<1>7. MemoryRefers'
  <2>1. CASE mem' = mem
    BY <1>4, <2>1, SameMemory
  <2>2. CASE mem' = [mem EXCEPT ![c].parts = rest]
    <3>1. mem' = [mem EXCEPT ![c] = m]
      BY <2>2
    <3> HIDE DEF m, rest
    <3>2. mem'[c] = m /\ EntryRefers(mem[c], c)
      BY <3>1, <1>2, MemoryIs
    <3>3. EntryRefers(m, c)
      BY <1>6, <3>2 DEF EntryRefers
    <3> QED
      BY <1>2, <1>4, <1>6, <3>1, <3>2, <3>3, EntryStays, MemoryWritten
  <2> QED
    BY <1>5, <2>1, <2>2
<1>8. HandlersRefer'
  <2>1. CASE AfterLeave(u)
    BY <1>1, <1>2, <1>4, <2>1, AfterLeaveRefers
  <2>2. CASE Goto(u, "close", mem[c].session)
    <3>1. mem[c].session \in Nat /\ c # Nowhere /\ c = Event(u).from
      BY <1>2, <1>3, SessionConstants DEF Entries, c
    <3> QED
      BY <1>1, <1>2, <1>3, <1>4, <2>2, <3>1, GotoRefers DEF Blocking, Leaving
  <2>3. CASE Raise(u)
    BY <1>1, <1>2, <1>4, <2>3, RaiseRefers
  <2> QED
    BY <1>5, <2>1, <2>2, <2>3
<1> QED
  BY <1>4, <1>7, <1>8

LEMMA CloseParticipantRefers ==
    ASSUME WellFormed, NEW u \in Users, CloseParticipant(u)
    PROVE  RowsClose /\ mem' = mem /\ HandlersRefer'
<1> DEFINE s == handler[u].session
<1>1. /\ handler[u].pc = "part" /\ CloseInterval(Found(s, u)) /\ UNCHANGED <<queue, session, boot, mem>>
      /\ Goto(u, "left", s) \/ Raise(u)
  BY DEF CloseParticipant, LoseAnswer, At, discord
<1>2. /\ boot.pc = "up" /\ queue[u] # <<>> /\ thread = u /\ Event(u).from \in Channels
      /\ s \in DOMAIN session /\ session[s].channel = Event(u).from /\ s \in Nat
      /\ \E i \in DOMAIN interval : interval[i].session = s /\ interval[i].user = u
  BY <1>1, AtWork DEF Blocking, Leaving, HandlerRecs
<1> HIDE DEF s
<1>3. RowsClose /\ RowsGrow
  <2>1. PICK i \in DOMAIN interval : CloseInterval(i)
    BY <1>1, <1>2, FoundIs DEF WellFormed
  <2> QED
    BY <1>1, <2>1, ClosedIntervalsClose DEF WellFormed, RowsClose
<1>4. CASE Goto(u, "left", s)
  BY <1>1, <1>2, <1>3, <1>4, SessionConstants, GotoRefers DEF Blocking, Leaving
<1>5. CASE Raise(u)
  BY <1>1, <1>2, <1>3, <1>5, RaiseRefers
<1> QED
  BY <1>1, <1>3, <1>4, <1>5

LEMMA NoEntryIs == NoEntry \in Entries /\ NoEntry.session = 0 /\ \A u \in Users : NoEntry.parts[u] = 0
BY DEF NoEntry, Entries

LEMMA CloseSessionRefers ==
    ASSUME WellFormed, NEW u \in Users, CloseSession(u)
    PROVE  RowsClose /\ MemoryRefers' /\ HandlersRefer'
<1> DEFINE s == handler[u].session
           c == Event(u).from
<1>1. /\ handler[u].pc = "close" /\ CloseRow(s) /\ UNCHANGED <<queue, interval, boot>>
      /\ \/ mem' = [mem EXCEPT ![c] = NoEntry] /\ Yield(u, "publish", s)
         \/ Raise(u) /\ mem' = mem
  BY DEF CloseSession, LoseAnswer, At, discord
<1>2. /\ boot.pc = "up" /\ queue[u] # <<>> /\ thread = u /\ c \in Channels /\ c # Nowhere
      /\ s \in DOMAIN session /\ s \in Nat
  BY <1>1, AtWork, SessionConstants DEF Blocking, Leaving, HandlerRecs
<1> HIDE DEF s
<1>3. RowsClose /\ RowsGrow
  BY <1>1, <1>2, ClosedRowsClose DEF WellFormed, RowsClose
<1>4. CASE mem' = [mem EXCEPT ![c] = NoEntry] /\ Yield(u, "publish", s)
  <2>1. HandlersRefer'
    BY <1>1, <1>2, <1>3, <1>4, YieldRefers
  <2> HIDE DEF c
  <2>2. mem'[c] = NoEntry /\ EntryRefers(NoEntry, c)
    BY <1>2, <1>4, MemoryIs, NoEntryIs DEF EntryRefers
  <2>3. MemoryRefers'
    BY <1>2, <1>3, <1>4, <2>2, NoEntryIs, EntryStays, MemoryWritten
  <2> QED
    BY <1>3, <2>1, <2>3
<1>5. CASE Raise(u) /\ mem' = mem
  BY <1>1, <1>2, <1>3, <1>5, RaiseRefers, SameMemory
<1> QED
  BY <1>1, <1>4, <1>5

(* A session is opened in a channel that has none.                          *)
LEMMA CreateSessionRefers ==
    ASSUME WellFormed, NEW u \in Users, CreateSession(u)
    PROVE  RowsGrow /\ RowsRefer' /\ MemoryRefers' /\ HandlersRefer'
<1> DEFINE c == Event(u).to
           n == Len(session) + 1
           r == [channel |-> c, active |-> TRUE, told |-> FALSE]
           m == [NoEntry EXCEPT !.session = n]
<1>1. handler[u].pc = "join" /\ mem[c].session = 0 /\ UNCHANGED <<queue, interval, boot>>
  BY DEF CreateSession, At, discord
<1>2. boot.pc = "up" /\ queue[u] # <<>> /\ thread = u /\ c \in Channels /\ c # Nowhere
  BY <1>1, AtWork, SessionConstants DEF Blocking
<1>3. CASE Raise(u) /\ UNCHANGED <<session, mem>>
  <2>1. RowsClose /\ RowsGrow
    BY <1>1, <1>3, SameRowsClose DEF WellFormed, RowsClose, rows
  <2> QED
    BY <1>1, <1>2, <1>3, <2>1, RaiseRefers, SameMemory, ClosingKeepsRows DEF WellFormed
<1>4. CASE ActiveIn(c) = {} /\ session' = Append(session, r)
  <2>1. r \in SessionRows /\ r.channel = c /\ session \in Seq(SessionRows)
    BY <1>2 DEF SessionRows, WellFormed, RowsRefer
  <2>2. /\ session' \in Seq(SessionRows) /\ n \notin DOMAIN session /\ DOMAIN session' = DOMAIN session \cup {n}
        /\ session'[n] = r /\ \A s \in DOMAIN session : session'[s] = session[s]
    <3> HIDE DEF r
    <3> QED
      BY <1>4, <2>1, RowAppended
  <2>3. n \in Nat
    BY <2>1
  <2>4. RowsGrow
    BY <1>1, <2>2 DEF RowsGrow, WellFormed, RowsRefer
  <2>5. RowsRefer'
    <3>1. ASSUME NEW s \in ActiveSessions', NEW t \in ActiveSessions', session'[s].channel = session'[t].channel
          PROVE  s = t
      <4>1. \A k \in DOMAIN session : session[k].channel = c => ~session[k].active
        BY <1>4 DEF ActiveIn, ActiveSessions
      <4>2. s \in DOMAIN session' /\ session'[s].active /\ t \in DOMAIN session' /\ session'[t].active
        BY DEF ActiveSessions
      <4>3. \A k \in DOMAIN session' : k = n \/ (k \in DOMAIN session /\ session'[k] = session[k])
        BY <2>2
      <4>4. session'[n].channel = c
        BY <2>1, <2>2
      <4>5. CASE s = n
        BY <3>1, <4>1, <4>2, <4>3, <4>4, <4>5
      <4>6. CASE t = n
        BY <3>1, <4>1, <4>2, <4>3, <4>4, <4>6
      <4>7. CASE s # n /\ t # n
        BY <3>1, <4>2, <4>3, <4>7 DEF WellFormed, RowsRefer, ActiveSessions
      <4> QED
        BY <4>5, <4>6, <4>7
    <3> QED
      BY <1>1, <2>2, <3>1 DEF WellFormed, RowsRefer, Open
  <2> HIDE DEF n, r
  <2>6. CASE mem' = [mem EXCEPT ![c] = m] /\ Goto(u, "join", 0)
    <3>1. HandlersRefer'
      BY <1>1, <1>2, <2>4, <2>6, GotoRefers DEF Blocking, Leaving
    <3>2. m \in Entries /\ m.session = n /\ \A v \in Users : m.parts[v] = 0
      BY <2>3 DEF Entries, NoEntry
    <3> HIDE DEF m
    <3>3. mem'[c] = m
      BY <1>2, <2>6, MemoryIs
    <3>4. MemoryRefers'
      <4>1. n \in DOMAIN session' /\ session'[n].channel = c
        BY <2>1, <2>2
      <4>2. PICK d \in Channels : d = c
        BY <1>2
      <4> HIDE DEF c
      <4>3. EntryRefers(mem[d], d)'
        BY <3>2, <3>3, <4>1, <4>2 DEF EntryRefers
      <4>4. mem' = [mem EXCEPT ![d] = m]
        BY <2>6, <4>2
      <4> QED
        BY <2>4, <3>2, <4>3, <4>4, MemoryWritten
    <3> QED
      BY <2>4, <2>5, <3>1, <3>4
  <2>7. CASE Raise(u) /\ mem' = mem
    BY <1>1, <1>2, <2>4, <2>5, <2>7, RaiseRefers, SameMemory
  <2> QED
    BY <1>4, <2>6, <2>7 DEF CreateSession, LoseAnswer, n, r
<1> QED
  BY <1>3, <1>4 DEF CreateSession

(* An interval is opened in a session that has none of the user.            *)
LEMMA CreateParticipantRefers ==
    ASSUME WellFormed, NEW u \in Users, CreateParticipant(u)
    PROVE  RowsGrow /\ RowsRefer' /\ MemoryRefers' /\ HandlersRefer'
<1> DEFINE c == Event(u).to
           s == mem[c].session
           n == Len(interval) + 1
           r == [session |-> s, user |-> u, active |-> TRUE]
           m == [mem[c] EXCEPT !.parts = [@ EXCEPT ![u] = n]]
<1>1. handler[u].pc = "join" /\ s # 0 /\ UNCHANGED <<queue, session, boot>>
  BY DEF CreateParticipant, At, discord
<1>2. boot.pc = "up" /\ queue[u] # <<>> /\ thread = u /\ c \in Channels /\ c # Nowhere
  BY <1>1, AtWork, SessionConstants DEF Blocking
<1>3. CASE Raise(u) /\ UNCHANGED <<interval, mem>>
  <2>1. RowsClose /\ RowsGrow
    BY <1>1, <1>3, SameRowsClose DEF WellFormed, RowsClose, rows
  <2> QED
    BY <1>1, <1>2, <1>3, <2>1, RaiseRefers, SameMemory, ClosingKeepsRows DEF WellFormed
<1>4. CASE ActiveOf(s, u) = {} /\ interval' = Append(interval, r)
  <2>1. s \in DOMAIN session /\ s \in Nat /\ session[s].channel = c /\ mem[c] \in Entries
    BY <1>1, <1>2 DEF WellFormed, MemoryRefers, Entries
  <2>2. r \in IntervalRows /\ r.session = s /\ r.user = u /\ interval \in Seq(IntervalRows)
    BY <2>1 DEF IntervalRows, WellFormed, RowsRefer
  <2>3. /\ interval' \in Seq(IntervalRows) /\ n \notin DOMAIN interval /\ DOMAIN interval' = DOMAIN interval \cup {n}
        /\ interval'[n] = r /\ \A i \in DOMAIN interval : interval'[i] = interval[i]
    <3> HIDE DEF r
    <3> QED
      BY <1>4, <2>2, RowAppended
  <2>4. n \in Nat
    BY <2>2
  <2>5. RowsGrow
    BY <1>1, <2>3 DEF RowsGrow, WellFormed, RowsRefer
  <2> HIDE DEF n, r
  <2>6. RowsRefer'
    <3>1. \A k \in DOMAIN interval' : k = n \/ (k \in DOMAIN interval /\ interval'[k] = interval[k])
      BY <2>3
    <3>2. ASSUME NEW i \in DOMAIN interval', NEW j \in DOMAIN interval', Open(i)', Open(j)',
                 interval'[i].session = interval'[j].session, interval'[i].user = interval'[j].user
          PROVE  i = j
      <4>1. \A k \in DOMAIN interval : interval[k].session = s /\ interval[k].user = u => ~interval[k].active
        BY <1>4 DEF ActiveOf, ActiveIntervals
      <4>2. interval'[n].session = s /\ interval'[n].user = u
        BY <2>2, <2>3
      <4>3. CASE i = n
        BY <3>1, <3>2, <4>1, <4>2, <4>3 DEF Open
      <4>4. CASE j = n
        BY <3>1, <3>2, <4>1, <4>2, <4>4 DEF Open
      <4>5. CASE i # n /\ j # n
        BY <3>1, <3>2, <4>5 DEF WellFormed, RowsRefer, Open
      <4> QED
        BY <4>3, <4>4, <4>5
    <3>3. \A i \in DOMAIN interval' : interval'[i].session \in DOMAIN session'
      BY <1>1, <2>1, <2>2, <2>3, <3>1 DEF WellFormed, RowsRefer
    <3> QED
      BY <1>1, <2>3, <3>2, <3>3 DEF WellFormed, RowsRefer, ActiveSessions
  <2>7. CASE mem' = [mem EXCEPT ![c].parts[u] = n] /\ Yield(u, "done", 0)
    <3>1. HandlersRefer'
      BY <1>1, <1>2, <2>5, <2>7, YieldRefers
    <3>2. mem' = [mem EXCEPT ![c] = m]
      BY <2>7
    <3>3. m \in Entries /\ m.session = s /\ m.parts[u] = n /\ \A v \in Users \ {u} : m.parts[v] = mem[c].parts[v]
      BY <2>1, <2>4 DEF Entries
    <3> HIDE DEF m
    <3>4. mem' \in [Channels -> Entries] /\ mem'[c] = m /\ \A d \in Channels \ {c} : mem'[d] = mem[d]
      BY <1>2, <3>2, <3>3 DEF WellFormed, MemoryRefers
    <3>5. n \in DOMAIN interval' /\ interval'[n].session = s /\ interval'[n].user = u
      BY <2>2, <2>3
    <3>6. MemoryRefers'
      <4>1. ASSUME NEW d \in Channels, NEW v \in Users, mem'[d].parts[v] # 0
            PROVE  /\ mem'[d].parts[v] \in DOMAIN interval'
                   /\ interval'[mem'[d].parts[v]].session = mem'[d].session
                   /\ interval'[mem'[d].parts[v]].user = v
        <5>1. CASE d = c /\ v = u
          BY <3>3, <3>4, <3>5, <5>1
        <5>2. CASE d = c /\ v # u
          <6>1. mem'[d].parts[v] = mem[d].parts[v] /\ mem'[d].session = mem[d].session
            BY <3>3, <3>4, <5>2
          <6> QED
            BY <2>5, <4>1, <6>1 DEF WellFormed, MemoryRefers, RowsGrow
        <5>3. CASE d # c
          <6>1. mem'[d] = mem[d]
            BY <3>4, <5>3
          <6> QED
            BY <2>5, <4>1, <6>1 DEF WellFormed, MemoryRefers, RowsGrow
        <5> QED
          BY <5>1, <5>2, <5>3
      <4>2. \A d \in Channels : mem'[d].session = mem[d].session
        BY <3>3, <3>4
      <4> HIDE DEF c
      <4> QED
        BY <2>5, <3>4, <4>1, <4>2 DEF WellFormed, MemoryRefers, RowsGrow
    <3> QED
      BY <2>5, <2>6, <3>1, <3>6
  <2>8. CASE Raise(u) /\ mem' = mem
    BY <1>1, <1>2, <2>5, <2>6, <2>8, RaiseRefers, SameMemory
  <2> QED
    BY <1>4, <2>7, <2>8 DEF CreateParticipant, LoseAnswer, n, r
<1> QED
  BY <1>3, <1>4 DEF CreateParticipant

-----------------------------------------------------------------------------
(* Start, crashes, reaper and moves                                         *)

(* Who waits for his turn is not concerned.                                 *)
LEMMA HandlersRest ==
    ASSUME WellFormed, RowsGrow, UNCHANGED <<handler, thread>>,
           boot'.pc = boot.pc \/ boot.pc # "up",
           \A v \in Users : queue[v] # <<>> => queue'[v] # <<>> /\ Head(queue'[v]) = Head(queue[v])
    PROVE  HandlersRefer'
<1>1. \A v \in Users : boot'.pc = boot.pc \/ handler[v].pc = "idle"
  BY DEF WellFormed, HandlersRefer, HandlerRefers
<1>2. \A v \in Users : HandlerRefers(v)'
  BY <1>1, HandlerRests
<1> QED
  BY <1>2 DEF WellFormed, HandlersRefer

LEMMA LoadRefers ==
    ASSUME WellFormed, NEW s \in DOMAIN session, Load(s)
    PROVE  /\ boot.pc = "each" /\ ~boot.replay /\ s \in boot.todo /\ UNCHANGED rows
           /\ BootRefers' /\ MemoryRefers'
           /\ boot'.todo = boot.todo \ {s} /\ ~boot'.replay /\ boot'.pc \in {"each", "close"}
           /\ boot'.pc = "close" => boot'.session = s /\ mem' = mem
           /\ boot'.pc = "each" =>
                /\ mem'[session[s].channel].session = s
                /\ \A u \in Users : mem'[session[s].channel].parts[u] =
                      IF ActiveOf(s, u) = {} THEN 0 ELSE CHOOSE i \in ActiveOf(s, u) : TRUE
                /\ \A d \in Channels \ {session[s].channel} : mem'[d] = mem[d]
<1>0. s \in Nat /\ session[s] \in SessionRows
  BY DEF WellFormed, RowsRefer
<1>1. /\ boot.pc = "each" /\ ~boot.replay /\ s \in boot.todo /\ UNCHANGED rows /\ boot \in BootRecs
      /\ s \in Nat /\ session[s].channel \in Channels
  BY <1>0 DEF Load, WellFormed, BootRefers, SessionRows
<1>2. RowsGrow
  BY <1>1, SameRowsClose DEF WellFormed, RowsClose
<1>3. BootRecs' = BootRecs
  BY <1>1 DEF BootRecs, rows
<1>4. CASE ActiveIntervals(s) = {}
  <2>1. boot' = [boot EXCEPT !.pc = "close", !.session = s, !.todo = @ \ {s}] /\ mem' = mem
    BY <1>4 DEF Load
  <2>2. boot' \in BootRecs /\ boot'.pc = "close" /\ boot'.session = s /\ boot'.todo = boot.todo \ {s} /\ ~boot'.replay
    BY <1>1, <2>1 DEF BootRecs, BootPCs
  <2> QED
    BY <1>1, <1>2, <1>3, <2>1, <2>2, SameMemory DEF BootRefers, rows
<1>5. CASE ActiveIntervals(s) # {}
  <2> DEFINE parts == [u \in Users |-> IF ActiveOf(s, u) = {} THEN 0 ELSE CHOOSE i \in ActiveOf(s, u) : TRUE]
             m == [session |-> s, parts |-> parts]
             c == session[s].channel
  <2>1. boot' = [boot EXCEPT !.todo = @ \ {s}] /\ mem' = [mem EXCEPT ![c] = m]
    BY <1>5 DEF Load
  <2>2. boot' \in BootRecs /\ boot'.pc = "each" /\ boot'.todo = boot.todo \ {s} /\ ~boot'.replay
    BY <1>1, <2>1 DEF BootRecs
  <2>3. BootRefers'
    BY <1>3, <2>2 DEF BootRefers
  <2>4. ASSUME NEW u \in Users
        PROVE  /\ parts[u] \in Nat
               /\ parts[u] # 0 => parts[u] \in DOMAIN interval /\ interval[parts[u]].session = s
                                  /\ interval[parts[u]].user = u
               /\ parts[u] = IF ActiveOf(s, u) = {} THEN 0 ELSE CHOOSE i \in ActiveOf(s, u) : TRUE
    <3>1. ActiveOf(s, u) # {} => parts[u] \in ActiveOf(s, u)
      OBVIOUS
    <3>2. \A i \in ActiveOf(s, u) : i \in Nat /\ i \in DOMAIN interval /\ interval[i].session = s /\ interval[i].user = u
      BY DEF ActiveOf, ActiveIntervals, WellFormed, RowsRefer
    <3> QED
      BY <3>1, <3>2
  <2>5. parts \in [Users -> Nat]
    BY <2>4
  <2> HIDE DEF parts
  <2>6. m \in Entries /\ m.session = s /\ m.parts = parts
    BY <1>1, <2>5 DEF Entries
  <2> HIDE DEF m
  <2>7. mem' \in [Channels -> Entries] /\ mem'[c] = m /\ \A d \in Channels \ {c} : mem'[d] = mem[d]
    BY <1>1, <2>1, <2>6 DEF WellFormed, MemoryRefers
  <2>8. MemoryRefers'
    <3>1. ASSUME NEW d \in Channels
          PROVE  /\ mem'[d].session # 0 => mem'[d].session \in DOMAIN session' /\ session'[mem'[d].session].channel = d
                 /\ \A u \in Users : mem'[d].parts[u] # 0 =>
                       /\ mem'[d].parts[u] \in DOMAIN interval'
                       /\ interval'[mem'[d].parts[u]].session = mem'[d].session
                       /\ interval'[mem'[d].parts[u]].user = u
      <4>1. CASE d = c
        BY <1>1, <2>4, <2>6, <2>7, <4>1 DEF rows
      <4>2. CASE d # c
        BY <1>1, <2>7, <4>2 DEF rows, WellFormed, MemoryRefers
      <4> QED
        BY <4>1, <4>2
    <3> QED
      BY <2>7, <3>1 DEF MemoryRefers
  <2> QED
    BY <1>1, <2>2, <2>3, <2>4, <2>6, <2>7, <2>8
<1> QED
  BY <1>4, <1>5

(* The other steps of a start, exceptions included.                         *)
LEMMA StartRefers ==
    ASSUME WellFormed,
           \/ ListActive \/ BootClose \/ BootPublish \/ BootMark \/ ListUntold \/ Ready \/ BootSkips
           \/ \E s \in DOMAIN session : Replay(s)
    PROVE  RowsClose /\ BootRefers' /\ mem' = mem
<1>0. boot \in BootRecs /\ RowsRefer /\ mem' = mem
  BY DEF WellFormed, BootRefers, ListActive, BootClose, BootPublish, BootMark, ListUntold, Ready, BootSkips, Replay
<1>1. CASE ListActive
  <2>1. boot' = [boot EXCEPT !.pc = "each", !.todo = ActiveSessions] /\ UNCHANGED rows
    BY <1>1 DEF ListActive
  <2>2. boot' \in BootRecs /\ boot'.pc = "each"
    BY <1>0, <2>1 DEF BootRecs, BootPCs, ActiveSessions
  <2> QED
    BY <1>0, <2>1, <2>2, SameRowsClose DEF BootRefers, BootRecs, rows
<1>2. CASE BootClose
  <2>1. boot.pc = "close" /\ boot' = [boot EXCEPT !.pc = "publish"] /\ CloseRow(boot.session) /\ interval' = interval
    BY <1>2 DEF BootClose
  <2>2. boot' \in BootRecs /\ boot'.pc = "publish" /\ boot'.session = boot.session /\ boot.session \in DOMAIN session
    BY <1>0, <2>1 DEF BootRecs, BootPCs, WellFormed, BootRefers
  <2>3. RowsClose
    BY <1>0, <2>1, <2>2, ClosedRowsClose
  <2> QED
    BY <1>0, <2>2, <2>3 DEF BootRefers, BootRecs, RowsClose
<1>3. CASE BootPublish
  <2>1. boot.pc = "publish" /\ boot' = [boot EXCEPT !.pc = "mark"] /\ UNCHANGED rows
    BY <1>3 DEF BootPublish
  <2>2. boot' \in BootRecs /\ boot'.pc = "mark" /\ boot'.session = boot.session /\ boot.session \in DOMAIN session
    BY <1>0, <2>1 DEF BootRecs, BootPCs, WellFormed, BootRefers
  <2> QED
    BY <1>0, <2>1, <2>2, SameRowsClose DEF BootRefers, BootRecs, rows
<1>4. CASE BootMark
  <2>1. boot.pc = "mark" /\ boot' = [boot EXCEPT !.pc = "each"] /\ MarkTold(boot.session) /\ interval' = interval
    BY <1>4 DEF BootMark
  <2>2. boot' \in BootRecs /\ boot'.pc = "each" /\ boot.session \in DOMAIN session
    BY <1>0, <2>1 DEF BootRecs, BootPCs, WellFormed, BootRefers
  <2>3. RowsClose
    BY <1>0, <2>1, <2>2, ToldRowsClose
  <2> QED
    BY <1>0, <2>2, <2>3 DEF BootRefers, BootRecs, RowsClose
<1>5. CASE ListUntold
  <2> DEFINE T == {s \in DOMAIN session : ~session[s].active /\ ~session[s].told}
  <2>1. boot.pc = "each" /\ boot' = [boot EXCEPT !.replay = TRUE, !.todo = T] /\ UNCHANGED rows
    BY <1>5 DEF ListUntold
  <2>2. T \subseteq DOMAIN session
    OBVIOUS
  <2> HIDE DEF T
  <2>3. boot' \in BootRecs /\ boot'.pc = "each"
    BY <1>0, <2>1, <2>2 DEF BootRecs
  <2> QED
    BY <1>0, <2>1, <2>3, SameRowsClose DEF BootRefers, BootRecs, rows
<1>6. CASE Ready
  <2>1. boot' = [Down EXCEPT !.pc = "up"] /\ UNCHANGED rows
    BY <1>6 DEF Ready
  <2>2. boot' \in BootRecs /\ boot'.pc = "up" /\ ~boot'.replay
    BY <2>1 DEF BootRecs, BootPCs, Down
  <2> QED
    BY <1>0, <2>1, <2>2, SameRowsClose DEF BootRefers, BootRecs, rows
<1>7. CASE BootSkips
  <2>1. UNCHANGED rows
    BY <1>7 DEF BootSkips
  <2>2. boot' \in BootRecs /\ boot'.pc = "each"
    <3>1. CASE boot.pc = "each"
      <4>1. PICK s \in boot.todo : boot' = [boot EXCEPT !.todo = @ \ {s}]
        BY <1>7, <3>1 DEF BootSkips
      <4> QED
        BY <1>0, <3>1, <4>1 DEF BootRecs
    <3>2. CASE boot.pc # "each"
      BY <1>0, <1>7, <3>2 DEF BootSkips, BootRecs, BootPCs
    <3> QED
      BY <3>1, <3>2
  <2> QED
    BY <1>0, <2>1, <2>2, SameRowsClose DEF BootRefers, BootRecs, rows
<1>8. ASSUME NEW s \in DOMAIN session, Replay(s) PROVE RowsClose /\ BootRefers'
  <2>1. boot' = [boot EXCEPT !.pc = "publish", !.session = s, !.todo = @ \ {s}] /\ UNCHANGED rows
    BY <1>8 DEF Replay
  <2>0. s \in Nat
    BY <1>0 DEF RowsRefer
  <2>2. boot' \in BootRecs /\ boot'.pc = "publish" /\ boot'.session = s
    BY <1>0, <2>0, <2>1 DEF BootRecs, BootPCs
  <2> QED
    BY <1>0, <2>1, <2>2, SameRowsClose DEF BootRefers, BootRecs, rows
<1> QED
  BY <1>0, <1>1, <1>2, <1>3, <1>4, <1>5, <1>6, <1>7, <1>8

LEMMA CrashRefers ==
    ASSUME WellFormed, Crash
    PROVE  RowsClose /\ BootRefers' /\ MemoryRefers' /\ HandlersRefer'
<1>1. /\ boot' = Down /\ mem' = [c \in Channels |-> NoEntry]
      /\ handler' = [u \in Users |-> Idle] /\ thread' = Nobody /\ UNCHANGED <<discord, rows, reaper>>
  BY DEF Crash
<1>2. RowsClose
  BY <1>1, SameRowsClose DEF WellFormed
<1>3. BootRefers'
  BY <1>1 DEF BootRefers, BootRecs, BootPCs, Down
<1>4. MemoryRefers'
  BY <1>1, NoEntryIs DEF MemoryRefers
<1>5. HandlersRefer'
  <2>1. Idle \in HandlerRecs /\ Idle.pc = "idle"
    BY DEF Idle, HandlerRecs, HandlerPCs
  <2>2. \A u \in Users : handler'[u] = Idle /\ thread' # u
    BY <1>1, SessionConstants
  <2>3. \A u \in Users : HandlerRefers(u)'
    BY <2>1, <2>2 DEF HandlerRefers, Leaving, Blocking
  <2> QED
    BY <1>1, <2>1, <2>3 DEF HandlersRefer
<1> QED
  BY <1>2, <1>3, <1>4, <1>5

LEMMA RestingIs == Resting \in ReaperRecs /\ Resting.pc = "idle"
BY DEF Resting, ReaperRecs, ReaperPCs, Places

LEMMA ReaperRefersOn ==
    ASSUME WellFormed, Reap \/ ReapFails
    PROVE  RowsClose /\ ReaperRefers'
<1>0. reaper \in ReaperRecs /\ RowsRefer /\ ReaperFits /\ place \in [Users -> Places]
  BY DEF WellFormed, ReaperRefers, EventsLead
<1> DEFINE Goes == \/ reaper'.pc \in {"idle", "each"}
                   \/ reaper'.session \in DOMAIN session
(* A step that writes no row but what is told.                              *)
<1>1. ASSUME RowsClose, reaper' \in ReaperRecs, Goes PROVE RowsClose /\ ReaperRefers'
  BY <1>1 DEF ReaperRefers, ReaperFits, ReaperRecs, RowsClose, RowsGrow
<1>2. CASE ReapStart
  <2>1. reaper' = [Resting EXCEPT !.pc = "each", !.live = place, !.todo = ActiveSessions] /\ UNCHANGED rows
    BY <1>2 DEF ReapStart
  <2>2. reaper' \in ReaperRecs /\ reaper'.pc = "each"
    BY <1>0, <2>1, RestingIs DEF ReaperRecs, ReaperPCs, ActiveSessions
  <2> QED
    BY <1>0, <1>1, <2>1, <2>2, SameRowsClose
<1>3. ASSUME NEW s \in DOMAIN session, ReapSession(s) PROVE RowsClose /\ ReaperRefers'
  <2> DEFINE S == {i \in ActiveIntervals(s) : reaper.live[interval[i].user] # session[s].channel}
  <2>1. reaper' = [reaper EXCEPT !.pc = "part", !.session = s, !.todo = @ \ {s}, !.absent = S] /\ UNCHANGED rows
    BY <1>3 DEF ReapSession
  <2>2. S \subseteq DOMAIN interval /\ s \in Nat
    BY <1>0 DEF ActiveIntervals, RowsRefer
  <2> HIDE DEF S
  <2>3. reaper' \in ReaperRecs /\ reaper'.session = s
    BY <1>0, <2>1, <2>2 DEF ReaperRecs, ReaperPCs
  <2> QED
    BY <1>0, <1>1, <2>1, <2>3, SameRowsClose
<1>4. ASSUME NEW i \in DOMAIN interval, ReapParticipant(i) PROVE RowsClose /\ ReaperRefers'
  <2>1. /\ reaper.pc = "part" /\ CloseInterval(i) /\ session' = session
        /\ reaper' = [reaper EXCEPT !.absent = @ \ {i}]
    BY <1>4 DEF ReapParticipant
  <2>2. reaper' \in ReaperRecs /\ reaper'.session = reaper.session /\ reaper.session \in DOMAIN session
    BY <1>0, <2>1 DEF ReaperRecs, ReaperFits
  <2>3. RowsClose
    BY <1>0, <2>1, ClosedIntervalsClose
  <2> QED
    BY <1>1, <2>2, <2>3
<1>5. CASE ReapCheck
  <2>1. /\ reaper.pc = "part" /\ UNCHANGED rows
        /\ \E pc \in {"each", "close"} : reaper' = [reaper EXCEPT !.pc = pc]
    BY <1>5 DEF ReapCheck
  <2>2. reaper' \in ReaperRecs /\ reaper'.session = reaper.session /\ reaper.session \in DOMAIN session
    BY <1>0, <2>1 DEF ReaperRecs, ReaperPCs, ReaperFits
  <2> QED
    BY <1>0, <1>1, <2>1, <2>2, SameRowsClose
<1>6. CASE ReapClose
  <2>1. reaper.pc = "close" /\ CloseRow(reaper.session) /\ reaper' = [reaper EXCEPT !.pc = "publish"] /\ interval' = interval
    BY <1>6 DEF ReapClose
  <2>2. reaper' \in ReaperRecs /\ reaper'.session = reaper.session /\ reaper.session \in DOMAIN session
    BY <1>0, <2>1 DEF ReaperRecs, ReaperPCs, ReaperFits
  <2>3. RowsClose
    BY <1>0, <2>1, <2>2, ClosedRowsClose
  <2> QED
    BY <1>1, <2>2, <2>3
<1>7. CASE ReapPublish
  <2>1. reaper.pc = "publish" /\ reaper' = [reaper EXCEPT !.pc = "mark"] /\ UNCHANGED rows
    BY <1>7 DEF ReapPublish
  <2>2. reaper' \in ReaperRecs /\ reaper'.session = reaper.session /\ reaper.session \in DOMAIN session
    BY <1>0, <2>1 DEF ReaperRecs, ReaperPCs, ReaperFits
  <2> QED
    BY <1>0, <1>1, <2>1, <2>2, SameRowsClose
<1>8. CASE ReapMark
  <2>1. reaper.pc = "mark" /\ MarkTold(reaper.session) /\ reaper' = [reaper EXCEPT !.pc = "each"] /\ interval' = interval
    BY <1>8 DEF ReapMark
  <2>2. reaper' \in ReaperRecs /\ reaper'.pc = "each" /\ reaper.session \in DOMAIN session
    BY <1>0, <2>1 DEF ReaperRecs, ReaperPCs, ReaperFits
  <2>3. RowsClose
    BY <1>0, <2>1, <2>2, ToldRowsClose
  <2> QED
    BY <1>1, <2>2, <2>3
<1>9. CASE ReapEnd
  BY <1>0, <1>1, <1>9, RestingIs, SameRowsClose DEF ReapEnd
<1>10. CASE ReapFails
  <2>1. UNCHANGED rows /\ (reaper' = Resting \/ reaper' = [reaper EXCEPT !.pc = "each"])
    BY <1>10 DEF ReapFails
  <2>2. reaper' \in ReaperRecs /\ reaper'.pc \in {"idle", "each"}
    BY <1>0, <2>1, RestingIs DEF ReaperRecs, ReaperPCs
  <2> QED
    BY <1>0, <1>1, <2>1, <2>2, SameRowsClose
<1> QED
  BY <1>2, <1>3, <1>4, <1>5, <1>6, <1>7, <1>8, <1>9, <1>10 DEF Reap

LEMMA MovesRefer ==
    ASSUME WellFormed, Moves
    PROVE  /\ EventsLead' /\ reaper' \in {reaper, Resting}
           /\ \A v \in Users : queue[v] # <<>> => queue'[v] # <<>> /\ Head(queue'[v]) = Head(queue[v])
<1>1. PICK u \in Users, c \in Places : Move(u, c) \/ MoveUnseen(u, c)
  BY DEF Moves
<1>2. place \in [Users -> Places] /\ queue \in [Users -> Seq(VoiceEvents)]
  BY DEF WellFormed, EventsLead
<1>3. place' \in [Users -> Places]
  BY <1>1, <1>2 DEF Move, MoveUnseen
<1>4. CASE queue' = queue /\ reaper' \in {reaper, Resting}
  BY <1>3, <1>4 DEF WellFormed, EventsLead
<1>5. CASE Move(u, c)
  <2> DEFINE e == [from |-> place[u], to |-> c]
  <2>1. /\ c # Nowhere \/ place[u] # Nowhere
        /\ queue' = [queue EXCEPT ![u] = Append(@, e)] /\ reaper' = reaper
    BY <1>5 DEF Move
  <2>2. e \in VoiceEvents /\ (e.from # Nowhere \/ e.to # Nowhere)
    BY <1>2, <2>1 DEF VoiceEvents
  <2> HIDE DEF e
  <2>3. queue[u] \in Seq(VoiceEvents)
    BY <1>2
  <2>4. /\ Append(queue[u], e) \in Seq(VoiceEvents) /\ Append(queue[u], e) # <<>>
        /\ DOMAIN Append(queue[u], e) = DOMAIN queue[u] \cup {Len(queue[u]) + 1}
        /\ Append(queue[u], e)[Len(queue[u]) + 1] = e
        /\ \A k \in DOMAIN queue[u] : Append(queue[u], e)[k] = queue[u][k]
    BY <2>2, <2>3, RowAppended
  <2>5. queue[u] # <<>> => Head(Append(queue[u], e)) = Head(queue[u])
    BY <2>2, <2>3
  <2>6. /\ queue' \in [Users -> Seq(VoiceEvents)] /\ queue'[u] = Append(queue[u], e)
        /\ \A v \in Users \ {u} : queue'[v] = queue[v]
    BY <1>2, <2>1, <2>4
  <2>7. ASSUME NEW v \in Users, NEW k \in DOMAIN queue'[v]
        PROVE  queue'[v][k].from # Nowhere \/ queue'[v][k].to # Nowhere
    <3>1. \A j \in DOMAIN queue[v] : queue[v][j].from # Nowhere \/ queue[v][j].to # Nowhere
      BY DEF WellFormed, EventsLead
    <3> QED
      BY <2>2, <2>4, <2>6, <3>1
  <2> QED
    BY <1>3, <2>1, <2>4, <2>5, <2>6, <2>7 DEF EventsLead
<1> QED
  BY <1>1, <1>4, <1>5 DEF MoveUnseen

(* Every step keeps the references, and grows the rows.                     *)
LEMMA StepKeepsForm ==
    ASSUME WellFormed, [Next]_vars
    PROVE  WellFormed' /\ RowsGrow
<1> USE DEF WellFormed
<1>1. ASSUME RowsGrow, boot' = boot PROVE BootRefers'
  BY <1>1 DEF BootRefers, BootRecs, RowsGrow
<1>2. ASSUME RowsGrow, reaper' = reaper PROVE ReaperRefers'
  BY <1>2 DEF ReaperRefers, ReaperFits, ReaperRecs, RowsGrow
<1>3. ASSUME UNCHANGED <<place, queue>> PROVE EventsLead'
  BY <1>3 DEF EventsLead
<1>4. CASE UNCHANGED vars
  <2>1. RowsClose /\ RowsGrow
    BY <1>4, SameRowsClose DEF vars, rows, RowsClose
  <2> QED
    BY <1>1, <1>2, <1>3, <1>4, <2>1, ClosingKeepsRows, SameMemory, HandlersRest DEF vars
<1>5. CASE Boot \/ BootSkips
  <2>1. UNCHANGED <<discord, interval, handler, thread, reaper>>
    BY <1>5, BootLeaves
  <2>2. RowsClose /\ BootRefers' /\ MemoryRefers'
    <3>1. ASSUME NEW s \in DOMAIN session, Load(s) PROVE RowsClose /\ BootRefers' /\ MemoryRefers'
      BY <3>1, LoadRefers, SameRowsClose
    <3>2. ASSUME RowsClose, mem' = mem PROVE MemoryRefers'
      BY <3>2, SameMemory DEF RowsClose
    <3> QED
      BY <1>5, <3>1, <3>2, StartRefers DEF Boot
  <2>3. boot.pc # "up"
    BY <1>5 DEF Boot, BootSkips, ListActive, BootClose, BootPublish, BootMark, ListUntold, Ready, Load, Replay
  <2> QED
    BY <1>2, <1>3, <2>1, <2>2, <2>3, ClosingKeepsRows, HandlersRest DEF RowsClose, discord
<1>6. CASE Crash
  BY <1>2, <1>3, <1>6, CrashRefers, ClosingKeepsRows DEF RowsClose, discord, Crash
<1>7. CASE Reap \/ ReapFails
  BY <1>1, <1>3, <1>7, ReaperLeaves, ReaperRefersOn, ClosingKeepsRows, SameMemory, HandlersRest
     DEF RowsClose, discord, tracker
<1>8. CASE Moves
  <2>1. UNCHANGED <<rows, announced, tracker>>
    BY <1>8, MovesLeave
  <2>2. RowsClose /\ RowsGrow
    BY <2>1, SameRowsClose DEF RowsClose
  <2>3. ReaperRefers'
    BY <1>2, <1>8, <2>2, MovesRefer, RestingIs DEF ReaperRefers, ReaperFits, ReaperRecs, RowsClose
  <2> QED
    BY <1>1, <1>8, <2>1, <2>2, <2>3, ClosingKeepsRows, SameMemory, HandlersRest, MovesRefer DEF tracker
<1>9. ASSUME NEW u \in Users, HandlerStep(u) PROVE WellFormed' /\ RowsGrow
  <2>1. UNCHANGED <<place, boot, reaper>> /\ (queue' = queue \/ Complete(u))
    BY <1>9, HandlerLeaves
  <2>2. RowsGrow /\ RowsRefer' /\ MemoryRefers' /\ HandlersRefer'
    <3>1. ASSUME RowsClose, mem' = mem, HandlersRefer'
          PROVE  RowsGrow /\ RowsRefer' /\ MemoryRefers' /\ HandlersRefer'
      BY <3>1, ClosingKeepsRows, SameMemory DEF RowsClose
    <3>2. ASSUME RowsClose, MemoryRefers', HandlersRefer'
          PROVE  RowsGrow /\ RowsRefer' /\ MemoryRefers' /\ HandlersRefer'
      BY <3>2, ClosingKeepsRows DEF RowsClose
    <3> QED
      BY <1>9, <3>1, <3>2, BeginRefers, LeaveUnknownRefers, FindRefers, PublishRefers, MarkRefers, PresentRefers,
         CompleteRefers, LeaveKnownRefers, CloseParticipantRefers, CloseSessionRefers, CreateSessionRefers,
         CreateParticipantRefers DEF HandlerStep, Handle
  <2>3. EventsLead'
    BY <1>3, <2>1, CompleteRefers
  <2> QED
    BY <1>1, <1>2, <2>1, <2>2, <2>3
<1> QED
  BY <1>4, <1>5, <1>6, <1>7, <1>8, <1>9, StepsAre

LEMMA FormBegins == Init => WellFormed
<1> SUFFICES ASSUME Init PROVE WellFormed
  OBVIOUS
<1>1. RowsRefer
  BY DEF Init, RowsRefer, ActiveSessions
<1>2. EventsLead
  BY DEF Init, EventsLead, Places
<1>3. MemoryRefers
  BY NoEntryIs DEF Init, MemoryRefers
<1>4. BootRefers
  BY DEF Init, BootRefers, BootRecs, BootPCs, Down
<1>5. ReaperRefers
  BY RestingIs DEF Init, ReaperRefers, ReaperFits
<1>6. HandlersRefer
  <2>1. Idle \in HandlerRecs /\ Idle.pc = "idle"
    BY DEF Idle, HandlerRecs, HandlerPCs
  <2>2. \A u \in Users : handler[u] = Idle /\ thread # u
    BY SessionConstants DEF Init
  <2>3. \A u \in Users : HandlerRefers(u)
    BY <2>1, <2>2 DEF HandlerRefers, Leaving, Blocking
  <2> QED
    BY <2>1, <2>3 DEF Init, HandlersRefer
<1> QED
  BY <1>1, <1>2, <1>3, <1>4, <1>5, <1>6 DEF WellFormed

LEMMA FormStands == Spec => []WellFormed
BY FormBegins, StepKeepsForm, PTL DEF Spec

-----------------------------------------------------------------------------
(* The announcements of closed sessions                                     *)

(* What is marked as announced is announced, and so is what is about to be  *)
(* marked.                                                                  *)
AnnouncedFits ==
    /\ announced \subseteq DOMAIN session
    /\ \A s \in DOMAIN session : session[s].told => s \in announced
    /\ \A u \in Users : handler[u].pc = "mark" => handler[u].session \in announced
    /\ boot.pc = "mark" => boot.session \in announced
    /\ reaper.pc = "mark" => reaper.session \in announced

(* A replay comes to every session that was closed and is not announced, as *)
(* long as nothing is skipped; what the reaper closes it announces.         *)
ReplayFits ==
    /\ boot.replay => boot.pc \in {"each", "publish", "mark"}
    /\ boot.replay /\ spoilt \cap {"skip", "reaper", "unseen"} = {} =>
          \A s \in DOMAIN session :
             \/ session[s].active \/ s \in announced \/ s \in boot.todo
             \/ boot.pc = "publish" /\ s = boot.session
             \/ reaper.pc = "publish" /\ s = reaper.session

NoneTold ==
    /\ DOMAIN session \subseteq DOMAIN session'
    /\ \A s \in DOMAIN session' : session'[s].told => s \in DOMAIN session /\ session[s].told

LEMMA ClosingTellsNone ==
    ASSUME RowsRefer, NEW s \in DOMAIN session, CloseRow(s) PROVE NoneTold
<1> DEFINE r == [session[s] EXCEPT !.active = FALSE]
<1>1. session[s] \in SessionRows /\ session \in Seq(SessionRows)
  BY DEF RowsRefer
<1>2. r \in SessionRows /\ r.told = session[s].told
  BY <1>1 DEF SessionRows
<1>3. session' = [session EXCEPT ![s] = r]
  BY DEF CloseRow
<1> HIDE DEF r
<1> QED
  BY <1>1, <1>2, <1>3, RowReplaced DEF NoneTold

LEMMA MarkTellsOne ==
    ASSUME RowsRefer, NEW s \in DOMAIN session, MarkTold(s)
    PROVE  /\ DOMAIN session' = DOMAIN session
           /\ \A t \in DOMAIN session : session'[t].told => t = s \/ session[t].told
<1> DEFINE r == [session[s] EXCEPT !.told = TRUE]
<1>1. session[s] \in SessionRows /\ session \in Seq(SessionRows)
  BY DEF RowsRefer
<1>2. r \in SessionRows
  BY <1>1 DEF SessionRows
<1>3. session' = [session EXCEPT ![s] = r]
  BY DEF MarkTold
<1> HIDE DEF r
<1> QED
  BY <1>1, <1>2, <1>3, RowReplaced

(* Only a publish leads to a mark.                                          *)
LEMMA OnlyPublishLeadsToMark ==
    ASSUME NEW u \in Users, HandlerStep(u), ~Publish(u)
    PROVE  \E x : x.pc # "mark" /\ handler' = [handler EXCEPT ![u] = x]
<1>1. ASSUME NEW pc, NEW s, pc # "mark", Goto(u, pc, s) \/ Yield(u, pc, s)
      PROVE  \E x : x.pc # "mark" /\ handler' = [handler EXCEPT ![u] = x]
  BY <1>1 DEF Goto, Yield
<1>2. ASSUME AfterLeave(u) PROVE \E x : x.pc # "mark" /\ handler' = [handler EXCEPT ![u] = x]
  BY <1>1, <1>2 DEF AfterLeave
<1>3. ASSUME Raise(u) PROVE \E x : x.pc # "mark" /\ handler' = [handler EXCEPT ![u] = x]
  BY <1>1, <1>3 DEF Raise
<1>4. CASE Begin(u)
  BY <1>1, <1>4 DEF Begin
<1>5. CASE Complete(u)
  BY <1>5 DEF Complete, Idle
<1>6. CASE LeaveKnown(u)
  BY <1>1, <1>2, <1>3, <1>6 DEF LeaveKnown, LoseAnswer
<1>7. CASE LeaveUnknown(u) \/ FindParticipant(u) \/ AnyoneLeft(u)
  BY <1>1, <1>2, <1>7 DEF LeaveUnknown, FindParticipant, AnyoneLeft
<1>8. CASE CloseParticipant(u) \/ CloseSession(u)
  BY <1>1, <1>3, <1>8 DEF CloseParticipant, CloseSession, LoseAnswer
<1>9. CASE Mark(u)
  BY <1>2, <1>9 DEF Mark
<1>10. CASE AlreadyPresent(u) \/ Fails(u)
  BY <1>1, <1>3, <1>10 DEF AlreadyPresent, Fails
<1>11. CASE CreateSession(u) \/ CreateParticipant(u)
  BY <1>1, <1>3, <1>11 DEF CreateSession, CreateParticipant, LoseAnswer
<1> QED
  BY <1>4, <1>5, <1>6, <1>7, <1>8, <1>9, <1>10, <1>11 DEF HandlerStep, Handle

(* A handler announces the session it closed, and marks what it announced.  *)
LEMMA HandlerAnnounces ==
    ASSUME WellFormed, AnnouncedFits, NEW u \in Users, HandlerStep(u)
    PROVE  AnnouncedFits' /\ announced \subseteq announced'
<1>1. UNCHANGED <<boot, reaper>> /\ handler \in [Users -> HandlerRecs] /\ RowsRefer
  BY HandlerLeaves DEF WellFormed, HandlersRefer
<1>2. CASE Publish(u)
  <2>1. /\ handler[u].pc = "publish" /\ announced' = announced \cup {handler[u].session}
        /\ handler' = [handler EXCEPT ![u].pc = "mark"] /\ UNCHANGED session
    BY <1>2 DEF Publish, At, rows
  <2>2. handler[u].session \in DOMAIN session
    BY <2>1, AtWork DEF Leaving
  <2>3. /\ handler'[u].session = handler[u].session
        /\ \A v \in Users \ {u} : handler'[v] = handler[v]
    BY <1>1, <2>1 DEF HandlerRecs
  <2> QED
    BY <1>1, <2>1, <2>2, <2>3 DEF AnnouncedFits
<1>3. CASE ~Publish(u)
  <2>1. PICK x : x.pc # "mark" /\ handler' = [handler EXCEPT ![u] = x]
    BY <1>3, OnlyPublishLeadsToMark
  <2>2. \A v \in Users : handler'[v].pc = "mark" => handler[v] = handler'[v]
    BY <1>1, <2>1
  <2>3. announced' = announced
    BY <1>3 DEF HandlerStep, Handle, Begin, Fails, LeaveKnown, LeaveUnknown, FindParticipant, CloseParticipant,
                AnyoneLeft, CloseSession, Mark, AlreadyPresent, CreateSession, CreateParticipant, Complete
  <2>4. /\ DOMAIN session \subseteq DOMAIN session'
        /\ \A s \in DOMAIN session' : session'[s].told => s \in announced
    <3>1. CASE Mark(u)
      <4>1. handler[u].pc = "mark" /\ MarkTold(handler[u].session)
        BY <3>1 DEF Mark, At
      <4>2. handler[u].session \in DOMAIN session /\ handler[u].session \in announced
        BY <4>1, AtWork DEF Leaving, AnnouncedFits
      <4> QED
        BY <1>1, <4>1, <4>2, MarkTellsOne DEF AnnouncedFits
    <3>2. CASE CloseSession(u)
      <4>1. handler[u].pc = "close" /\ CloseRow(handler[u].session)
        BY <3>2 DEF CloseSession, At
      <4>2. handler[u].session \in DOMAIN session
        BY <4>1, AtWork DEF Leaving
      <4> QED
        BY <1>1, <4>1, <4>2, ClosingTellsNone DEF AnnouncedFits, NoneTold
    <3>3. CASE CreateSession(u)
      <4> DEFINE r == [channel |-> Event(u).to, active |-> TRUE, told |-> FALSE]
      <4>1. session' = session \/ session' = Append(session, r)
        BY <3>3 DEF CreateSession
      <4>2. Event(u).to \in Channels
        BY <3>3, AtWork DEF CreateSession, At
      <4>3. r \in SessionRows /\ ~r.told
        BY <4>2 DEF SessionRows
      <4> HIDE DEF r
      <4> QED
        BY <1>1, <4>1, <4>3, RowAppended DEF AnnouncedFits, RowsRefer
    <3>4. CASE ~Mark(u) /\ ~CloseSession(u) /\ ~CreateSession(u)
      <4>1. session' = session
        BY <1>3, <3>4 DEF HandlerStep, Handle, Begin, Fails, LeaveKnown, LeaveUnknown, FindParticipant,
             CloseParticipant, AnyoneLeft, AlreadyPresent, CreateParticipant, Complete, rows
      <4> QED
        BY <4>1 DEF AnnouncedFits
    <3> QED
      BY <3>1, <3>2, <3>3, <3>4
  <2> QED
    BY <1>1, <2>2, <2>3, <2>4 DEF AnnouncedFits
<1> QED
  BY <1>2, <1>3

LEMMA BootAnnounces ==
    ASSUME WellFormed, AnnouncedFits, Boot \/ BootSkips \/ Crash
    PROVE  AnnouncedFits'
<1>1. RowsRefer /\ boot \in BootRecs /\ BootRefers
  BY DEF WellFormed, BootRefers
<1>2. CASE Crash
  BY <1>2 DEF Crash, AnnouncedFits, Down, Idle, rows
<1>3. ASSUME Boot \/ BootSkips PROVE UNCHANGED <<handler, reaper>>
  BY <1>3, BootLeaves
<1>4. CASE BootClose
  <2>1. boot.pc = "close" /\ CloseRow(boot.session) /\ boot'.pc = "publish" /\ announced' = announced
    BY <1>1, <1>4 DEF BootClose, BootRecs
  <2>2. boot.session \in DOMAIN session
    BY <1>1, <2>1 DEF BootRefers
  <2>3. DOMAIN session \subseteq DOMAIN session' /\ \A s \in DOMAIN session' : session'[s].told => s \in announced
    BY <1>1, <2>1, <2>2, ClosingTellsNone DEF NoneTold, AnnouncedFits
  <2> QED
    BY <1>3, <1>4, <2>1, <2>3 DEF Boot, AnnouncedFits
<1>5. CASE BootPublish
  <2>1. /\ boot.pc = "publish" /\ announced' = announced \cup {boot.session} /\ boot'.session = boot.session
        /\ UNCHANGED session
    BY <1>1, <1>5 DEF BootPublish, BootRecs, rows
  <2>2. boot.session \in DOMAIN session
    BY <1>1, <2>1 DEF BootRefers
  <2> QED
    BY <1>3, <1>5, <2>1, <2>2 DEF Boot, AnnouncedFits
<1>6. CASE BootMark
  <2>1. boot.pc = "mark" /\ MarkTold(boot.session) /\ boot'.pc = "each" /\ announced' = announced
    BY <1>1, <1>6 DEF BootMark, BootRecs
  <2>2. boot.session \in DOMAIN session /\ boot.session \in announced
    BY <1>1, <2>1 DEF BootRefers, AnnouncedFits
  <2>3. DOMAIN session' = DOMAIN session /\ \A s \in DOMAIN session' : session'[s].told => s \in announced
    BY <1>1, <2>1, <2>2, MarkTellsOne DEF AnnouncedFits
  <2> QED
    BY <1>3, <1>6, <2>1, <2>3 DEF Boot, AnnouncedFits
<1>7. CASE ListActive \/ ListUntold \/ Ready \/ (\E s \in DOMAIN session : Load(s) \/ Replay(s)) \/ BootSkips
  <2>1. UNCHANGED <<session, announced>>
    BY <1>7 DEF ListActive, ListUntold, Ready, Load, Replay, BootSkips, rows
  <2>2. boot'.pc # "mark"
    BY <1>1, <1>7 DEF ListActive, ListUntold, Ready, Load, Replay, BootSkips, BootRecs, Down
  <2> QED
    BY <1>3, <1>7, <2>1, <2>2 DEF Boot, AnnouncedFits
<1> QED
  BY <1>2, <1>4, <1>5, <1>6, <1>7 DEF Boot

LEMMA ReaperAnnounces ==
    ASSUME WellFormed, AnnouncedFits, Reap \/ ReapFails
    PROVE  AnnouncedFits'
<1>1. RowsRefer /\ reaper \in ReaperRecs /\ ReaperFits /\ UNCHANGED <<boot, handler>>
  BY ReaperLeaves DEF WellFormed, ReaperRefers, tracker
<1>2. CASE ReapClose
  <2>1. reaper.pc = "close" /\ CloseRow(reaper.session) /\ reaper'.pc = "publish" /\ announced' = announced
    BY <1>1, <1>2 DEF ReapClose, ReaperRecs
  <2>2. reaper.session \in DOMAIN session
    BY <1>1, <2>1 DEF ReaperFits
  <2>3. DOMAIN session \subseteq DOMAIN session' /\ \A s \in DOMAIN session' : session'[s].told => s \in announced
    BY <1>1, <2>1, <2>2, ClosingTellsNone DEF NoneTold, AnnouncedFits
  <2> QED
    BY <1>1, <2>1, <2>3 DEF AnnouncedFits
<1>3. CASE ReapPublish
  <2>1. /\ reaper.pc = "publish" /\ announced' = announced \cup {reaper.session} /\ reaper'.session = reaper.session
        /\ UNCHANGED session
    BY <1>1, <1>3 DEF ReapPublish, ReaperRecs, rows
  <2>2. reaper.session \in DOMAIN session
    BY <1>1, <2>1 DEF ReaperFits
  <2> QED
    BY <1>1, <2>1, <2>2 DEF AnnouncedFits
<1>4. CASE ReapMark
  <2>1. reaper.pc = "mark" /\ MarkTold(reaper.session) /\ reaper'.pc = "each" /\ announced' = announced
    BY <1>1, <1>4 DEF ReapMark, ReaperRecs
  <2>2. reaper.session \in DOMAIN session /\ reaper.session \in announced
    BY <1>1, <2>1 DEF ReaperFits, AnnouncedFits
  <2>3. DOMAIN session' = DOMAIN session /\ \A s \in DOMAIN session' : session'[s].told => s \in announced
    BY <1>1, <2>1, <2>2, MarkTellsOne DEF AnnouncedFits
  <2> QED
    BY <1>1, <2>1, <2>3 DEF AnnouncedFits
<1>5. CASE \/ ReapStart \/ ReapCheck \/ ReapEnd \/ ReapFails
           \/ \E s \in DOMAIN session : ReapSession(s)
           \/ \E i \in DOMAIN interval : ReapParticipant(i)
  <2>1. UNCHANGED <<session, announced>>
    <3>1. CASE ReapStart \/ ReapCheck \/ ReapEnd \/ ReapFails
      BY <3>1 DEF ReapStart, ReapCheck, ReapEnd, ReapFails, rows
    <3>2. CASE \E s \in DOMAIN session : ReapSession(s)
      BY <3>2 DEF ReapSession, rows
    <3>3. CASE \E i \in DOMAIN interval : ReapParticipant(i)
      BY <3>3 DEF ReapParticipant
    <3> QED
      BY <1>5, <3>1, <3>2, <3>3
  <2>2. reaper'.pc # "mark"
    <3>1. CASE ReapStart
      <4>1. reaper' = [Resting EXCEPT !.pc = "each", !.live = place, !.todo = ActiveSessions]
        BY <3>1 DEF ReapStart
      <4> QED
        BY <4>1, RestingIs DEF ReaperRecs
    <3>5. CASE ReapCheck
      BY <1>1, <3>5 DEF ReapCheck, ReaperRecs
    <3>6. CASE ReapEnd
      BY <3>6, RestingIs DEF ReapEnd
    <3>2. CASE ReapFails
      BY <1>1, <3>2 DEF ReapFails, ReaperRecs, Resting
    <3>3. CASE \E s \in DOMAIN session : ReapSession(s)
      BY <1>1, <3>3 DEF ReapSession, ReaperRecs
    <3>4. CASE \E i \in DOMAIN interval : ReapParticipant(i)
      BY <1>1, <3>4 DEF ReapParticipant, ReaperRecs
    <3> QED
      BY <1>5, <3>1, <3>2, <3>3, <3>4, <3>5, <3>6
  <2> QED
    BY <1>1, <2>1, <2>2 DEF AnnouncedFits
<1> QED
  BY <1>2, <1>3, <1>4, <1>5 DEF Reap

LEMMA AnnouncedKept ==
    ASSUME WellFormed, AnnouncedFits, [Next]_vars
    PROVE  AnnouncedFits'
<1>1. CASE UNCHANGED vars
  BY <1>1 DEF vars, AnnouncedFits
<1>2. CASE Moves
  <2>1. UNCHANGED <<session, announced, boot, handler>> /\ reaper' \in {reaper, Resting} /\ Resting.pc = "idle"
    BY <1>2, MovesLeave, MovesRefer, RestingIs DEF rows, tracker
  <2> QED
    BY <2>1 DEF AnnouncedFits
<1> QED
  BY <1>1, <1>2, HandlerAnnounces, BootAnnounces, ReaperAnnounces, StepsAre

(* The sessions are well formed in every run, whatever the reaper met,       *)
(* whatever answer was lost and whatever move went unseen: references lead   *)
(* to rows, one handler at most has the event loop, and the memory knows     *)
(* sessions of its channels (tracker.py, repository.py, gateway.py).         *)
THEOREM SessionsTypeCorrect == Spec => []TypeOK
<1>1. Init => AnnouncedFits
  BY RestingIs DEF Init, AnnouncedFits, Idle, Down
<1>2. WellFormed /\ AnnouncedFits => TypeOK
  <2> SUFFICES ASSUME WellFormed, AnnouncedFits PROVE TypeOK
    OBVIOUS
  <2>1. place \in [Users -> Channels \cup {Nowhere}]
    BY DEF WellFormed, EventsLead, Places
  <2>2. \A s \in DOMAIN session : session[s].channel \in Channels
    <3>1. ASSUME NEW s \in DOMAIN session PROVE session[s] \in SessionRows
      BY <3>1 DEF WellFormed, RowsRefer
    <3> QED
      BY <3>1 DEF SessionRows
  <2>3. \A i \in DOMAIN interval : interval[i].session \in DOMAIN session /\ interval[i].user \in Users
    <3>1. ASSUME NEW i \in DOMAIN interval PROVE interval[i] \in IntervalRows
      BY <3>1 DEF WellFormed, RowsRefer
    <3> QED
      BY <3>1 DEF WellFormed, RowsRefer, IntervalRows
  <2>4. announced \subseteq DOMAIN session
    BY DEF AnnouncedFits
  <2>5. ASSUME NEW c \in Channels
        PROVE  /\ mem[c].session = 0 => mem[c] = NoEntry
               /\ mem[c].session # 0 => session[mem[c].session].channel = c
               /\ \A u \in Users : mem[c].parts[u] # 0 => interval[mem[c].parts[u]].session = mem[c].session
    <3>1. EntryRefers(mem[c], c) /\ mem[c] \in Entries
      BY MemoryIs
    <3>2. ASSUME mem[c].session = 0 PROVE mem[c] = NoEntry
      <4>1. 0 \notin DOMAIN session
        BY DEF WellFormed, RowsRefer
      <4>2. \A u \in Users : mem[c].parts[u] = 0
        BY <2>3, <3>1, <3>2, <4>1 DEF EntryRefers
      <4>3. mem[c].parts = [u \in Users |-> 0]
        BY <3>1, <4>2 DEF Entries
      <4> QED
        BY <3>1, <3>2, <4>3 DEF Entries, NoEntry
    <3> QED
      BY <3>1, <3>2 DEF EntryRefers
  <2>6. ASSUME NEW u \in Users
        PROVE  /\ handler[u].pc \in HandlerPCs
               /\ thread = u => handler[u].pc \notin {"idle", "publish", "done"}
               /\ thread # u => handler[u].pc \in {"idle", "publish", "mark", "done"}
               /\ handler[u].pc # "idle" => queue[u] # <<>>
    <3>1. HandlerRefers(u) /\ handler[u].pc \in HandlerPCs
      BY DEF WellFormed, HandlersRefer, HandlerRecs
    <3> QED
      BY <3>1 DEF HandlerRefers, HandlerPCs, Blocking
  <2>7. thread \in Users \cup {Nobody}
    BY DEF WellFormed, HandlersRefer
  <2> QED
    BY <2>1, <2>2, <2>3, <2>4, <2>5, <2>6, <2>7 DEF TypeOK
<1> QED
  BY <1>1, <1>2, AnnouncedKept, FormStands, PTL DEF Spec

-----------------------------------------------------------------------------
(* What a start replays                                                     *)

LEMMA TroublesStay == ASSUME [Next]_vars PROVE spoilt \subseteq spoilt'
<1>1. CASE UNCHANGED vars
  BY <1>1 DEF vars
<1>2. CASE Boot \/ BootSkips \/ Crash
  BY <1>2 DEF Boot, BootSkips, Crash, Trouble, ListActive, BootClose, BootPublish, BootMark, ListUntold, Ready,
              Load, Replay
<1>3. CASE Reap \/ ReapFails
  BY <1>3 DEF Reap, ReapFails, Trouble, Reaped, ReapStart, ReapCheck, ReapClose, ReapPublish, ReapMark, ReapEnd,
              ReapSession, ReapParticipant
<1>4. CASE Moves
  BY <1>4 DEF Moves, Move, MoveUnseen, Trouble, counters
<1>5. ASSUME NEW u \in Users, HandlerStep(u) PROVE spoilt \subseteq spoilt'
  BY <1>5 DEF HandlerStep, Handle, Begin, Fails, LeaveKnown, LeaveUnknown, FindParticipant, CloseParticipant,
              AnyoneLeft, CloseSession, Publish, Mark, AlreadyPresent, CreateSession, CreateParticipant, Complete,
              LoseAnswer, Trouble
<1> QED
  BY <1>1, <1>2, <1>3, <1>4, <1>5, StepsAre

(* Of the start's own steps.                                                *)
LEMMA StartReplays ==
    ASSUME WellFormed, AnnouncedFits, ReplayFits, Boot \/ BootSkips \/ Crash
    PROVE  ReplayFits'
<1>1. RowsRefer /\ boot \in BootRecs /\ BootRefers
  BY DEF WellFormed, BootRefers
<1>2. CASE Crash
  BY <1>2 DEF Crash, ReplayFits, Down
<1>3. CASE BootSkips
  <2>1. "skip" \in spoilt' /\ boot'.pc = "each"
    BY <1>1, <1>3 DEF BootSkips, Trouble, BootRecs
  <2> QED
    BY <2>1 DEF ReplayFits
<1>4. ASSUME Boot PROVE UNCHANGED <<reaper, spoilt>>
  BY <1>4, BootLeaves DEF Boot, ListActive, BootClose, BootPublish, BootMark, ListUntold, Ready, Load, Replay
<1>5. CASE ListActive \/ Ready \/ BootClose \/ \E s \in DOMAIN session : Load(s)
  <2>1. ~boot'.replay
    <3>1. CASE ListActive \/ Ready \/ BootClose
      BY <1>1, <3>1 DEF ListActive, Ready, BootClose, BootRecs, BootRefers, ReplayFits, Down
    <3>2. CASE \E s \in DOMAIN session : Load(s)
      BY <3>2, LoadRefers
    <3> QED
      BY <1>5, <3>1, <3>2
  <2> QED
    BY <2>1 DEF ReplayFits
<1>6. CASE BootPublish
  <2>1. /\ boot.pc = "publish" /\ announced' = announced \cup {boot.session} /\ UNCHANGED session
        /\ boot'.pc = "mark" /\ boot'.todo = boot.todo /\ boot'.replay = boot.replay
    BY <1>1, <1>6 DEF BootPublish, BootRecs, rows
  <2> QED
    BY <1>4, <1>6, <2>1 DEF Boot, ReplayFits
<1>7. CASE BootMark
  <2>1. /\ boot.pc = "mark" /\ announced' = announced /\ MarkTold(boot.session)
        /\ boot'.pc = "each" /\ boot'.todo = boot.todo /\ boot'.replay = boot.replay
    BY <1>1, <1>7 DEF BootMark, BootRecs
  <2>2. DOMAIN session' = DOMAIN session /\ \A t \in DOMAIN session : session'[t].active = session[t].active
    BY <1>1, <2>1, RowIsTold DEF BootRefers, RowsRefer
  <2> QED
    BY <1>4, <1>7, <2>1, <2>2 DEF Boot, ReplayFits
<1>8. CASE ListUntold
  <2> DEFINE T == {s \in DOMAIN session : ~session[s].active /\ ~session[s].told}
  <2>1. boot' = [boot EXCEPT !.replay = TRUE, !.todo = T] /\ boot.pc = "each" /\ UNCHANGED <<session, announced>>
    BY <1>8 DEF ListUntold, rows
  <2>2. \A s \in DOMAIN session : session[s].active \/ s \in announced \/ s \in T
    BY DEF AnnouncedFits
  <2> HIDE DEF T
  <2>3. boot'.pc = "each" /\ boot'.todo = T
    BY <1>1, <2>1 DEF BootRecs
  <2> QED
    BY <2>1, <2>2, <2>3 DEF ReplayFits
<1>9. ASSUME NEW s \in DOMAIN session, Replay(s) PROVE ReplayFits'
  <2>1. /\ boot.pc = "each" /\ boot'.pc = "publish" /\ boot'.session = s /\ boot'.todo = boot.todo \ {s}
        /\ boot.replay /\ UNCHANGED <<session, announced>>
    BY <1>1, <1>9 DEF Replay, BootRecs, rows
  <2> QED
    BY <1>4, <1>9, <2>1 DEF Boot, ReplayFits
<1> QED
  BY <1>2, <1>3, <1>5, <1>6, <1>7, <1>8, <1>9 DEF Boot

(* The reaper announces what it closes, or its failure is recorded.         *)
LEMMA ReaperReplays ==
    ASSUME WellFormed, ReplayFits, Reap \/ ReapFails
    PROVE  ReplayFits'
<1>1. RowsRefer /\ reaper \in ReaperRecs /\ ReaperFits /\ boot' = boot /\ spoilt \subseteq spoilt'
  BY ReaperLeaves, TroublesStay DEF WellFormed, ReaperRefers, tracker, Next
<1>2. CASE ReapClose
  <2>1. reaper.pc = "close" /\ CloseRow(reaper.session) /\ reaper'.pc = "publish" /\ announced' = announced
        /\ reaper'.session = reaper.session
    BY <1>1, <1>2 DEF ReapClose, ReaperRecs
  <2>2. DOMAIN session' = DOMAIN session /\ \A t \in DOMAIN session : t # reaper.session => session'[t] = session[t]
    BY <1>1, <2>1, RowCloses DEF ReaperFits, RowsRefer
  <2> QED
    BY <1>1, <2>1, <2>2 DEF ReplayFits
<1>3. CASE ReapPublish
  <2>1. /\ reaper.pc = "publish" /\ announced' = announced \cup {reaper.session} /\ UNCHANGED session
    BY <1>3 DEF ReapPublish, rows
  <2> QED
    BY <1>1, <2>1 DEF ReplayFits
<1>4. CASE ReapMark
  <2>1. reaper.pc = "mark" /\ MarkTold(reaper.session) /\ announced' = announced
    BY <1>4 DEF ReapMark
  <2>2. DOMAIN session' = DOMAIN session /\ \A t \in DOMAIN session : session'[t].active = session[t].active
    BY <1>1, <2>1, RowIsTold DEF ReaperFits, RowsRefer
  <2> QED
    BY <1>1, <2>1, <2>2 DEF ReplayFits
<1>5. CASE ReapFails
  <2>1. "reaper" \in spoilt'
    BY <1>5 DEF ReapFails, Trouble
  <2> QED
    BY <1>1, <2>1 DEF ReplayFits
<1>6. CASE \/ ReapStart \/ ReapCheck \/ ReapEnd
           \/ \E s \in DOMAIN session : ReapSession(s)
           \/ \E i \in DOMAIN interval : ReapParticipant(i)
  <2>1. UNCHANGED <<session, announced>> /\ reaper.pc # "publish"
    <3>1. CASE ReapStart \/ ReapCheck \/ ReapEnd
      BY <3>1 DEF ReapStart, ReapCheck, ReapEnd, rows
    <3>2. CASE \E s \in DOMAIN session : ReapSession(s)
      BY <3>2 DEF ReapSession, rows
    <3>3. CASE \E i \in DOMAIN interval : ReapParticipant(i)
      BY <3>3 DEF ReapParticipant
    <3> QED
      BY <1>6, <3>1, <3>2, <3>3
  <2> QED
    BY <1>1, <2>1 DEF ReplayFits
<1> QED
  BY <1>2, <1>3, <1>4, <1>5, <1>6 DEF Reap

LEMMA ReplayKept ==
    ASSUME WellFormed, AnnouncedFits, ReplayFits, [Next]_vars
    PROVE  ReplayFits'
<1>1. CASE UNCHANGED vars
  BY <1>1 DEF vars, ReplayFits
<1>2. ASSUME NEW u \in Users, HandlerStep(u) PROVE ReplayFits'
  <2>1. boot' = boot /\ boot.pc = "up"
    <3>1. CASE Begin(u)
      BY <3>1 DEF Begin
    <3>2. CASE ~Begin(u)
      <4>1. handler[u].pc # "idle"
        BY <1>2, <3>2 DEF HandlerStep, Handle, Fails, LeaveKnown, LeaveUnknown, FindParticipant, CloseParticipant,
             AnyoneLeft, CloseSession, Publish, Mark, AlreadyPresent, CreateSession, CreateParticipant, Complete, At
      <4> QED
        BY <1>2, <4>1, AtWork, HandlerLeaves
    <3> QED
      BY <3>1, <3>2
  <2> QED
    BY <2>1 DEF WellFormed, BootRefers, ReplayFits
<1>3. CASE Moves
  <2>1. UNCHANGED <<session, announced, boot>>
    BY <1>3, MovesLeave DEF rows, tracker
  <2>2. (reaper' = reaper /\ spoilt' = spoilt) \/ "unseen" \in spoilt'
    BY <1>3 DEF Moves, Move, MoveUnseen, Trouble
  <2> QED
    BY <2>1, <2>2 DEF ReplayFits
<1> QED
  BY <1>1, <1>2, <1>3, StartReplays, ReaperReplays, StepsAre

(* When a start is done, every closed session has been announced, also one   *)
(* whose announcement failed before, but for the one the reaper is about to  *)
(* announce (Start, tracker.py; unless a session was skipped, a round of the *)
(* reaper failed or the gateway was restarted in the middle of one).         *)
THEOREM SessionsAreAnnounced == Spec => AllAnnouncedAtStart
<1>1. Init => AnnouncedFits /\ ReplayFits
  BY RestingIs DEF Init, AnnouncedFits, ReplayFits, Idle, Down
<1>2. WellFormed /\ AnnouncedFits /\ ReplayFits /\ [Next]_vars =>
        (Ready /\ spoilt \cap {"skip", "reaper", "unseen"} = {} =>
           \A s \in DOMAIN session : session[s].active \/ s \in announced \/ s = reaper.session)
  BY DEF Ready, ReplayFits
<1>3. WellFormed /\ AnnouncedFits /\ ReplayFits /\ [Next]_vars => AnnouncedFits' /\ ReplayFits'
  BY AnnouncedKept, ReplayKept
<1>4. WellFormed /\ AnnouncedFits /\ ReplayFits /\ [Next]_vars =>
        [Ready /\ spoilt \cap {"skip", "reaper", "unseen"} = {} =>
           \A s \in DOMAIN session : session[s].active \/ s \in announced \/ s = reaper.session]_vars
  BY <1>2
<1> QED
  BY <1>1, <1>3, <1>4, FormStands, PTL DEF Spec, AllAnnouncedAtStart

-----------------------------------------------------------------------------
(* What the memory knows                                                    *)

(* A session waits to be loaded, or to be closed because nobody is in it.   *)
Awaits(s) == boot.pc # "up" /\ ~boot.replay /\ (s \in boot.todo \/ (boot.pc = "close" /\ s = boot.session))

StartKnows ==
    /\ boot.pc = "down" => \A c \in Channels : mem[c].session = 0
    /\ boot.pc \notin {"down", "up"} /\ ~boot.replay =>
         \A s \in boot.todo : /\ mem[session[s].channel].session = 0
                              /\ \A t \in boot.todo : session[t].channel = session[s].channel => t = s

SessionsKnown ==
    boot.pc # "down" =>
       \A s \in ActiveSessions : mem[session[s].channel].session = s \/ Awaits(s)

IntervalsKnown ==
    \A i \in DOMAIN interval, c \in Channels :
       interval[i].active /\ interval[i].session = mem[c].session => mem[c].parts[interval[i].user] = i

LeaverKnows(u) ==
    handler[u].pc \in {"find", "part", "left", "close"} => mem[Event(u).from].session = handler[u].session

Knows == StartKnows /\ SessionsKnown /\ IntervalsKnown /\ \A u \in Users : LeaverKnows(u)

LEMMA RowsAre ==
    ASSUME WellFormed
    PROVE  /\ \A s \in DOMAIN session : session[s] \in SessionRows /\ session[s].channel \in Channels
           /\ \A i \in DOMAIN interval : interval[i] \in IntervalRows /\ interval[i].user \in Users
                                         /\ interval[i].session \in DOMAIN session
<1>1. ASSUME NEW s \in DOMAIN session PROVE session[s] \in SessionRows
  BY <1>1 DEF WellFormed, RowsRefer
<1>2. ASSUME NEW i \in DOMAIN interval PROVE interval[i] \in IntervalRows /\ interval[i].session \in DOMAIN session
  BY <1>2 DEF WellFormed, RowsRefer
<1> QED
  BY <1>1, <1>2 DEF SessionRows, IntervalRows

(* Where nothing is opened and the memory stays, it knows what it knew.     *)
LEMMA ClosingIsKnown ==
    ASSUME WellFormed, Knows, RowsClose, UNCHANGED <<mem, boot>>
    PROVE  StartKnows' /\ SessionsKnown' /\ IntervalsKnown'
<1>1. boot.todo \subseteq DOMAIN session
  BY DEF WellFormed, BootRefers, BootRecs
<1>2. ASSUME NEW s \in ActiveSessions' PROVE s \in ActiveSessions /\ session'[s].channel = session[s].channel
  BY <1>2 DEF ActiveSessions, RowsClose, RowsGrow
<1>3. StartKnows'
  BY <1>1 DEF Knows, StartKnows, RowsClose, RowsGrow
<1>4. SessionsKnown'
  BY <1>2 DEF Knows, SessionsKnown, Awaits
<1>5. IntervalsKnown'
  BY DEF Knows, IntervalsKnown, RowsClose, RowsGrow
<1> QED
  BY <1>3, <1>4, <1>5

LEMMA OthersKnow ==
    ASSUME WellFormed, Knows, mem' = mem, NEW v \in Users, handler'[v] = handler[v], queue'[v] = queue[v]
    PROVE  LeaverKnows(v)'
BY DEF Knows, LeaverKnows, Event

LEMMA OneHandlerMoves ==
    ASSUME WellFormed, NEW u \in Users, HandlerStep(u)
    PROVE  \A v \in Users \ {u} : handler'[v] = handler[v] /\ queue'[v] = queue[v]
<1>1. handler \in [Users -> HandlerRecs] /\ queue \in [Users -> Seq(VoiceEvents)]
  BY DEF WellFormed, HandlersRefer, EventsLead
<1>2. \E x : handler' = [handler EXCEPT ![u] = x]
  BY OnlyPublishLeadsToMark DEF Publish
<1>3. queue' = queue \/ queue' = [queue EXCEPT ![u] = Tail(queue[u])]
  BY HandlerLeaves DEF Complete
<1> QED
  BY <1>1, <1>2, <1>3

(* A step of a handler that leaves the memory alone.                        *)
LEMMA QuietHandlerKnows ==
    ASSUME WellFormed, Knows, NEW u \in Users,
           \/ Begin(u) \/ Fails(u) \/ LeaveUnknown(u) \/ FindParticipant(u) \/ CloseParticipant(u)
           \/ AnyoneLeft(u) \/ Publish(u) \/ Mark(u) \/ AlreadyPresent(u) \/ Complete(u)
    PROVE  Knows'
<1>1. HandlerStep(u)
  BY DEF HandlerStep, Handle
<1>2. mem' = mem /\ RowsClose /\ boot' = boot
  BY <1>1, HandlerLeaves, BeginRefers, LeaveUnknownRefers, FindRefers, PublishRefers, MarkRefers, PresentRefers,
     CompleteRefers, CloseParticipantRefers
<1>3. handler \in [Users -> HandlerRecs]
  BY DEF WellFormed, HandlersRefer
<1>4. ASSUME NEW v \in Users, v # u PROVE LeaverKnows(v)'
  BY <1>1, <1>2, <1>4, OneHandlerMoves, OthersKnow
<1>5. LeaverKnows(u)'
  <2>1. ASSUME NEW pc, NEW s, Goto(u, pc, s) \/ Yield(u, pc, s)
        PROVE  handler'[u].pc = pc /\ handler'[u].session = s
    BY <1>3, <2>1 DEF Goto, Yield
  <2>2. CASE Begin(u) \/ Fails(u) \/ Mark(u) \/ AlreadyPresent(u)
    <3>1. handler'[u].pc \in {"join", "leave", "idle", "done"}
      BY <2>1, <2>2 DEF Begin, Fails, Mark, AlreadyPresent, AfterLeave, Raise
    <3> QED
      BY <3>1 DEF LeaverKnows
  <2>3. CASE Complete(u) \/ Publish(u)
    <3>1. handler'[u].pc \in {"idle", "mark"}
      BY <1>3, <2>3 DEF Complete, Publish, Idle, HandlerRecs
    <3> QED
      BY <3>1 DEF LeaverKnows
  <2>4. CASE LeaveUnknown(u)
    <3>1. Event(u)' = Event(u) /\ boot.pc = "up" /\ Event(u).from \in Channels
      BY <2>4, AtWork DEF LeaveUnknown, At, Event, discord, Leaving
    <3>2. CASE AfterLeave(u)
      BY <2>1, <3>2 DEF AfterLeave, LeaverKnows
    <3>3. CASE \E s \in ActiveIn(Event(u).from) : Goto(u, "find", s)
      <4>1. PICK s \in ActiveIn(Event(u).from) : Goto(u, "find", s)
        BY <3>3
      <4>2. mem[Event(u).from].session = s
        BY <3>1, <4>1 DEF Knows, SessionsKnown, Awaits, ActiveIn
      <4> QED
        BY <1>2, <2>1, <3>1, <4>1, <4>2 DEF LeaverKnows
    <3> QED
      BY <2>4, <3>2, <3>3 DEF LeaveUnknown
  <2>5. CASE FindParticipant(u) \/ CloseParticipant(u) \/ AnyoneLeft(u)
    <3>1. /\ handler[u].pc \in {"find", "part", "left"} /\ Event(u)' = Event(u)
          /\ \/ handler'[u].session = handler[u].session
             \/ handler'[u].pc \in {"join", "done", "idle"}
      BY <2>1, <2>5 DEF FindParticipant, CloseParticipant, AnyoneLeft, AfterLeave, LoseAnswer, Raise, At, Event, discord
    <3> QED
      BY <1>2, <3>1 DEF Knows, LeaverKnows
  <2> QED
    BY <2>2, <2>3, <2>4, <2>5
<1> QED
  BY <1>2, <1>4, <1>5, ClosingIsKnown DEF Knows

(* Nobody else is at work while a handler has the loop.                     *)
LEMMA NobodyElseLeaves ==
    ASSUME WellFormed, NEW u \in Users, HandlerStep(u), handler[u].pc \in Blocking
    PROVE  \A v \in Users \ {u} : LeaverKnows(v)'
<1>1. ASSUME NEW v \in Users \ {u} PROVE handler'[v].pc \notin {"find", "part", "left", "close"}
  <2>1. HandlerRefers(v) /\ HandlerRefers(u) /\ handler'[v] = handler[v]
    BY OneHandlerMoves DEF WellFormed, HandlersRefer
  <2> QED
    BY <2>1 DEF HandlerRefers, Blocking
<1> QED
  BY <1>1 DEF LeaverKnows

Unlost == spoilt' \cap {"lost", "skip"} = {}

LEMMA LeaveKnownKnows ==
    ASSUME WellFormed, Knows, NEW u \in Users, LeaveKnown(u), Unlost
    PROVE  Knows'
<1> DEFINE c == Event(u).from
           k == mem[c].parts[u]
           rest == [mem[c].parts EXCEPT ![u] = 0]
           m == [mem[c] EXCEPT !.parts = rest]
<1>1. /\ handler[u].pc = "leave" /\ CloseInterval(k) /\ mem[c].session # 0 /\ k # 0
      /\ UNCHANGED <<queue, session, boot>> /\ HandlerStep(u)
  BY DEF LeaveKnown, At, discord, HandlerStep, Handle
<1>2. /\ mem' = [mem EXCEPT ![c] = m]
      /\ AfterLeave(u) \/ Goto(u, "close", mem[c].session)
  BY DEF LeaveKnown, LoseAnswer, Trouble, Unlost
<1>3. c \in Channels /\ boot.pc = "up" /\ handler \in [Users -> HandlerRecs]
  BY <1>1, AtWork DEF Leaving, WellFormed, HandlersRefer
<1>4. mem \in [Channels -> Entries] /\ EntryRefers(mem[c], c)
  BY <1>3, MemoryIs
<1>5. PICK d \in Channels : d = c
  BY <1>3
<1>6. /\ k \in DOMAIN interval /\ interval[k].user = u
      /\ interval' \in Seq(IntervalRows) /\ DOMAIN interval' = DOMAIN interval /\ ~interval'[k].active
      /\ \A j \in DOMAIN interval : /\ interval'[j].session = interval[j].session
                                    /\ interval'[j].user = interval[j].user
                                    /\ j # k => interval'[j] = interval[j]
  BY <1>1, <1>4, IntervalCloses DEF EntryRefers, WellFormed, RowsRefer
<1>7. m.session = mem[c].session /\ \A v \in Users : m.parts[v] = IF v = u THEN 0 ELSE mem[c].parts[v]
  <2>1. mem[c] \in Entries
    BY <1>3, <1>4
  <2> QED
    BY <2>1 DEF Entries
<1> HIDE DEF m
<1>8. /\ \A e \in Channels : mem'[e].session = mem[e].session
      /\ \A e \in Channels, v \in Users : ~(e = d /\ v = u) => mem'[e].parts[v] = mem[e].parts[v]
  BY <1>2, <1>4, <1>5, <1>7
<1>9. RowsClose
  BY LeaveKnownRefers
<1>10. StartKnows' /\ SessionsKnown'
  <2>1. StartKnows'
    BY <1>1, <1>3 DEF StartKnows
  <2>2. SessionsKnown'
    BY <1>1, <1>3, <1>8, RowsAre DEF Knows, SessionsKnown, ActiveSessions, Awaits
  <2> QED
    BY <2>1, <2>2
<1>11. IntervalsKnown'
  <2> SUFFICES ASSUME NEW i \in DOMAIN interval, NEW e \in Channels,
                      interval'[i].active, interval'[i].session = mem'[e].session
               PROVE  mem'[e].parts[interval'[i].user] = i
    BY <1>6 DEF IntervalsKnown
  <2>1. i # k /\ interval[i].active /\ interval[i].session = mem[e].session
    BY <1>6, <1>8
  <2>2. mem[e].parts[interval[i].user] = i /\ interval[i].user \in Users
    BY <2>1, RowsAre DEF Knows, IntervalsKnown
  <2>3. ~(e = d /\ interval[i].user = u)
    BY <1>5, <2>1, <2>2
  <2> QED
    BY <1>6, <1>8, <2>2, <2>3
<1>12. LeaverKnows(u)'
  <2>1. Event(u)' = Event(u)
    BY <1>1 DEF Event
  <2>2. CASE AfterLeave(u)
    BY <1>3, <2>2 DEF AfterLeave, Goto, Yield, LeaverKnows
  <2>3. CASE Goto(u, "close", mem[c].session)
    BY <1>3, <1>8, <2>1, <2>3 DEF Goto, LeaverKnows
  <2> QED
    BY <1>2, <2>2, <2>3
<1>13. "leave" \in Blocking
  BY DEF Blocking
<1> QED
  BY <1>1, <1>10, <1>11, <1>12, <1>13, NobodyElseLeaves DEF Knows

LEMMA CloseSessionKnows ==
    ASSUME WellFormed, Knows, NEW u \in Users, CloseSession(u), Unlost
    PROVE  Knows'
<1> DEFINE c == Event(u).from
           s == handler[u].session
<1>1. /\ handler[u].pc = "close" /\ CloseRow(s) /\ mem' = [mem EXCEPT ![c] = NoEntry] /\ Yield(u, "publish", s)
      /\ UNCHANGED <<interval, boot>> /\ HandlerStep(u)
  BY DEF CloseSession, At, HandlerStep, Handle, LoseAnswer, Trouble, Unlost
<1>2. c \in Channels /\ boot.pc = "up" /\ handler \in [Users -> HandlerRecs] /\ s \in DOMAIN session
  BY <1>1, AtWork DEF Leaving, WellFormed, HandlersRefer
<1>3. mem[c].session = s
  BY <1>1 DEF Knows, LeaverKnows
<1>4. PICK d \in Channels : d = c
  BY <1>2
<1>5. mem'[d] = NoEntry /\ \A e \in Channels \ {d} : mem'[e] = mem[e]
  BY <1>1, <1>4, MemoryIs
<1>6. /\ session' \in Seq(SessionRows) /\ DOMAIN session' = DOMAIN session /\ ~session'[s].active
      /\ \A t \in DOMAIN session : session'[t].channel = session[t].channel /\ (t # s => session'[t] = session[t])
  BY <1>1, <1>2, RowCloses DEF WellFormed, RowsRefer
<1>7. StartKnows'
  BY <1>1, <1>2 DEF StartKnows
<1>8. SessionsKnown'
  <2> SUFFICES ASSUME NEW t \in DOMAIN session, session'[t].active
               PROVE  mem'[session'[t].channel].session = t
    BY <1>6 DEF SessionsKnown, ActiveSessions
  <2>1. t # s /\ session[t].active /\ session[t].channel \in Channels
    BY <1>6, RowsAre
  <2>2. mem[session[t].channel].session = t
    BY <1>2, <2>1 DEF Knows, SessionsKnown, ActiveSessions, Awaits
  <2>3. session[t].channel # d
    BY <1>3, <1>4, <2>1, <2>2
  <2> QED
    BY <1>5, <1>6, <2>1, <2>2, <2>3
<1>9. IntervalsKnown'
  <2>1. \A i \in DOMAIN interval : interval[i].session # 0
    BY DEF WellFormed, RowsRefer
  <2> QED
    BY <1>1, <1>5, <2>1, NoEntryIs DEF Knows, IntervalsKnown
<1>10. LeaverKnows(u)'
  BY <1>1, <1>2 DEF Yield, LeaverKnows
<1>11. "close" \in Blocking
  BY DEF Blocking
<1> QED
  BY <1>1, <1>7, <1>8, <1>9, <1>10, <1>11, NobodyElseLeaves DEF Knows

LEMMA CreateSessionKnows ==
    ASSUME WellFormed, Knows, NEW u \in Users, CreateSession(u), Unlost
    PROVE  Knows'
<1> DEFINE c == Event(u).to
           n == Len(session) + 1
           r == [channel |-> c, active |-> TRUE, told |-> FALSE]
           m == [NoEntry EXCEPT !.session = n]
<1>1. handler[u].pc = "join" /\ mem[c].session = 0 /\ UNCHANGED <<queue, interval, boot>> /\ HandlerStep(u)
  BY DEF CreateSession, At, discord, HandlerStep, Handle
<1>2. boot.pc = "up" /\ c \in Channels /\ handler \in [Users -> HandlerRecs] /\ "join" \in Blocking
  BY <1>1, AtWork DEF Blocking, WellFormed, HandlersRefer
<1>3. LeaverKnows(u)' /\ \A v \in Users \ {u} : LeaverKnows(v)'
  <2>1. handler'[u].pc \in {"join", "idle"}
    BY <1>2 DEF CreateSession, LoseAnswer, Raise, Goto, Yield
  <2> QED
    BY <1>1, <1>2, <2>1, NobodyElseLeaves DEF LeaverKnows
<1>4. StartKnows'
  BY <1>1, <1>2 DEF StartKnows
<1>5. CASE UNCHANGED <<session, mem>>
  BY <1>1, <1>3, <1>4, <1>5 DEF Knows, SessionsKnown, IntervalsKnown, ActiveSessions, Awaits
<1>6. CASE ActiveIn(c) = {} /\ session' = Append(session, r) /\ mem' = [mem EXCEPT ![c] = m]
  <2>1. r \in SessionRows /\ r.channel = c /\ session \in Seq(SessionRows) /\ n \in Nat
    BY <1>2 DEF SessionRows, WellFormed, RowsRefer
  <2>2. /\ n \notin DOMAIN session /\ DOMAIN session' = DOMAIN session \cup {n}
        /\ session'[n] = r /\ \A s \in DOMAIN session : session'[s] = session[s]
    <3> HIDE DEF r
    <3> QED
      BY <1>6, <2>1, RowAppended
  <2>3. m.session = n
    BY DEF NoEntry
  <2> HIDE DEF m, n, r
  <2>4. PICK d \in Channels : d = c
    BY <1>2
  <2>5. mem'[d] = m /\ \A e \in Channels \ {d} : mem'[e] = mem[e]
    BY <1>6, <2>4, MemoryIs
  <2>6. SessionsKnown'
    <3> SUFFICES ASSUME NEW s \in DOMAIN session', session'[s].active
                 PROVE  mem'[session'[s].channel].session = s
      BY DEF SessionsKnown, ActiveSessions
    <3>1. CASE s = n
      BY <2>1, <2>2, <2>3, <2>4, <2>5, <3>1
    <3>2. CASE s # n
      <4>1. s \in DOMAIN session /\ session'[s] = session[s] /\ session[s].active
        BY <2>2, <3>2
      <4>2. session[s].channel \in Channels /\ session[s].channel # d
        BY <1>6, <2>4, <4>1, RowsAre DEF ActiveIn, ActiveSessions
      <4>3. mem[session[s].channel].session = s
        BY <1>2, <4>1 DEF Knows, SessionsKnown, ActiveSessions, Awaits
      <4> QED
        BY <2>5, <4>1, <4>2, <4>3
    <3> QED
      BY <3>1, <3>2
  <2>7. IntervalsKnown'
    <3>1. \A i \in DOMAIN interval : interval[i].session # n
      BY <2>2, RowsAre
    <3> QED
      BY <1>1, <2>3, <2>5, <3>1 DEF Knows, IntervalsKnown
  <2> QED
    BY <1>3, <1>4, <2>6, <2>7 DEF Knows
<1> QED
  BY <1>5, <1>6 DEF CreateSession, LoseAnswer, Trouble, Unlost

LEMMA CreateParticipantKnows ==
    ASSUME WellFormed, Knows, NEW u \in Users, CreateParticipant(u), Unlost
    PROVE  Knows'
<1> DEFINE c == Event(u).to
           s == mem[c].session
           n == Len(interval) + 1
           r == [session |-> s, user |-> u, active |-> TRUE]
           m == [mem[c] EXCEPT !.parts = [@ EXCEPT ![u] = n]]
<1>1. handler[u].pc = "join" /\ s # 0 /\ UNCHANGED <<queue, session, boot>> /\ HandlerStep(u)
  BY DEF CreateParticipant, At, discord, HandlerStep, Handle
<1>2. boot.pc = "up" /\ c \in Channels /\ handler \in [Users -> HandlerRecs] /\ "join" \in Blocking
  BY <1>1, AtWork DEF Blocking, WellFormed, HandlersRefer
<1>3. LeaverKnows(u)' /\ \A v \in Users \ {u} : LeaverKnows(v)'
  <2>1. handler'[u].pc \in {"done", "idle"}
    BY <1>2 DEF CreateParticipant, LoseAnswer, Raise, Yield
  <2> QED
    BY <1>1, <1>2, <2>1, NobodyElseLeaves DEF LeaverKnows
<1>4. StartKnows'
  BY <1>1, <1>2 DEF StartKnows
<1>5. CASE UNCHANGED <<interval, mem>>
  BY <1>1, <1>3, <1>4, <1>5 DEF Knows, SessionsKnown, IntervalsKnown, ActiveSessions, Awaits
<1>6. CASE ActiveOf(s, u) = {} /\ interval' = Append(interval, r) /\ mem' = [mem EXCEPT ![c].parts[u] = n]
  <2>1. s \in DOMAIN session /\ s \in Nat /\ session[s].channel = c /\ mem[c] \in Entries
    BY <1>1, <1>2 DEF WellFormed, MemoryRefers, Entries
  <2>2. r \in IntervalRows /\ r.session = s /\ r.user = u /\ interval \in Seq(IntervalRows) /\ n \in Nat
    BY <2>1 DEF IntervalRows, WellFormed, RowsRefer
  <2>3. /\ n \notin DOMAIN interval /\ DOMAIN interval' = DOMAIN interval \cup {n}
        /\ interval'[n] = r /\ \A i \in DOMAIN interval : interval'[i] = interval[i]
    <3> HIDE DEF r
    <3> QED
      BY <1>6, <2>2, RowAppended
  <2> HIDE DEF n, r
  <2>4. mem' = [mem EXCEPT ![c] = m]
    BY <1>6
  <2>5. m.session = s /\ m.parts[u] = n /\ \A v \in Users \ {u} : m.parts[v] = mem[c].parts[v]
    BY <2>1 DEF Entries
  <2> HIDE DEF m
  <2>6. PICK d \in Channels : d = c
    BY <1>2
  <2>7. mem'[d] = m /\ \A e \in Channels \ {d} : mem'[e] = mem[e]
    BY <2>4, <2>6, MemoryIs
  <2>8. \A e \in Channels : mem'[e].session = mem[e].session
    BY <2>5, <2>6, <2>7
  <2>9. SessionsKnown'
    BY <1>1, <2>8, RowsAre DEF Knows, SessionsKnown, ActiveSessions, Awaits
  <2>10. IntervalsKnown'
    <3> SUFFICES ASSUME NEW i \in DOMAIN interval', NEW e \in Channels,
                        interval'[i].active, interval'[i].session = mem'[e].session
                 PROVE  mem'[e].parts[interval'[i].user] = i
      BY DEF IntervalsKnown
    <3>1. CASE i = n
      <4>1. mem[e].session = s /\ interval'[i].user = u
        BY <2>2, <2>3, <2>8, <3>1
      <4>2. session[mem[e].session].channel = e
        BY <1>1, <4>1 DEF WellFormed, MemoryRefers
      <4>3. e = d
        BY <2>1, <2>6, <4>1, <4>2
      <4> QED
        BY <2>5, <2>7, <3>1, <4>1, <4>3
    <3>2. CASE i # n
      <4>1. i \in DOMAIN interval /\ interval'[i] = interval[i] /\ interval[i].active
            /\ interval[i].session = mem[e].session
        BY <2>3, <2>8, <3>2
      <4>2. mem[e].parts[interval[i].user] = i /\ interval[i].user \in Users
        BY <4>1, RowsAre DEF Knows, IntervalsKnown
      <4>3. ~(e = d /\ interval[i].user = u)
        BY <1>6, <2>6, <4>1 DEF ActiveOf, ActiveIntervals
      <4> QED
        BY <2>5, <2>6, <2>7, <4>1, <4>2, <4>3
    <3> QED
      BY <3>1, <3>2
  <2> QED
    BY <1>3, <1>4, <2>9, <2>10 DEF Knows
<1> QED
  BY <1>5, <1>6 DEF CreateParticipant, LoseAnswer, Trouble, Unlost

(* What a start loads.                                                      *)
LEMMA LoadKnows ==
    ASSUME WellFormed, Knows, NEW s \in DOMAIN session, Load(s)
    PROVE  StartKnows' /\ SessionsKnown' /\ IntervalsKnown'
<1>1. /\ boot.pc = "each" /\ ~boot.replay /\ s \in boot.todo /\ UNCHANGED <<session, interval>>
      /\ boot'.todo = boot.todo \ {s} /\ ~boot'.replay /\ boot'.pc \in {"each", "close"}
      /\ boot'.pc = "close" => boot'.session = s /\ mem' = mem
      /\ boot'.pc = "each" =>
           /\ mem'[session[s].channel].session = s
           /\ \A u \in Users : mem'[session[s].channel].parts[u] =
                 IF ActiveOf(s, u) = {} THEN 0 ELSE CHOOSE i \in ActiveOf(s, u) : TRUE
           /\ \A d \in Channels \ {session[s].channel} : mem'[d] = mem[d]
  BY LoadRefers DEF rows
<1>2. PICK c \in Channels : c = session[s].channel
  BY RowsAre
<1>3. mem[c].session = 0 /\ \A t \in boot.todo : session[t].channel = c => t = s
  BY <1>1, <1>2 DEF Knows, StartKnows
<1>4. boot.todo \subseteq DOMAIN session
  BY DEF WellFormed, BootRefers, BootRecs
<1>5. CASE boot'.pc = "close"
  BY <1>1, <1>5 DEF Knows, StartKnows, SessionsKnown, IntervalsKnown, ActiveSessions, Awaits
<1>6. CASE boot'.pc = "each"
  <2>1. mem'[c].session = s /\ \A d \in Channels \ {c} : mem'[d] = mem[d]
    BY <1>1, <1>2, <1>6
  <2>2. \A t \in boot'.todo : session[t].channel \in Channels \ {c}
    BY <1>1, <1>3, <1>4, RowsAre
  <2>3. StartKnows'
    BY <1>1, <1>6, <2>1, <2>2 DEF Knows, StartKnows
  <2>4. SessionsKnown'
    <3> SUFFICES ASSUME NEW t \in ActiveSessions
                 PROVE  mem'[session[t].channel].session = t \/ t \in boot'.todo
      BY <1>1, <1>6 DEF SessionsKnown, ActiveSessions, Awaits
    <3>1. t \in DOMAIN session /\ t # 0 /\ session[t].channel \in Channels
      BY RowsAre DEF ActiveSessions, WellFormed, RowsRefer
    <3>2. mem[session[t].channel].session = t \/ t \in boot.todo
      BY <1>1 DEF Knows, SessionsKnown, Awaits
    <3> QED
      BY <1>1, <1>3, <2>1, <3>1, <3>2
  <2>5. IntervalsKnown'
    <3> SUFFICES ASSUME NEW i \in DOMAIN interval, NEW d \in Channels,
                        interval[i].active, interval[i].session = mem'[d].session
                 PROVE  mem'[d].parts[interval[i].user] = i
      BY <1>1 DEF IntervalsKnown
    <3>1. PICK u \in Users : u = interval[i].user
      BY RowsAre
    <3>2. CASE d = c
      <4>1. i \in ActiveOf(s, u)
        BY <2>1, <3>1, <3>2 DEF ActiveOf, ActiveIntervals
      <4>2. \A j \in ActiveOf(s, u) : j = i
        BY <4>1 DEF ActiveOf, ActiveIntervals, WellFormed, RowsRefer, Open
      <4>3. mem'[c].parts[u] = CHOOSE j \in ActiveOf(s, u) : TRUE
        BY <1>1, <1>2, <1>6, <4>1
      <4> QED
        BY <3>1, <3>2, <4>1, <4>2, <4>3
    <3>3. CASE d # c
      BY <2>1, <3>3 DEF Knows, IntervalsKnown
    <3> QED
      BY <3>2, <3>3
  <2> QED
    BY <2>3, <2>4, <2>5
<1> QED
  BY <1>1, <1>5, <1>6

LEMMA StartStepKnows ==
    ASSUME WellFormed, Knows, Boot \/ Crash
    PROVE  Knows'
<1>1. RowsRefer /\ boot \in BootRecs /\ BootRefers
  BY DEF WellFormed, BootRefers
<1>2. CASE Crash
  <2>1. boot' = Down /\ mem' = [c \in Channels |-> NoEntry] /\ handler' = [u \in Users |-> Idle] /\ UNCHANGED rows
    BY <1>2 DEF Crash
  <2>2. \A c \in Channels : mem'[c].session = 0
    BY <2>1, NoEntryIs
  <2>3. \A i \in DOMAIN interval : interval[i].session # 0
    BY RowsAre DEF WellFormed, RowsRefer
  <2>4. boot'.pc = "down" /\ \A u \in Users : handler'[u].pc = "idle"
    BY <2>1 DEF Down, Idle
  <2> QED
    BY <2>1, <2>2, <2>3, <2>4 DEF Knows, StartKnows, SessionsKnown, IntervalsKnown, LeaverKnows, rows
<1>3. ASSUME Boot PROVE \A u \in Users : LeaverKnows(u)'
  <2>1. UNCHANGED <<handler, queue>> /\ boot.pc # "up"
    BY <1>3, BootLeaves DEF discord, Boot, ListActive, BootClose, BootPublish, BootMark, ListUntold, Ready, Load, Replay
  <2>2. \A u \in Users : handler[u].pc = "idle"
    BY <2>1 DEF WellFormed, HandlersRefer, HandlerRefers
  <2> QED
    BY <2>1, <2>2 DEF LeaverKnows
<1>4. ASSUME NEW s \in DOMAIN session, Load(s) PROVE Knows'
  BY <1>3, <1>4, LoadKnows DEF Boot, Knows
(* Of the others none writes the memory.                                    *)
<1>5. ASSUME \/ ListActive \/ BootClose \/ BootPublish \/ BootMark \/ ListUntold \/ Ready
             \/ \E s \in DOMAIN session : Replay(s)
      PROVE  /\ RowsClose /\ mem' = mem /\ IntervalsKnown'
             /\ \A t \in ActiveSessions' : t \in ActiveSessions /\ session'[t].channel = session[t].channel
  <2>1. RowsClose /\ mem' = mem
    BY <1>5, StartRefers
  <2>2. IntervalsKnown'
    BY <2>1 DEF Knows, IntervalsKnown, RowsClose, RowsGrow
  <2> QED
    BY <2>1, <2>2 DEF ActiveSessions, RowsClose, RowsGrow
<1>6. boot.todo \subseteq DOMAIN session
  BY <1>1 DEF BootRecs
<1>7. CASE ListActive
  <2>1. /\ boot.pc = "down" /\ boot'.pc = "each" /\ boot'.todo = ActiveSessions /\ ~boot'.replay
        /\ UNCHANGED <<session, interval>>
    BY <1>1, <1>7 DEF ListActive, BootRecs, BootRefers, rows
  <2>2. \A c \in Channels : mem[c].session = 0
    BY <2>1 DEF Knows, StartKnows
  <2>3. \A s \in ActiveSessions : session[s].channel \in Channels
    BY RowsAre DEF ActiveSessions
  <2>4. StartKnows'
    BY <1>1, <1>5, <1>7, <2>1, <2>2, <2>3 DEF StartKnows, RowsRefer
  <2>5. SessionsKnown'
    BY <1>5, <1>7, <2>1 DEF SessionsKnown, Awaits
  <2> QED
    BY <1>3, <1>5, <1>7, <2>4, <2>5 DEF Knows, Boot
<1>8. CASE BootClose
  <2>1. /\ boot.pc = "close" /\ CloseRow(boot.session) /\ boot'.pc = "publish" /\ boot'.todo = boot.todo
        /\ boot'.replay = boot.replay
    BY <1>1, <1>8 DEF BootClose, BootRecs
  <2>2. ~session'[boot.session].active
    BY <1>1, <2>1, RowCloses DEF BootRefers, RowsRefer
  <2>3. StartKnows'
    BY <1>5, <1>6, <1>8, <2>1 DEF Knows, StartKnows, RowsClose, RowsGrow
  <2>4. \A t \in ActiveSessions' : t # boot.session
    BY <2>2 DEF ActiveSessions
  <2>5. SessionsKnown'
    BY <1>5, <1>8, <2>1, <2>4 DEF Knows, SessionsKnown, Awaits
  <2> QED
    BY <1>3, <1>5, <1>8, <2>3, <2>5 DEF Knows, Boot
<1>9. CASE BootPublish \/ BootMark
  <2>1. /\ boot.pc \in {"publish", "mark"} /\ boot'.pc \in {"mark", "each"} /\ boot'.todo = boot.todo
        /\ boot'.replay = boot.replay
    BY <1>1, <1>9 DEF BootPublish, BootMark, BootRecs
  <2>2. StartKnows'
    BY <1>5, <1>6, <1>9, <2>1 DEF Knows, StartKnows, RowsClose, RowsGrow
  <2>3. SessionsKnown'
    BY <1>5, <1>9, <2>1 DEF Knows, SessionsKnown, Awaits
  <2> QED
    BY <1>3, <1>5, <1>9, <2>2, <2>3 DEF Knows, Boot
<1>10. CASE ListUntold \/ Ready \/ \E s \in DOMAIN session : Replay(s)
  <2>1. /\ boot.pc = "each" /\ boot'.pc # "down"
        /\ boot'.replay \/ boot'.pc = "up"
        /\ boot.replay \/ boot.todo = {}
    <3>1. CASE ListUntold
      BY <1>1, <3>1 DEF ListUntold, BootRecs
    <3>2. CASE Ready
      BY <3>2 DEF Ready, Down
    <3>3. CASE \E s \in DOMAIN session : Replay(s)
      BY <1>1, <3>3 DEF Replay, BootRecs
    <3> QED
      BY <1>10, <3>1, <3>2, <3>3
  <2>2. StartKnows'
    BY <2>1 DEF StartKnows
  <2>3. SessionsKnown'
    BY <1>5, <1>10, <2>1 DEF Knows, SessionsKnown, Awaits
  <2> QED
    BY <1>3, <1>5, <1>10, <2>2, <2>3 DEF Knows, Boot
<1> QED
  BY <1>2, <1>4, <1>7, <1>8, <1>9, <1>10 DEF Boot

KnowsRows == spoilt \cap {"lost", "skip"} = {} => Knows

LEMMA KnowledgeKept ==
    ASSUME WellFormed, KnowsRows, [Next]_vars
    PROVE  KnowsRows'
<1> SUFFICES ASSUME Unlost PROVE Knows'
  BY DEF KnowsRows, Unlost
<1>1. Knows
  BY TroublesStay DEF KnowsRows, Unlost
<1>2. CASE UNCHANGED vars
  BY <1>1, <1>2 DEF vars, Knows, StartKnows, SessionsKnown, IntervalsKnown, LeaverKnows, ActiveSessions, Awaits, Event
<1>3. CASE Boot \/ Crash
  BY <1>1, <1>3, StartStepKnows
<1>4. CASE BootSkips
  BY <1>4 DEF BootSkips, Trouble, Unlost
<1>5. CASE Reap \/ ReapFails
  <2>1. RowsClose /\ UNCHANGED <<queue, mem, boot, handler>>
    BY <1>5, ReaperLeaves, ReaperRefersOn DEF discord, tracker
  <2> QED
    BY <1>1, <2>1, ClosingIsKnown, OthersKnow DEF Knows
<1>6. CASE Moves
  <2>1. RowsClose /\ UNCHANGED <<mem, boot, handler>>
    BY <1>6, MovesLeave, SameRowsClose DEF tracker, WellFormed
  <2>2. ASSUME NEW v \in Users PROVE LeaverKnows(v)'
    <3>1. handler'[v] = handler[v] /\ (queue[v] # <<>> => Head(queue'[v]) = Head(queue[v]))
      BY <1>6, <2>1, MovesRefer
    <3>2. handler[v].pc # "idle" => queue[v] # <<>>
      BY DEF WellFormed, HandlersRefer, HandlerRefers
    <3> QED
      BY <1>1, <2>1, <3>1, <3>2 DEF Knows, LeaverKnows, Event
  <2> QED
    BY <1>1, <2>1, <2>2, ClosingIsKnown DEF Knows
<1>7. ASSUME NEW u \in Users, HandlerStep(u) PROVE Knows'
  BY <1>1, <1>7, QuietHandlerKnows, LeaveKnownKnows, CloseSessionKnows, CreateSessionKnows, CreateParticipantKnows
     DEF HandlerStep, Handle
<1> QED
  BY <1>2, <1>3, <1>4, <1>5, <1>6, <1>7, StepsAre

(* Neither insert of a join runs into its unique index: the memory knows     *)
(* every active session and everybody in it, over restarts, retries, closed  *)
(* rows of the reaper and unseen moves, unless an answer was lost or a start *)
(* skipped a session (_join, tracker.py; the two unique indexes,             *)
(* repository.py).                                                           *)
THEOREM JoinsNeverCollide == Spec => []InsertsNeverCollide
<1>1. Init => KnowsRows
  <2> SUFFICES ASSUME Init PROVE Knows
    BY DEF KnowsRows
  <2>1. /\ session = <<>> /\ interval = <<>> /\ mem = [c \in Channels |-> NoEntry] /\ boot.pc = "down"
        /\ \A u \in Users : handler[u].pc = "idle"
    BY DEF Init, Down, Idle
  <2>2. \A c \in Channels : mem[c].session = 0
    BY <2>1, NoEntryIs
  <2> QED
    BY <2>1, <2>2 DEF Knows, StartKnows, SessionsKnown, IntervalsKnown, LeaverKnows
<1>2. WellFormed /\ KnowsRows => InsertsNeverCollide
  <2> SUFFICES ASSUME WellFormed, Knows, NEW u \in Users, handler[u].pc = "join"
               PROVE  LET c == Event(u).to IN
                      IF mem[c].session = 0 THEN ActiveIn(c) = {}
                      ELSE mem[c].parts[u] = 0 => ActiveOf(mem[c].session, u) = {}
    BY DEF KnowsRows, InsertsNeverCollide, At
  <2>1. PICK c \in Channels : c = Event(u).to /\ boot.pc = "up"
    BY AtWork
  <2>2. 0 \notin DOMAIN session /\ 0 \notin DOMAIN interval
    BY DEF WellFormed, RowsRefer
  <2>3. CASE mem[c].session = 0
    BY <2>1, <2>2, <2>3 DEF Knows, SessionsKnown, Awaits, ActiveIn, ActiveSessions
  <2>4. CASE mem[c].session # 0
    BY <2>1, <2>2, <2>4 DEF Knows, IntervalsKnown, ActiveOf, ActiveIntervals
  <2> QED
    BY <2>1, <2>3, <2>4
<1> QED
  BY <1>1, <1>2, KnowledgeKept, FormStands, PTL DEF Spec

=============================================================================
