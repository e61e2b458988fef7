--------------------------- MODULE VoicePresence ---------------------------
(* VoicePresenceTracker: the evidence that a member has been in voice       *)
(* without interruption since before a deadline.  Callbacks of discord.py   *)
(* are tasks that start in the order they were spawned; observe, seed and   *)
(* proves_presence then take turns at one asyncio lock and await Mongo      *)
(* while they hold it.  on_disconnect takes no lock.                        *)
EXTENDS Naturals, Sequences, FiniteSets

CONSTANTS
    Users,
    Channels,
    None,        \* no channel
    Due,         \* the deadline the executor asks about
    MaxClock,    \* bound: ticks
    MaxMoves,    \* bound: voice transitions
    MaxDrops,    \* bound: lost connections
    MaxTroubles  \* bound: failed writes

VARIABLES
    clock,
    truth,    \* where each user is and since when without interruption
    cache,    \* the channel in the client's voice states
    conn,     \* the client is "off", "resuming" or "on"
    missed,   \* transitions Discord has not sent yet
    spawned,  \* callbacks whose tasks have not started
    queue,    \* tasks at the lock, the first one holds it
    dirty,    \* _dirty
    gen,      \* _generation
    ready,    \* _ready
    states,   \* _states
    stored,   \* voice_presence_observations
    verdict,  \* history: the last answer, and what was so when it was asked
    moves, drops, troubles

vars == <<clock, truth, cache, conn, missed, spawned, queue, dirty, gen, ready, states,
          stored, verdict, moves, drops, troubles>>
outside == <<clock, truth, cache, conn, missed, moves, drops>>
evidence == <<gen, ready, states, stored>>

NoObservation == [ch |-> None, since |-> 0, at |-> 0, gen |-> 0]
NoAnswer == [yes |-> FALSE, real |-> TRUE]

Init ==
    /\ clock = 0
    /\ truth \in [Users -> [ch : Channels \cup {None}, since : {0}]]
    /\ cache = [u \in Users |-> None]
    /\ conn = "off"
    /\ missed = <<>> /\ spawned = <<>> /\ queue = <<>>
    /\ dirty = [u \in Users |-> 0]
    /\ gen = 0 /\ ready = FALSE
    /\ states = [u \in Users |-> NoObservation]
    /\ stored = [u \in Users |-> NoObservation]
    /\ verdict = NoAnswer
    /\ moves = 0 /\ drops = 0 /\ troubles = 0

Observation(u, before, after) == [kind |-> "observe", user |-> u, before |-> before, after |-> after]
Seeding == [kind |-> "seed"]
Losing == [kind |-> "disconnect"]

(* discord.py changes the cache and spawns the callback at once.  A seed     *)
(* that iterates the dictionary sees the change, and meets a user who comes *)
(* back at the end again. *)
Seen(t, u, ch) ==
    IF t.kind # "seed" \/ ~t.live THEN t
    ELSE [t EXCEPT !.view[u] = ch, !.visited = IF ch = None THEN @ \ {u} ELSE @]

Arrives(event) ==
    /\ cache' = [cache EXCEPT ![event.user] = event.after]
    /\ spawned' = Append(spawned, event)
    /\ queue' = [i \in DOMAIN queue |-> Seen(queue[i], event.user, event.after)]

-----------------------------------------------------------------------------
(* The world: the clock, the members, the connection. *)
Tick ==
    /\ clock < MaxClock
    /\ clock' = clock + 1
    /\ UNCHANGED <<truth, cache, conn, missed, spawned, queue, dirty, evidence, verdict, moves, drops, troubles>>

(* A user joins, leaves or moves. *)
Move(u) ==
    /\ moves < MaxMoves
    /\ moves' = moves + 1
    /\ \E ch \in (Channels \cup {None}) \ {truth[u].ch} :
           /\ truth' = [truth EXCEPT ![u] = [ch |-> ch, since |-> IF @.ch = None THEN clock ELSE @.since]]
           /\ IF conn = "on" THEN Arrives(Observation(u, truth[u].ch, ch)) /\ UNCHANGED missed
              ELSE missed' = Append(missed, Observation(u, truth[u].ch, ch)) /\ UNCHANGED <<cache, spawned, queue>>
    /\ UNCHANGED <<clock, conn, dirty, evidence, verdict, drops, troubles>>

(* on_disconnect is spawned. *)
Drop ==
    /\ conn = "on" /\ drops < MaxDrops
    /\ conn' = "off" /\ drops' = drops + 1
    /\ spawned' = Append(spawned, Losing)
    /\ UNCHANGED <<clock, truth, cache, missed, queue, dirty, evidence, verdict, moves, troubles>>

(* The session resumes: what was missed is replayed, then on_resumed. *)
Resume ==
    /\ conn = "off" /\ drops > 0
    /\ conn' = "resuming"
    /\ UNCHANGED <<clock, truth, cache, missed, spawned, queue, dirty, evidence, verdict, moves, drops, troubles>>

Replay ==
    /\ conn = "resuming"
    /\ IF missed = <<>>
       THEN conn' = "on" /\ spawned' = Append(spawned, Seeding) /\ UNCHANGED <<cache, queue, missed>>
       ELSE Arrives(Head(missed)) /\ missed' = Tail(missed) /\ UNCHANGED conn
    /\ UNCHANGED <<clock, truth, dirty, evidence, verdict, moves, drops, troubles>>

(* A new session: the guilds are new objects, then on_ready.  A seed under  *)
(* way keeps the old ones. *)
Identify ==
    /\ conn = "off"
    /\ conn' = "on"
    /\ cache' = [u \in Users |-> truth[u].ch]
    /\ queue' = [i \in DOMAIN queue |-> IF queue[i].kind = "seed" THEN [queue[i] EXCEPT !.live = FALSE] ELSE queue[i]]
    /\ spawned' = Append(spawned, Seeding)
    /\ missed' = <<>>
    /\ UNCHANGED <<clock, truth, dirty, evidence, verdict, moves, drops, troubles>>

-----------------------------------------------------------------------------
(* disconnected: a new generation, and no evidence. *)
Disconnected ==
    /\ ready' = FALSE
    /\ gen' = gen + 1
    /\ states' = [u \in Users |-> NoObservation]
    /\ UNCHANGED stored

(* A transition makes its user dirty before it waits for the lock. *)
Marked(u) == [dirty EXCEPT ![u] = @ + 1]

StartTask ==
    /\ spawned # <<>>
    /\ spawned' = Tail(spawned)
    /\ LET t == Head(spawned) IN
       \/ /\ t.kind = "disconnect"
          /\ Disconnected /\ UNCHANGED <<queue, dirty>>
       \/ /\ t.kind = "seed"
          /\ Disconnected
          /\ queue' = Append(queue, [kind |-> "seed", pc |-> "waiting", gen |-> gen', now |-> 0,
                                     live |-> TRUE, view |-> cache, size |-> 0, visited |-> {}, user |-> None, doc |-> NoObservation])
          /\ UNCHANGED dirty
       \/ /\ t.kind = "observe"
          /\ dirty' = Marked(t.user)
          /\ queue' = Append(queue, [kind |-> "observe", pc |-> "waiting", user |-> t.user,
                                     before |-> t.before, after |-> t.after, doc |-> NoObservation])
          /\ UNCHANGED evidence
    /\ UNCHANGED <<outside, verdict, troubles>>

-----------------------------------------------------------------------------
Holder == Head(queue)
Holds(kind, pc) == queue # <<>> /\ Holder.kind = kind /\ Holder.pc = pc

(* Slip: memory keeps the last observation until the write succeeds. *)
Kept(u) == states

Forgotten(u) == [states EXCEPT ![u] = NoObservation]

(* _persist: memory is emptied, the document is built with the generation   *)
(* of this moment, then written. *)
Writing(task, u, ch, since, at) ==
    /\ states' = Forgotten(u)
    /\ queue' = <<[task EXCEPT !.pc = "writing", !.doc = [ch |-> ch, since |-> since, at |-> at, gen |-> gen]]>>
                \o Tail(queue)

Written(u) ==
    /\ stored' = [stored EXCEPT ![u] = Holder.doc]
    /\ states' = [states EXCEPT ![u] = Holder.doc]

(* A move keeps the stay only if its start was observed. *)
Since(u, before, after) ==
    IF before # None /\ after # None /\ states[u].ch = before THEN states[u].since ELSE clock

(* observe has the lock. *)
ObserveBegin ==
    /\ Holds("observe", "waiting")
    /\ LET t == Holder IN
       IF ready
       THEN Writing(t, t.user, t.after, Since(t.user, t.before, t.after), clock) /\ UNCHANGED dirty
       ELSE /\ queue' = Tail(queue)
            /\ dirty' = [dirty EXCEPT ![t.user] = @ - 1]
            /\ UNCHANGED states
    /\ UNCHANGED <<outside, spawned, gen, ready, stored, verdict, troubles>>

Cleaned(u, ok) == [dirty EXCEPT ![u] = @ - 1]

(* The write succeeds, or raises with or without effect. *)
ObserveEnd ==
    /\ Holds("observe", "writing")
    /\ \/ Written(Holder.user) /\ dirty' = Cleaned(Holder.user, TRUE) /\ UNCHANGED troubles
       \/ /\ troubles < MaxTroubles /\ troubles' = troubles + 1
          /\ stored' \in {stored, [stored EXCEPT ![Holder.user] = Holder.doc]}
          /\ dirty' = Cleaned(Holder.user, FALSE)
          /\ UNCHANGED states
    /\ queue' = Tail(queue)
    /\ UNCHANGED <<outside, spawned, gen, ready, verdict>>

(* seed has the lock: one instant for the whole snapshot. *)
InVoice == {u \in Users : Holder.view[u] # None}

SeedBegin ==
    /\ Holds("seed", "waiting")
    /\ queue' = <<[Holder EXCEPT !.pc = "iterating", !.now = clock, !.size = Cardinality(InVoice)]>> \o Tail(queue)
    /\ UNCHANGED <<outside, spawned, dirty, evidence, verdict, troubles>>

(* The dictionary is the live one: a change of its size ends the seed.  *)
SeedNext ==
    /\ Holds("seed", "iterating")
    /\ Cardinality(InVoice) = Holder.size
    /\ \E u \in InVoice \ Holder.visited :
           Writing([Holder EXCEPT !.user = u, !.visited = @ \cup {u}], u, Holder.view[u], Holder.now, Holder.now)
    /\ UNCHANGED <<outside, spawned, dirty, gen, ready, stored, verdict, troubles>>

SeedWritten ==
    /\ Holds("seed", "writing")
    /\ \/ /\ Written(Holder.user)
          /\ queue' = <<[Holder EXCEPT !.pc = "iterating", !.doc = NoObservation]>> \o Tail(queue)
          /\ UNCHANGED troubles
       \/ /\ troubles < MaxTroubles /\ troubles' = troubles + 1
          /\ stored' \in {stored, [stored EXCEPT ![Holder.user] = Holder.doc]}
          /\ queue' = Tail(queue)
          /\ UNCHANGED states
    /\ UNCHANGED <<outside, spawned, dirty, gen, ready, verdict>>

SnapshotStands == gen = Holder.gen

(* The iteration is over, or broken off by a RuntimeError. *)
SeedEnd ==
    /\ Holds("seed", "iterating")
    /\ \/ /\ Cardinality(InVoice) = Holder.size /\ InVoice \subseteq Holder.visited
          /\ ready' = (ready \/ SnapshotStands)
       \/ Cardinality(InVoice) # Holder.size /\ UNCHANGED ready
    /\ queue' = Tail(queue)
    /\ UNCHANGED <<outside, spawned, dirty, gen, states, stored, verdict, troubles>>

-----------------------------------------------------------------------------
(* proves_presence, asked by the executor about a member it sees in a channel. *)
Proving == \E i \in DOMAIN queue : queue[i].kind = "prove"

Ask(u) ==
    /\ ~Proving
    /\ clock >= Due /\ cache[u] # None
    /\ ready /\ dirty[u] = 0
    /\ queue' = Append(queue, [kind |-> "prove", pc |-> "waiting", user |-> u, live |-> cache[u],
                               since |-> 0, at |-> 0, real |-> FALSE])
    /\ verdict' = NoAnswer
    /\ UNCHANGED <<outside, spawned, dirty, evidence, troubles>>

(* What can be known: no transition of the user waits to be told of. *)
Told(u) ==
    /\ \A i \in DOMAIN spawned : spawned[i].kind # "seed" /\ (spawned[i].kind = "observe" => spawned[i].user # u)
    /\ \A i \in DOMAIN missed : missed[i].user # u

InVoiceSinceDue(u, live) == truth[u].ch = live /\ truth[u].since < Due

Answer(yes) == queue' = Tail(queue) /\ verdict' = [yes |-> yes, real |-> Holder.real]

(* Slip: no second look at dirty. *)
StillCleanUnchecked(u) == ready

StillClean(u) == ready /\ dirty[u] = 0

ProveBegin ==
    /\ Holds("prove", "waiting")
    /\ LET u == Holder.user IN
       IF StillClean(u)
       THEN /\ queue' = <<[Holder EXCEPT !.pc = "leasing",
                                         !.real = Told(u) => InVoiceSinceDue(u, Holder.live)]>> \o Tail(queue)
            /\ UNCHANGED verdict
       ELSE Answer(FALSE)
    /\ UNCHANGED <<outside, spawned, dirty, evidence, troubles>>

(* The lease check has come back: the memory is looked at. *)
LocalProof(o, live) == o.ch = live /\ o.gen = gen /\ o.since < Due

ProveLocal ==
    /\ Holds("prove", "leasing")
    /\ LET o == states[Holder.user] IN
       \/ /\ LocalProof(o, Holder.live)
          /\ queue' = <<[Holder EXCEPT !.pc = "finding", !.since = o.since, !.at = o.at]>> \o Tail(queue)
          /\ UNCHANGED verdict
       \/ ~LocalProof(o, Holder.live) /\ Answer(FALSE)
       \/ Answer(FALSE)  \* SingleWriterLeaseLost
    /\ UNCHANGED <<outside, spawned, dirty, evidence, troubles>>

(* The document must say the same. *)
ProveStored ==
    /\ Holds("prove", "finding")
    /\ LET d == stored[Holder.user] IN
       Answer(d.gen = gen /\ d.ch = Holder.live /\ d.since = Holder.since /\ d.at = Holder.at)
    /\ UNCHANGED <<outside, spawned, dirty, evidence, troubles>>

-----------------------------------------------------------------------------
Tasks == \/ StartTask \/ ObserveBegin \/ ObserveEnd
         \/ SeedBegin \/ SeedNext \/ SeedWritten \/ SeedEnd
         \/ ProveBegin \/ ProveLocal \/ ProveStored

Next == \/ Tick \/ Drop \/ Resume \/ Replay \/ Identify
        \/ \E u \in Users : Move(u) \/ Ask(u)
        \/ Tasks

Spec == Init /\ [][Next]_vars

-----------------------------------------------------------------------------
TypeOK ==
    /\ truth \in [Users -> [ch : Channels \cup {None}, since : 0 .. MaxClock]]
    /\ cache \in [Users -> Channels \cup {None}]
    /\ \A u \in Users :
         dirty[u] = Cardinality({i \in DOMAIN queue : queue[i].kind = "observe" /\ queue[i].user = u})
    /\ gen \in Nat /\ ready \in BOOLEAN
    /\ states \in [Users -> [ch : Channels \cup {None}, since : 0 .. MaxClock, at : 0 .. MaxClock, gen : 0 .. gen]]
    /\ stored \in [Users -> [ch : Channels \cup {None}, since : 0 .. MaxClock, at : 0 .. MaxClock, gen : 0 .. gen]]

(* A proof that says yes is right: when its task looked at dirty under the  *)
(* lock the user had been in voice without interruption since before the    *)
(* deadline and was in the live channel, unless news of the user had not    *)
(* even become a task (voice_presence.py: a worker cannot mistake a         *)
(* persisted pre-leave observation for current evidence). *)
YesIsReal == verdict.yes => verdict.real

(* Once every callback is through, what is believed of a user in voice is   *)
(* so: the channel, and no longer a stay than the real one. *)
AtRestTruthful ==
    (conn = "on" /\ ready /\ spawned = <<>> /\ queue = <<>>) =>
        \A u \in Users : (cache[u] # None /\ states[u].ch # None /\ states[u].gen = gen) =>
            truth[u].ch = states[u].ch /\ truth[u].since <= states[u].since
=============================================================================
