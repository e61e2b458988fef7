------------------------- MODULE InviteAttribution -------------------------
(* InviteAttributionController of the gateway: which invite a member came   *)
(* with is told from the difference between the stored snapshot of the      *)
(* invites' uses and one that is fetched when he joins.  The joins take a   *)
(* lock; the 60 s refresh and the refresh of invite events do not.          *)
EXTENDS Naturals, Sequences, FiniteSets

CONSTANTS
    Codes,      \* invite codes
    Vanity,     \* one of them, fetched by a request of its own
    None,
    Handlers,   \* on_member_join handlers that may run at a time
    MaxJoins,   \* bound: members who join
    MaxEvents,  \* bound: invites that are created or deleted
    MaxTroubles \* bound: crashes and failed calls

VARIABLES
    invites,  \* Discord: the invites and their uses
    joined,   \* how many members have joined
    joins,    \* the on_member_join handlers
    lock,     \* _join_locks: the handler that holds the guild's lock, or None
    credited, \* member_join_attributions: exact ones of an invite
    up,
    ready,    \* _ready
    stored,   \* guild_invite_snapshots
    catalog,  \* invite_catalog
    refresh,  \* tasks that refresh the snapshot
    told,     \* invite events that are not handled: <<kind, code>>
    events,   \* how many invites were created or deleted
    gone,     \* history: the invites that were deleted
    auditing, \* setting invite_reconciliation_enabled
    muddled,  \* history: the stored snapshot was not what it should have been
    troubles

vars == <<invites, joined, joins, lock, credited, up, ready, stored, catalog, refresh, told, events, gone, auditing, muddled, troubles>>

Refreshers == {"loop", "event"}
Idle == [pc |-> "idle", got |-> None]
NoJoin == [pc |-> "idle", prev |-> None, got |-> None]
Trouble == troubles < MaxTroubles /\ troubles' = troubles + 1

Init ==
    /\ \E S \in {Codes, {Vanity}} : invites = [c \in S |-> 0]
    /\ joined = 0 /\ joins = [j \in Handlers |-> NoJoin] /\ lock = None
    /\ credited = [c \in Codes |-> 0]
    /\ up = FALSE /\ ready = FALSE /\ stored = None
    /\ catalog = [c \in Codes |-> "unknown"]
    /\ refresh = [t \in Refreshers |-> Idle]
    /\ told = {} /\ events = 0 /\ gone = {} /\ auditing \in BOOLEAN
    /\ muddled = FALSE /\ troubles = 0

Uses(snapshot, c) == IF c \in DOMAIN snapshot THEN snapshot[c] ELSE 0
Without(f, c) == [d \in DOMAIN f \ {c} |-> f[d]]

-----------------------------------------------------------------------------
(* A member joins, with an invite or by a way that counts nowhere. *)
MemberJoins ==
    /\ joined < MaxJoins /\ joined' = joined + 1
    /\ \E c \in DOMAIN invites \cup {None} :
        invites' = IF c = None THEN invites ELSE [invites EXCEPT ![c] = @ + 1]
    /\ \/ ~up /\ UNCHANGED joins
       \/ up /\ \E j \in Handlers : joins[j].pc = "idle" /\ joins' = [joins EXCEPT ![j].pc = "begin"]
    /\ UNCHANGED <<lock, credited, up, ready, stored, catalog, refresh, told, events, gone, auditing, muddled, troubles>>

Happens(kind, c) ==
    /\ events < MaxEvents /\ events' = events + 1
    /\ told' = IF up THEN told \cup {<<kind, c>>} ELSE told
    /\ UNCHANGED <<joined, joins, lock, credited, up, ready, stored, catalog, refresh, auditing, muddled, troubles>>

(* Discord gives out no code twice. *)
InviteCreated ==
    \E c \in Codes \ (DOMAIN invites \cup gone) :
        /\ invites' = [d \in DOMAIN invites \cup {c} |-> IF d = c THEN 0 ELSE invites[d]]
        /\ Happens("create", c) /\ UNCHANGED gone

InviteDeleted ==
    \E c \in DOMAIN invites \ {Vanity} :
        /\ invites' = Without(invites, c)
        /\ Happens("delete", c) /\ gone' = gone \cup {c}

(* _fetch_current_snapshot: a failed request for the vanity invite leaves   *)
(* it out, any other failure leaves nothing. *)
Fetched(got, failed) ==
    \/ got = invites /\ failed = 0
    \/ got = None /\ failed = 1
    \/ Vanity \in DOMAIN invites /\ got = Without(invites, Vanity) /\ failed = 1

Charged(failed) == troubles + failed <= MaxTroubles /\ troubles' = troubles + failed

-----------------------------------------------------------------------------
(* upsert_guild_invite_snapshot takes what it is given. *)
Older(got) == stored # None /\ \E c \in DOMAIN invites \cap DOMAIN stored : Uses(got, c) < stored[c]
Store(got) ==
    /\ stored' = got
    /\ muddled' = (muddled \/ Older(got) \/ Vanity \notin DOMAIN got)

(* sync_invite_catalog_from_snapshot: what is seen is not deleted. *)
Synced(got) == [c \in Codes |-> IF c \in DOMAIN got THEN "live" ELSE catalog[c]]

(* refresh_snapshot, every 60 s *)
RefreshAsks ==
    /\ up /\ refresh["loop"].pc = "idle"
    /\ refresh' = [refresh EXCEPT !["loop"] = [pc |-> "asked", got |-> None]]
    /\ UNCHANGED <<invites, joined, joins, lock, credited, up, ready, stored, catalog, told, events, gone, auditing, muddled, troubles>>

(* on_invite_create and on_invite_delete; events that come while another is *)
(* handled wait for it here. *)
HandleEvent ==
    /\ up /\ refresh["event"].pc = "idle"
    /\ \E e \in told :
        /\ told' = told \ {e}
        /\ catalog' = [catalog EXCEPT ![e[2]] = IF e[1] = "create" THEN "live" ELSE "deleted"]
    /\ refresh' = [refresh EXCEPT !["event"] = [pc |-> "asked", got |-> None]]
    /\ UNCHANGED <<invites, joined, joins, lock, credited, up, ready, stored, events, gone, auditing, muddled, troubles>>

RefreshAnswered(t) ==
    /\ refresh[t].pc = "asked"
    /\ \E got \in {invites, None, Without(invites, Vanity)}, failed \in {0, 1} :
        /\ Fetched(got, failed) /\ Charged(failed)
        /\ refresh' = [refresh EXCEPT ![t] = [pc |-> "answered", got |-> got]]
    /\ UNCHANGED <<invites, joined, joins, lock, credited, up, ready, stored, catalog, told, events, gone, auditing, muddled>>

(* _seed_guild *)
RefreshStores(t) ==
    /\ refresh[t].pc = "answered"
    /\ refresh' = [refresh EXCEPT ![t] = Idle]
    /\ LET got == refresh[t].got IN
        IF got = None THEN ready' = FALSE /\ UNCHANGED <<stored, catalog, muddled>>
        ELSE /\ Store(got)
             /\ catalog' = Synced(got)
             /\ ready' = TRUE
    /\ UNCHANGED <<invites, joined, joins, lock, credited, up, told, events, gone, auditing, troubles>>

Audited == [c \in Codes |-> IF c \in gone THEN "deleted" ELSE catalog[c]]

(* _reconcile_metadata_guild marks what the audit log has as deleted. *)
Audit ==
    /\ up /\ auditing
    /\ catalog' = Audited
    /\ UNCHANGED <<invites, joined, joins, lock, credited, up, ready, stored, refresh, told, events, gone, auditing, muddled, troubles>>

-----------------------------------------------------------------------------
(* append_member_join_attribution; only the exact ones are counted here. *)
Recorded(j, next, code) ==
    /\ joins' = [joins EXCEPT ![j] = next]
    /\ credited' = IF code = None THEN credited ELSE [credited EXCEPT ![code] = @ + 1]

(* Slip: a stored snapshot is enough. *)
SeededByStore == stored # None

(* _ready is not kept over a restart. *)
Seeded == ready /\ stored # None

(* _attribute_join_locked up to the request *)
JoinBegin(j) ==
    /\ joins[j].pc = "begin" /\ lock = None
    /\ IF Seeded
       THEN /\ joins' = [joins EXCEPT ![j].pc = "asked", ![j].prev = stored]
            /\ lock' = j
            /\ UNCHANGED credited
       ELSE Recorded(j, NoJoin, None) /\ UNCHANGED lock
    /\ UNCHANGED <<invites, joined, up, ready, stored, catalog, refresh, told, events, gone, auditing, muddled, troubles>>

JoinAnswered(j) ==
    /\ joins[j].pc = "asked"
    /\ \E got \in {invites, None, Without(invites, Vanity)}, failed \in {0, 1} :
        /\ Fetched(got, failed) /\ Charged(failed)
        /\ joins' = [joins EXCEPT ![j].pc = "answered", ![j].got = got]
    /\ UNCHANGED <<invites, joined, lock, credited, up, ready, stored, catalog, refresh, told, events, gone, auditing, muddled>>

Increased(prev, got) == {c \in DOMAIN got : got[c] > Uses(prev, c)}

(* _build_attribution: one candidate is exact, several are ambiguous. *)
Attributed(prev, got) ==
    IF Cardinality(Increased(prev, got)) = 1 THEN CHOOSE c \in Increased(prev, got) : TRUE ELSE None

(* async with lock *)
Unlocked(got) == None

(* The record is written and projected; a failed write is passed over. *)
JoinDecides(j) ==
    /\ joins[j].pc = "answered"
    /\ LET got == joins[j].got
           code == Attributed(joins[j].prev, got)
       IN IF got = None
          THEN Recorded(j, NoJoin, None) /\ lock' = Unlocked(got) /\ UNCHANGED troubles
          ELSE /\ \/ Recorded(j, [joins[j] EXCEPT !.pc = "publishing"], code) /\ UNCHANGED troubles
                  \/ Recorded(j, [joins[j] EXCEPT !.pc = "publishing"], None) /\ Trouble
               /\ UNCHANGED lock
    /\ UNCHANGED <<invites, joined, up, ready, stored, catalog, refresh, told, events, gone, auditing, muddled>>

(* It is published, then the snapshot is stored; a publish that raises      *)
(* leaves the snapshot as it was. *)
JoinPublishes(j) ==
    /\ joins[j].pc = "publishing"
    /\ joins' = [joins EXCEPT ![j] = NoJoin]
    /\ lock' = Unlocked(joins[j].got)
    /\ \/ /\ Store(joins[j].got) /\ catalog' = Synced(joins[j].got)
          /\ UNCHANGED troubles
       \/ /\ Trouble /\ muddled' = TRUE
          /\ UNCHANGED <<stored, catalog>>
    /\ UNCHANGED <<invites, joined, credited, up, ready, refresh, told, events, gone, auditing>>

-----------------------------------------------------------------------------
(* on_ready seeds; the loop asks again if that fails. *)
Start ==
    /\ ~up /\ up' = TRUE
    /\ refresh' = [refresh EXCEPT !["loop"] = [pc |-> "asked", got |-> None]]
    /\ UNCHANGED <<invites, joined, joins, lock, credited, ready, stored, catalog, told, events, gone, auditing, muddled, troubles>>

Crash ==
    /\ up /\ Trouble
    /\ up' = FALSE /\ ready' = FALSE /\ lock' = None
    /\ refresh' = [t \in Refreshers |-> Idle]
    /\ joins' = [j \in Handlers |-> NoJoin]
    /\ told' = {}
    /\ UNCHANGED <<invites, joined, credited, stored, catalog, events, gone, auditing, muddled>>

RefreshStep(t) == RefreshAnswered(t) \/ RefreshStores(t)
JoinStep == \E j \in Handlers : JoinBegin(j) \/ JoinAnswered(j) \/ JoinDecides(j) \/ JoinPublishes(j)

Next ==
    \/ MemberJoins \/ InviteCreated \/ InviteDeleted \/ HandleEvent \/ RefreshAsks \/ Audit \/ JoinStep \/ Start \/ Crash
    \/ \E t \in Refreshers : RefreshStep(t)

Spec == Init /\ [][Next]_vars

(* Discord answers, the loop runs every 60 s, the audit every 300 s. *)
FairSpec == Spec /\ WF_vars(Start) /\ WF_vars(JoinStep) /\ WF_vars(HandleEvent) /\ WF_vars(Audit)
                 /\ WF_vars(RefreshAsks) /\ \A t \in Refreshers : WF_vars(RefreshStep(t))

-----------------------------------------------------------------------------
Snapshots == UNION {[S -> 0 .. MaxJoins] : S \in SUBSET Codes}

TypeOK ==
    /\ invites \in Snapshots /\ stored \in Snapshots \cup {None}
    /\ catalog \in [Codes -> {"unknown", "live", "deleted"}]
    /\ lock \in Handlers \cup {None}
    /\ \A j \in Handlers :
        /\ joins[j].pc \in {"idle", "begin", "asked", "answered", "publishing"}
        /\ joins[j].pc \in {"asked", "answered", "publishing"} <=> lock = j

(* A use of an invite is credited to one member at most, over concurrent    *)
(* joins, refreshes and restarts, unless the stored snapshot was muddled:   *)
(* an older one replaced a newer, the vanity invite was left out of one, or *)
(* one was not stored after its record had been written. *)
CreditedOnce ==
    muddled \/ \A c \in DOMAIN invites : credited[c] <= invites[c]

(* Every handler of a join comes to its end: no crash, failure or order of  *)
(* the handlers leaves the lock taken. *)
EveryJoinTold == <>[](lock = None /\ \A j \in Handlers : joins[j].pc = "idle")

(* Whatever overtook whatever, in the end the snapshot is Discord's, and,   *)
(* with the audit enabled, deleted invites are deleted in the catalog. *)
CatchesUp ==
    <>[](/\ stored = invites
         /\ auditing => \A c \in gone : catalog[c] = "deleted")
=============================================================================
