--------------------------- MODULE SchemaMigrations ---------------------------
(* `migrate up`: runners under one lease apply the migrations in order, each *)
(* step marked in schema_migrations, while the services go on writing.       *)
EXTENDS Naturals, FiniteSets

CONSTANTS
    Runners,
    Last,        \* the number of the last migration
    Unique,      \* the migration with the duplicates (M3), not backward compatible
    None,
    Lease,       \* LOCK_LEASE_SECONDS
    MaxTroubles  \* bound: runs of one migration, runners that die, steps that
                 \* raise, duplicates written

VARIABLES
    lock,     \* schema_lock: [owner, left], left = 0 when there is none or it is over
    status,   \* schema_migrations
    built,    \* the migrations whose indexes, collections or fields exist
    dups,     \* duplicates under the unique key: none, all alike, or not
    version,  \* schema_versions is that of the manifest
    runner,
    troubles

vars == <<lock, status, built, dups, version, runner, troubles>>

Migrations == 1 .. Last
Idle == [pc |-> "idle", known |-> {}, only |-> None, at |-> 0, found |-> "none"]
Trouble == troubles < MaxTroubles /\ troubles' = troubles + 1
Mine(r) == lock.owner = r
Done == {m \in Migrations : status[m] = "done"}

Init ==
    /\ lock = [owner |-> None, left |-> 0]
    /\ status = [m \in Migrations |-> "none"]
    /\ built = {}
    /\ dups \in {"none", "alike", "differ"}
    /\ version = FALSE
    /\ runner = [r \in Runners |-> Idle]
    /\ troubles = 0

Goes(r, pc) == runner' = [runner EXCEPT ![r].pc = pc]

-----------------------------------------------------------------------------
(* The operator runs `up`, all of it or one migration, as long as something *)
(* is left to do.  The statuses are read before the lock is taken. *)
Begin(r) ==
    /\ runner[r].pc = "idle" /\ (Done # Migrations \/ ~version)
    /\ \E only \in Migrations \cup {None} :
        /\ runner' = [runner EXCEPT ![r] = [pc |-> "lock", known |-> Done, only |-> only, at |-> 0, found |-> "none"]]
        /\ IF only = None THEN UNCHANGED troubles ELSE Trouble
    /\ UNCHANGED <<lock, status, built, dups, version>>

(* acquire_lock: the first one, an expired or a released one. *)
Free == lock.left = 0

Acquire(r) ==
    /\ runner[r].pc = "lock"
    /\ \/ Free /\ lock' = [owner |-> r, left |-> Lease] /\ Goes(r, "next")
       \/ ~Free /\ runner' = [runner EXCEPT ![r] = Idle] /\ UNCHANGED lock
    /\ UNCHANGED <<status, built, dups, version, troubles>>

(* The next migration that was asked for and was not done when the statuses *)
(* were read; after the last one, the check of the whole. *)
Left(r) ==
    {m \in Migrations : m > runner[r].at /\ m \notin runner[r].known /\ runner[r].only \in {None, m}}

(* Slip: what a migration has begun is not written down. *)
BeginsUnmarked(m) == UNCHANGED status

BeginsMarked(m) == status' = [status EXCEPT ![m] = "running"]

MarkRunning(r) ==
    /\ runner[r].pc = "next" /\ Left(r) # {}
    /\ LET m == CHOOSE k \in Left(r) : \A j \in Left(r) : k <= j
       IN  /\ BeginsMarked(m)
           /\ runner' = [runner EXCEPT ![r].pc = IF m = Unique THEN "check" ELSE "apply", ![r].at = m]
    /\ UNCHANGED <<lock, built, dups, version, troubles>>

(* What a step that raises leaves. *)
AfterError == "failed"

(* Indexes and collections that exist already are left alone. *)
Apply(r) ==
    /\ runner[r].pc = "apply"
    /\ built' = built \cup {runner[r].at} /\ Goes(r, "applied")
    /\ UNCHANGED <<lock, status, dups, version, troubles>>

(* _dup_groups: documents that differ stop the migration. *)
Check(r) ==
    /\ runner[r].pc = "check"
    /\ \/ dups = "differ" /\ Goes(r, "failed")
       \/ dups # "differ" /\ runner' = [runner EXCEPT ![r].pc = "merge", ![r].found = dups]
    /\ UNCHANGED <<lock, status, built, dups, version, troubles>>

(* What the check has found alike is reduced to one; later ones stay. *)
Merge(r) ==
    /\ runner[r].pc = "merge" /\ Goes(r, "build")
    /\ dups' = IF runner[r].found = "alike" /\ dups = "alike" THEN "none" ELSE dups
    /\ UNCHANGED <<lock, status, built, version, troubles>>

(* createIndex fails over duplicates. *)
Build(r) ==
    /\ runner[r].pc = "build"
    /\ \/ dups = "none" /\ built' = built \cup {Unique} /\ Goes(r, "applied")
       \/ dups # "none" /\ Goes(r, "failed") /\ UNCHANGED built
    /\ UNCHANGED <<lock, status, dups, version, troubles>>

(* A step raises. *)
Raise(r) ==
    /\ runner[r].pc \in {"apply", "check", "merge", "build"} /\ Trouble
    /\ Goes(r, AfterError)
    /\ UNCHANGED <<lock, status, built, dups, version>>

MarkDone(r) ==
    /\ runner[r].pc = "applied" /\ Goes(r, "next")
    /\ status' = [status EXCEPT ![runner[r].at] = "done"]
    /\ UNCHANGED <<lock, built, dups, version, troubles>>

MarkFailed(r) ==
    /\ runner[r].pc = "failed" /\ Goes(r, "release")
    /\ status' = [status EXCEPT ![runner[r].at] = "failed"]
    /\ UNCHANGED <<lock, built, dups, version, troubles>>

(* verify_db, which may find an index of another form, and the version. *)
Verify(r) ==
    /\ runner[r].pc = "next" /\ Left(r) = {} /\ Goes(r, "release")
    /\ \/ version' = TRUE /\ UNCHANGED troubles
       \/ Trouble /\ UNCHANGED version
    /\ UNCHANGED <<lock, status, built, dups>>

Release(r) ==
    /\ runner[r].pc = "release"
    /\ runner' = [runner EXCEPT ![r] = Idle]
    /\ lock' = IF Mine(r) THEN [lock EXCEPT !.left = 0] ELSE lock
    /\ UNCHANGED <<status, built, dups, version, troubles>>

Die(r) ==
    /\ runner[r].pc # "idle" /\ Trouble
    /\ runner' = [runner EXCEPT ![r] = Idle]
    /\ UNCHANGED <<lock, status, built, dups, version>>

(* Time passes; nothing in plan_and_apply calls heartbeat. *)
Expire ==
    /\ lock.left > 0 /\ lock' = [lock EXCEPT !.left = @ - 1]
    /\ UNCHANGED <<status, built, dups, version, runner, troubles>>

(* The web service writes a duplicate while nothing forbids it. *)
WriteDuplicate ==
    /\ Unique \notin built /\ dups # "differ" /\ Trouble
    /\ dups' \in {"alike", "differ"}
    /\ UNCHANGED <<lock, status, built, version, runner>>

(* The operator takes documents that differ apart. *)
Resolve ==
    /\ dups = "differ" /\ dups' = "none"
    /\ UNCHANGED <<lock, status, built, version, runner, troubles>>

Step(r) ==
    \/ Begin(r) \/ Acquire(r) \/ MarkRunning(r) \/ Apply(r) \/ Check(r) \/ Merge(r) \/ Build(r)
    \/ MarkDone(r) \/ MarkFailed(r) \/ Verify(r) \/ Release(r)

Next == (\E r \in Runners : Step(r) \/ Raise(r) \/ Die(r)) \/ Expire \/ WriteDuplicate \/ Resolve

(* A runner goes on until it dies, the operator calls it again as long as   *)
(* something is left, and takes duplicates apart; time passes. *)
Fairness == (\A r \in Runners : WF_vars(Step(r))) /\ WF_vars(Expire) /\ WF_vars(Resolve)

Spec == Init /\ [][Next]_vars
FairSpec == Spec /\ Fairness

-----------------------------------------------------------------------------
TypeOK ==
    /\ lock \in [owner : Runners \cup {None}, left : 0 .. Lease]
    /\ status \in [Migrations -> {"none", "running", "done", "failed"}]
    /\ built \subseteq Migrations
    /\ \A r \in Runners : runner[r].known \subseteq Migrations /\ runner[r].at \in 0 .. Last

(* check_rollback: what blocks a rollback to a version below Unique. *)
Blocked == \E m \in Migrations : m >= Unique /\
    (status[m] \in {"running", "failed"} \/ (m = Unique /\ status[m] = "done"))

(* As soon as the unique index exists, and whatever runners died or ran     *)
(* side by side, a rollback below it is blocked. *)
RollbackIsBlocked == Unique \in built => Blocked

(* What is marked done exists, also after a runner lost its lease. *)
DoneExists == Done \subseteq built

(* Repeated runs bring the schema to its version, for good, and past a      *)
(* runner that died with the lock.  The marks need not stay: a runner that  *)
(* has read the statuses before another one was through runs it all again.  *)
ComesUp == <>[](version /\ built = Migrations)

(* migrate.py:307-308: parallel migrations are not allowed (DB04). *)
OneRunnerApplies ==
    \A r, s \in Runners : r # s =>
        ~(runner[r].pc \in {"apply", "check", "merge", "build"} /\ runner[s].pc \in {"apply", "check", "merge", "build"})
=============================================================================
