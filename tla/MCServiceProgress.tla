--------------------------- MODULE MCServiceProgress -------------------------
(* What must come to an end in the services: rows of the journal, calls of  *)
(* the inbox, sleep timers, summaries, members who rejoin, jobs and          *)
(* migrations.  The parts are independent here: a behaviour is about    *)
(* one of them, the others stay in their first state.                       *)
EXTENDS MCEventSweep

CONSTANT None

VARIABLES
    part,  \* which of the systems this behaviour is about
    inbInbox, inbExpired, inbCall, inbLastToken, inbHandled, inbClaims,
    inbCrashes, inbSlow, inbBlocks,
    timerDoc, timerRipe, timerAudit, timerCall, timerGate, timerLease,
    timerPhase, timerPatched, timerLanded, timerChanges, timerIssued,
    timerStray, timerTroubles,
    cardDest, cardRow, cardClosed, cardAnnounced, cardWriter, cardGateway,
    cardCards, cardUnsure, cardSettings, cardTroubles,
    mbrAspect, mbrGuild, mbrHere, mbrHas, mbrGone, mbrUp, mbrCache,
    mbrEvents, mbrDoc, mbrTasks, mbrOwed, mbrMoves, mbrTroubles,
    watTrusted, watSubs, watCommand, watLeave, watHandler, watCrashes,
    ctlConfig, ctlJob, ctlQueue, ctlUp, ctlReady, ctlHandler, ctlSettings,
    ctlCached, ctlDid, ctlDropped, ctlTroubles,
    schLock, schStatus, schBuilt, schDups, schVersion, schRunner, schTroubles

(* The restore is on, with roles it refuses or an auto role, or off. *)
MCGuilds == {[restore |-> TRUE, unsafe |-> {"r2"}, auto |-> None],
             [restore |-> TRUE, unsafe |-> {}, auto |-> "r2"],
             [restore |-> FALSE, unsafe |-> {}, auto |-> None]}

Inbox == INSTANCE EventInbox WITH
    Journalled <- {"e"}, Orphans <- {}, Poison <- {}, NoEvent <- None,
    Calls <- {"c1", "c2"}, MaxDeliver <- 2, MaxCrashes <- 1, MaxSlow <- 1,
    MaxBlocks <- 1, inbox <- inbInbox, expired <- inbExpired,
    call <- inbCall, lastToken <- inbLastToken, handled <- inbHandled,
    claims <- inbClaims, crashes <- inbCrashes, slow <- inbSlow,
    blocks <- inbBlocks

Timers == INSTANCE SleepTimer WITH
    Gateways <- {"g1", "g2"}, Calls <- {"c"}, Requests <- {"set"},
    ReqOf <- [c \in {"c"} |-> "set"], ActOf <- [c \in {"c"} |-> "set"],
    Nothing <- None, MaxCas <- 2, MaxRecent <- 2, MaxPending <- 2,
    MaxFences <- 2, MaxTroubles <- 2, doc <- timerDoc, ripe <- timerRipe,
    audit <- timerAudit, call <- timerCall, gate <- timerGate,
    lease <- timerLease, phase <- timerPhase, patched <- timerPatched,
    landed <- timerLanded, changes <- timerChanges, issued <- timerIssued,
    stray <- timerStray, troubles <- timerTroubles

Summary == INSTANCE SummaryDelivery WITH
    Channels <- {"a", "b"}, None <- None, MaxDeliver <- 2, SendTries <- 2,
    MaxSettings <- 2, MaxTroubles <- 2, dest <- cardDest, row <- cardRow,
    closed <- cardClosed, announced <- cardAnnounced, writer <- cardWriter,
    gateway <- cardGateway, cards <- cardCards, unsure <- cardUnsure,
    settings <- cardSettings, troubles <- cardTroubles

Members == INSTANCE MemberRestore WITH
    Names <- {"r1", "r2"}, Guilds <- MCGuilds, None <- None, MaxMoves <- 3,
    MaxTroubles <- 1, aspect <- mbrAspect, guild <- mbrGuild,
    here <- mbrHere, has <- mbrHas, gone <- mbrGone, up <- mbrUp,
    cache <- mbrCache, events <- mbrEvents, doc <- mbrDoc, tasks <- mbrTasks,
    owed <- mbrOwed, moves <- mbrMoves, troubles <- mbrTroubles

Watch == INSTANCE TrustedWatchers WITH
    Watchers <- {"w"}, Targets <- {"t"}, None <- None, MaxCrashes <- 1,
    trusted <- watTrusted, subs <- watSubs, command <- watCommand,
    leave <- watLeave, handler <- watHandler, crashes <- watCrashes

Control == INSTANCE ControlPlane WITH
    Jobs <- {"j1", "j2"}, Voice <- {"common"}, Others <- {"other"},
    None <- None, MaxTroubles <- 2, config <- ctlConfig, job <- ctlJob,
    queue <- ctlQueue, up <- ctlUp, ready <- ctlReady, handler <- ctlHandler,
    settings <- ctlSettings, cached <- ctlCached, did <- ctlDid,
    dropped <- ctlDropped, troubles <- ctlTroubles

Schema == INSTANCE SchemaMigrations WITH
    Runners <- {"m1", "m2"}, Last <- 3, Unique <- 2, None <- None,
    Lease <- 1, MaxTroubles <- 1, lock <- schLock, status <- schStatus,
    built <- schBuilt, dups <- schDups, version <- schVersion,
    runner <- schRunner, troubles <- schTroubles

inbVars == <<inbInbox, inbExpired, inbCall, inbLastToken, inbHandled,
    inbClaims, inbCrashes, inbSlow, inbBlocks>>
timerVars == <<timerDoc, timerRipe, timerAudit, timerCall, timerGate,
    timerLease, timerPhase, timerPatched, timerLanded, timerChanges,
    timerIssued, timerStray, timerTroubles>>
cardVars == <<cardDest, cardRow, cardClosed, cardAnnounced, cardWriter,
    cardGateway, cardCards, cardUnsure, cardSettings, cardTroubles>>
mbrVars == <<mbrAspect, mbrGuild, mbrHere, mbrHas, mbrGone, mbrUp, mbrCache,
    mbrEvents, mbrDoc, mbrTasks, mbrOwed, mbrMoves, mbrTroubles>>
watVars == <<watTrusted, watSubs, watCommand, watLeave, watHandler,
    watCrashes>>
ctlVars == <<ctlConfig, ctlJob, ctlQueue, ctlUp, ctlReady, ctlHandler,
    ctlSettings, ctlCached, ctlDid, ctlDropped, ctlTroubles>>
schVars == <<schLock, schStatus, schBuilt, schDups, schVersion, schRunner,
    schTroubles>>
ProgressVars == <<part, vars, inbVars, timerVars, cardVars, mbrVars, watVars,
    ctlVars, schVars>>

ProgressInit ==
    /\ part \in {"sweep", "inbox", "timers", "summary", "members", "watchers", "control", "schema"}
    /\ Init /\ Inbox!Init /\ Timers!Init /\ Summary!Init /\ Members!Init /\ Watch!Init /\ Control!Init /\ Schema!Init
    /\ part # "members" => mbrAspect = "roles" /\ mbrGuild.auto = "r2"
    /\ part # "schema" => schDups = "none"

(* The part this behaviour is about takes the steps. *)
ProgressNext ==
    /\ UNCHANGED part
    /\ IF part = "sweep" THEN Next ELSE UNCHANGED vars
    /\ IF part = "inbox" THEN Inbox!Next ELSE UNCHANGED inbVars
    /\ IF part = "timers" THEN Timers!Next ELSE UNCHANGED timerVars
    /\ IF part = "summary" THEN Summary!Next ELSE UNCHANGED cardVars
    /\ IF part = "members" THEN Members!Next ELSE UNCHANGED mbrVars
    /\ IF part = "watchers" THEN Watch!Next ELSE UNCHANGED watVars
    /\ IF part = "control" THEN Control!Next ELSE UNCHANGED ctlVars
    /\ IF part = "schema" THEN Schema!Next ELSE UNCHANGED schVars

(* The fairness of each module, for the part it is about.                   *)
ProgressSpec ==
    /\ ProgressInit /\ [][ProgressNext]_ProgressVars
    /\ WF_vars(part = "sweep" /\ Sweep)
    /\ \A c \in {"c1", "c2"} : WF_inbVars(part = "inbox" /\ Inbox!CallStep(c))
    /\ WF_inbVars(part = "inbox" /\ Inbox!AbandonedLeaseExpires("e"))
    /\ WF_inbVars(part = "inbox" /\ \E c \in {"c1", "c2"} : Inbox!Deliver(c, "e"))
    /\ WF_timerVars(part = "timers" /\ Timers!FallDue)
    /\ \A g \in {"g1", "g2"} :
         /\ WF_timerVars(part = "timers" /\ ~Timers!Served /\ Timers!Start(g))
         /\ WF_timerVars(part = "timers" /\ Timers!ClaimCheck(g))
         /\ WF_timerVars(part = "timers" /\ Timers!ProjectRead(g))
         /\ WF_timerVars(part = "timers" /\ Timers!Continue(g))
    /\ WF_cardVars(part = "summary" /\ Summary!Configure)
    /\ WF_cardVars(part = "summary" /\ Summary!WriterStep("sweep"))
    /\ WF_cardVars(part = "summary" /\ Summary!GatewayStep("sweep"))
    /\ WF_cardVars(part = "summary" /\ cardGateway["event"].pc # "idle" /\ Summary!GatewayStep("event"))
    /\ WF_mbrVars(part = "members" /\ Members!Start)
    /\ WF_mbrVars(part = "members" /\ Members!Dispatch)
    /\ WF_mbrVars(part = "members" /\ Members!JoinStep)
    /\ WF_mbrVars(part = "members" /\ Members!LeaveSave)
    /\ WF_mbrVars(part = "members" /\ Members!ReconcileList)
    /\ WF_mbrVars(part = "members" /\ Members!ReconcileStep)
    /\ WF_watVars(part = "watchers" /\ Watch!StalkerWrite)
    /\ WF_watVars(part = "watchers" /\ Watch!CommandDeletes)
    /\ WF_watVars(part = "watchers" /\ Watch!LeaveDeletes)
    /\ WF_watVars(part = "watchers" /\ Watch!Stalker)
    /\ WF_watVars(part = "watchers" /\ Watch!TakeEvent("t"))
    /\ WF_ctlVars(part = "control" /\ Control!Start)
    /\ WF_ctlVars(part = "control" /\ Control!OnReady)
    /\ \A s \in Control!Subjects : WF_ctlVars(part = "control" /\ Control!Works(s))
    /\ \A r \in {"m1", "m2"} : WF_schVars(part = "schema" /\ Schema!Step(r))
    /\ WF_schVars(part = "schema" /\ Schema!Expire)
    /\ WF_schVars(part = "schema" /\ Schema!Resolve)

(* Every journalled event gets an inbox row by the sweep alone              *)
(* (eventlog.py, sweep_pending).                                            *)
RowsReached == <>[](part = "sweep") => EveryRowReached

(* A row that stays deferred does not keep the sweep from settling the      *)
(* others (eventlog.py, sweep_pending).                                     *)
RowsSettled == <>[](part = "sweep") => OthersSettle

(* Every journalled event ends completed or quarantined although calls      *)
(* crash, outlive their leases and are held back (eventlog.py, deliver).    *)
InboxSettles == <>[](part = "inbox") => Inbox!EventuallySettled

(* The claim of a process that holds the lease is closed, by it or by the   *)
(* loop that follows it (sleep_executor.py).                                *)
HoldersClaimEnds == <>[](part = "timers") => Timers!HoldersClaimEnds

(* Every audit event leaves the timer's document for the log                *)
(* (sleep_audit.py, project_pending).                                       *)
AuditDrains == <>[](part = "timers") => Timers!AuditDrains

(* The summary is delivered in the end although both events may be lost,    *)
(* unless a claim is abandoned (summary.py and the gateway's                *)
(* reconciliation).                                                         *)
SummaryPosted == <>[](part = "summary") => Summary!EventuallyPosted

(* At rest the stored snapshot is what the member has, of an absent member  *)
(* it is a debt, and what the member had when he last left is back after a  *)
(* rejoin although roles fail and the gateway dies (gateway.py, member      *)
(* restore).                                                                *)
MemberConverges == <>[](part = "members") => Members!Converges /\ Members!OwedRestored

(* A member who is trusted no more loses his subscriptions with the next    *)
(* event of the target (stalker.py, _active_watcher_user_ids).              *)
UntrustedForgotten == <>[](part = "watchers") => Watch!UntrustedForgotten

(* No job waits behind one that raised: it ends as applied or failed        *)
(* (controlplane.py, _handle_apply_msg).                                    *)
JobsEnd == <>[](part = "control") => Control!JobsEnd

(* Repeated runs bring the schema to its version although runners die with  *)
(* the lock (migrate.py).                                                   *)
SchemaComesUp == <>[](part = "schema") => Schema!ComesUp

(* The state of the other parts stays well formed.                          *)
PartTypesOK ==
    /\ part = "inbox" => Inbox!TypeOK
    /\ part = "members" => Members!TypeOK
=============================================================================
