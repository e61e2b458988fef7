--------------------------- MODULE MCDataSafety ------------------------------
(* What no interleaving may do to the data: the settings of a guild, the    *)
(* subscriptions of the stalker, the jobs of the control plane, the schema, *)
(* the invites, the archive of messages, the summaries and the journal of   *)
(* the commands.  A behaviour is about one of them, the others stay in their first state.                 *)
EXTENDS MCGuildSettings

CONSTANTS
    Watchers, Targets, MaxCrashes,             \* of the subscriptions
    Jobs, Voice, Others,                       \* of the control plane
    Last, Unique, Lease,                       \* of the migrations
    Codes, Vanity, MaxJoins, MaxEvents,        \* of the invites
    Msgs, Blank, Images, Capacity, MaxEdits,   \* of the archive
    Destinations, MaxDeliver, SendTries, MaxSettings,  \* of the summaries
    Interactions,                              \* of the commands
    MaxFaults  \* bound: troubles of the control plane, the migrations, the summaries, the commands

ASSUME PartsAssumption ==
    /\ Last \in Nat /\ Unique \in 1 .. Last /\ SendTries \in Nat
    /\ Vanity \in Codes
    /\ NoDoc \notin Voice \cup Others /\ NoDoc \notin Writers
    /\ NoDoc \notin {"invocation", "rejected", "effect"}
    /\ NoDoc \notin [text : Writers \cup {Blank}, att : {"none", "link", "stored"},
                     edited : BOOLEAN, deleted : BOOLEAN]

VARIABLES
    part,  \* which of the systems this behaviour is about
    watTrusted, watSubs, watCommand, watLeave, watHandler, watCrashes,
    ctlConfig, ctlJob, ctlQueue, ctlUp, ctlReady, ctlHandler, ctlSettings,
    ctlCached, ctlDid, ctlDropped, ctlTroubles,
    schLock, schStatus, schBuilt, schDups, schVersion, schRunner, schTroubles,
    invInvites, invJoined, invJoins, invLock, invCredited, invUp, invReady,
    invStored, invCatalog, invRefresh, invTold, invEvents, invGone, invAuditing,
    invMuddled, invTroubles,
    chatChat, chatUp, chatCache, chatOrder, chatSaving, chatTemp, chatFiles,
    chatArchive, chatExcused, chatEdits, chatTroubles,
    cardDest, cardRow, cardClosed, cardAnnounced, cardWriter, cardGateway,
    cardCards, cardUnsure, cardSettings, cardTroubles,
    cmdCall, cmdDid, cmdAudit, cmdUnaudited, cmdTroubles

Watch == INSTANCE TrustedWatchers WITH
    None <- NoDoc,
    trusted <- watTrusted, subs <- watSubs, command <- watCommand,
    leave <- watLeave, handler <- watHandler, crashes <- watCrashes

Control == INSTANCE ControlPlane WITH
    None <- NoDoc, MaxTroubles <- MaxFaults, config <- ctlConfig, job <- ctlJob, queue <- ctlQueue,
    up <- ctlUp, ready <- ctlReady, handler <- ctlHandler,
    settings <- ctlSettings, cached <- ctlCached, did <- ctlDid,
    dropped <- ctlDropped, troubles <- ctlTroubles

ASSUME NamesAssumption == Control!Operations \cap (Voice \cup Others) = {}

Schema == INSTANCE SchemaMigrations WITH
    Runners <- Writers, None <- NoDoc,
    MaxTroubles <- MaxFaults, lock <- schLock, status <- schStatus,
    built <- schBuilt, dups <- schDups, version <- schVersion,
    runner <- schRunner, troubles <- schTroubles

Invites == INSTANCE InviteAttribution WITH
    None <- NoDoc, Handlers <- Writers, invites <- invInvites,
    joined <- invJoined, joins <- invJoins, lock <- invLock,
    credited <- invCredited, up <- invUp, ready <- invReady,
    stored <- invStored, catalog <- invCatalog, refresh <- invRefresh,
    told <- invTold, events <- invEvents, gone <- invGone, auditing <- invAuditing,
    muddled <- invMuddled, troubles <- invTroubles

Chat == INSTANCE ChatMessages WITH
    Texts <- Writers, None <- NoDoc,
    chat <- chatChat, up <- chatUp, cache <- chatCache, order <- chatOrder,
    saving <- chatSaving, temp <- chatTemp, files <- chatFiles,
    archive <- chatArchive, excused <- chatExcused, edits <- chatEdits,
    troubles <- chatTroubles

Summary == INSTANCE SummaryDelivery WITH
    Channels <- Destinations, None <- NoDoc,
    MaxTroubles <- MaxFaults, dest <- cardDest, row <- cardRow,
    closed <- cardClosed, announced <- cardAnnounced, writer <- cardWriter,
    gateway <- cardGateway, cards <- cardCards, unsure <- cardUnsure,
    settings <- cardSettings, troubles <- cardTroubles

Slash == INSTANCE SlashCommands WITH
    None <- NoDoc, MaxTroubles <- MaxFaults, call <- cmdCall, did <- cmdDid,
    audit <- cmdAudit, unaudited <- cmdUnaudited, troubles <- cmdTroubles

watVars == <<watTrusted, watSubs, watCommand, watLeave, watHandler,
    watCrashes>>
ctlVars == <<ctlConfig, ctlJob, ctlQueue, ctlUp, ctlReady, ctlHandler,
    ctlSettings, ctlCached, ctlDid, ctlDropped, ctlTroubles>>
schVars == <<schLock, schStatus, schBuilt, schDups, schVersion, schRunner,
    schTroubles>>
invVars == <<invInvites, invJoined, invJoins, invLock, invCredited, invUp,
    invReady, invStored, invCatalog, invRefresh, invTold, invEvents, invGone,
    invAuditing, invMuddled, invTroubles>>
chatVars == <<chatChat, chatUp, chatCache, chatOrder, chatSaving, chatTemp,
    chatFiles, chatArchive, chatExcused, chatEdits, chatTroubles>>
cardVars == <<cardDest, cardRow, cardClosed, cardAnnounced, cardWriter,
    cardGateway, cardCards, cardUnsure, cardSettings, cardTroubles>>
cmdVars == <<cmdCall, cmdDid, cmdAudit, cmdUnaudited, cmdTroubles>>
SafetyVars == <<part, vars, watVars, ctlVars, schVars, invVars, chatVars,
    cardVars, cmdVars>>

SafetyInit ==
    /\ part \in {"settings", "watchers", "control", "schema", "invites", "chat", "summary", "slash"}
    /\ Init /\ Watch!Init /\ Control!Init /\ Schema!Init /\ Invites!Init /\ Chat!Init /\ Summary!Init /\ Slash!Init
    /\ part # "settings" => doc = NoDoc
    /\ part # "schema" => schDups = "none"
    /\ invAuditing = FALSE
    /\ part # "invites" => DOMAIN invInvites = {Vanity}

(* The part this behaviour is about takes the steps. *)
SafetyNext ==
    /\ UNCHANGED part
    /\ IF part = "settings" THEN Next ELSE UNCHANGED vars
    /\ IF part = "watchers" THEN Watch!Next ELSE UNCHANGED watVars
    /\ IF part = "control" THEN Control!Next ELSE UNCHANGED ctlVars
    /\ IF part = "schema" THEN Schema!Next ELSE UNCHANGED schVars
    /\ IF part = "invites" THEN Invites!Next ELSE UNCHANGED invVars
    /\ IF part = "chat" THEN Chat!Next ELSE UNCHANGED chatVars
    /\ IF part = "summary" THEN Summary!Next ELSE UNCHANGED cardVars
    /\ IF part = "slash" THEN Slash!Next ELSE UNCHANGED cmdVars

SafetySpec == SafetyInit /\ [][SafetyNext]_SafetyVars

(* Whoever is told of an event was trusted after the stalker took it up     *)
(* (stalker.py, _active_watcher_user_ids).                                  *)
ToldWereTrusted == Watch!ToldWereTrusted

(* Every watcher who was subscribed and trusted all the while has been      *)
(* told, or his DM tried (stalker.py, _deliver_to_watchers).                *)
SteadyAreTold == Watch!SteadyAreTold

(* A module that was applied is in force at least as it was saved for that  *)
(* job (controlplane.py, apply_settings).                                   *)
AppliedIsCurrent == Control!AppliedIsCurrent

(* An operation marked as applied has made its change and its call          *)
(* (controlplane.py, execute_operation).                                    *)
AppliedIsWhole == Control!AppliedIsWhole

(* As soon as the unique index exists a rollback below it is blocked,       *)
(* whatever runners died (migrate.py).                                      *)
RollbackIsBlocked == Schema!RollbackIsBlocked

(* What is marked done exists, also after a runner lost its lease           *)
(* (migrate.py).                                                            *)
DoneExists == Schema!DoneExists

(* A use of an invite is credited to one member at most, unless the stored  *)
(* snapshot was muddled (gateway.py, on_member_join).                       *)
CreditedOnce == Invites!CreditedOnce

(* A record that says that a picture is stored points to a whole file       *)
(* (media.py).                                                              *)
StoredIsWhole == Chat!StoredIsWhole

(* A message whose deletion was handled keeps its tombstone (gateway.py,    *)
(* on_raw_message_delete).                                                  *)
DeletedStaysDeleted == Chat!DeletedStaysDeleted

(* A record that is not excused has the last text of the message            *)
(* (gateway.py, on_raw_message_edit).                                       *)
TextIsCurrent == Chat!TextIsCurrent

(* The handler and the reconciliation never post one summary side by side   *)
(* (repository.py, claim_session_summary_delivery).                         *)
OnePoster == Summary!OnePoster

(* A second card is posted only after a post that failed with its card made *)
(* (gateway.py, handle_summary).                                            *)
OneCardUnlessUnsure == Summary!OneCardUnlessUnsure

(* A session marked as delivered has a card (gateway.py, handle_summary).   *)
DeliveredMeansPosted == Summary!DeliveredMeansPosted

(* The state of the other parts stays well formed.                          *)
PartTypesOK ==
    /\ part = "chat" => Chat!TypeOK
    /\ part = "summary" => Summary!TypeOK
    /\ part = "invites" => Invites!TypeOK
    /\ part = "watchers" => Watch!TypeOK
    /\ part = "control" => Control!TypeOK
    /\ part = "schema" => Schema!TypeOK

(* Who was answered stands in the journal, unless the journal failed        *)
(* (services/commands.py, _audit_command).                                  *)
AnsweredIsAudited == Slash!AnsweredIsAudited

(* The journal shows a confirmed effect only where all its writes were      *)
(* made (services/commands.py, effect_proved).                              *)
EffectsAreProved == Slash!EffectsAreProved
=============================================================================
