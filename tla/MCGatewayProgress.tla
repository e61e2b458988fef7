--------------------------- MODULE MCGatewayProgress -------------------------
(* What must come to an end in the gateway and its companions: the writer   *)
(* lease, voice sessions, the managed voice, invites, and the supervised    *)
(* loops of a service.  The parts are independent here: a behaviour is      *)
(* about one of them, all the others stay in their first state.             *)
EXTENDS MCWriterLease

CONSTANT None

VARIABLES
    part,  \* which of the systems this behaviour is about
    voicePlace, voiceQueue, voiceSession, voiceInterval, voiceAnnounced,
    voiceMem, voiceBoot, voiceHandler, voiceThread, voiceReaper, voiceMoves,
    voiceTroubles, voiceSpoilt,
    botSettings, botAt, botBarred, botMember, botUp, botSeen, botClient,
    botLock, botWaiters, botHeld, botCall, botEffect, botEnforced, botMoves,
    botTroubles,
    invInvites, invJoined, invJoins, invLock, invCredited, invUp, invReady,
    invStored, invCatalog, invRefresh, invTold, invEvents, invGone, invAuditing,
    invMuddled, invTroubles,
    hcMode, hcNats, hcMongo, hcUp, hcStarted, hcLoop, hcHandle, hcDoc,
    hcTroubles

Voice == INSTANCE VoiceSessions WITH
    Users <- {"ada", "bob"}, Channels <- {"lobby"}, Nowhere <- None,
    Nobody <- None, MaxMoves <- 3, MaxTroubles <- 1, place <- voicePlace,
    queue <- voiceQueue, session <- voiceSession, interval <- voiceInterval,
    announced <- voiceAnnounced, mem <- voiceMem, boot <- voiceBoot,
    handler <- voiceHandler, thread <- voiceThread, reaper <- voiceReaper,
    moves <- voiceMoves, troubles <- voiceTroubles, spoilt <- voiceSpoilt

Bot == INSTANCE ManagedVoice WITH
    Channels <- {"a", "b"}, None <- None, Events <- {"e"}, MaxMoves <- 3,
    MaxTroubles <- 1, settings <- botSettings, at <- botAt,
    barred <- botBarred, member <- botMember, up <- botUp, seen <- botSeen,
    client <- botClient, lock <- botLock, waiters <- botWaiters,
    held <- botHeld, call <- botCall, effect <- botEffect,
    enforced <- botEnforced, moves <- botMoves, troubles <- botTroubles

Invites == INSTANCE InviteAttribution WITH
    Codes <- {"plain", "vanity"}, Vanity <- "vanity", None <- None,
    Handlers <- {"h"}, MaxJoins <- 1, MaxEvents <- 1, MaxTroubles <- 1,
    invites <- invInvites, joined <- invJoined, joins <- invJoins,
    lock <- invLock, credited <- invCredited, up <- invUp, ready <- invReady,
    stored <- invStored, catalog <- invCatalog, refresh <- invRefresh,
    told <- invTold, events <- invEvents, gone <- invGone, auditing <- invAuditing,
    muddled <- invMuddled, troubles <- invTroubles

Health == INSTANCE ServiceHealth WITH
    Loops <- {"sweep", "refresh"}, Critical <- {"sweep"}, None <- None,
    MaxAge <- 3, Progress <- 4, Grace <- 3, Interval <- 2, BackoffCap <- 4,
    HealthyRun <- 3, Old <- 6, MaxTroubles <- 2, mode <- hcMode,
    nats <- hcNats, mongo <- hcMongo, up <- hcUp, started <- hcStarted,
    loop <- hcLoop, handle <- hcHandle, doc <- hcDoc, troubles <- hcTroubles

voiceVars == <<voicePlace, voiceQueue, voiceSession, voiceInterval,
    voiceAnnounced, voiceMem, voiceBoot, voiceHandler, voiceThread,
    voiceReaper, voiceMoves, voiceTroubles, voiceSpoilt>>
botVars == <<botSettings, botAt, botBarred, botMember, botUp, botSeen,
    botClient, botLock, botWaiters, botHeld, botCall, botEffect, botEnforced,
    botMoves, botTroubles>>
invVars == <<invInvites, invJoined, invJoins, invLock, invCredited, invUp,
    invReady, invStored, invCatalog, invRefresh, invTold, invEvents, invGone,
    invAuditing, invMuddled, invTroubles>>
hcVars == <<hcMode, hcNats, hcMongo, hcUp, hcStarted, hcLoop, hcHandle,
    hcDoc, hcTroubles>>
ProgressVars == <<part, vars, voiceVars, botVars, invVars, hcVars>>

ProgressInit ==
    /\ part \in {"lease", "sessions", "bot", "invites", "health"}
    /\ Init /\ Voice!Init /\ Bot!Init /\ Invites!Init /\ Health!Init
    /\ part # "bot" => botSettings.managed = None /\ botMember = "a"
    /\ part # "invites" => invAuditing = FALSE /\ DOMAIN invInvites = {"vanity"}

(* The part this behaviour is about takes the steps. *)
ProgressNext ==
    /\ UNCHANGED part
    /\ IF part = "lease" THEN Next ELSE UNCHANGED vars
    /\ IF part = "sessions" THEN Voice!Next ELSE UNCHANGED voiceVars
    /\ IF part = "bot" THEN Bot!Next ELSE UNCHANGED botVars
    /\ IF part = "invites" THEN Invites!Next ELSE UNCHANGED invVars
    /\ IF part = "health" THEN Health!Next ELSE UNCHANGED hcVars

(* The fairness of each module, for the part it is about.                   *)
ProgressSpec ==
    /\ ProgressInit /\ [][ProgressNext]_ProgressVars
    /\ WF_vars(part = "lease" /\ Tick)
    /\ \A g \in Gateways : WF_vars(part = "lease" /\ Guard(g))
    /\ \A g \in Gateways, t \in Tasks : WF_vars(part = "lease" /\ EndCheck(g, t))
    /\ WF_voiceVars(part = "sessions" /\ Voice!Boot)
    /\ WF_voiceVars(part = "sessions" /\ Voice!Reap)
    /\ \A u \in {"ada", "bob"} :
         /\ WF_voiceVars(part = "sessions" /\ Voice!Begin(u))
         /\ WF_voiceVars(part = "sessions" /\ Voice!Handle(u))
    /\ WF_botVars(part = "bot" /\ Bot!Dropped)
    /\ WF_botVars(part = "bot" /\ Bot!LoopBegins)
    /\ WF_botVars(part = "bot" /\ Bot!Update)
    /\ WF_botVars(part = "bot" /\ Bot!HoldEnds)
    /\ WF_botVars(part = "bot" /\ Bot!Start)
    /\ \A p \in Bot!Callers : WF_botVars(part = "bot" /\ Bot!Proceeds(p))
    /\ WF_invVars(part = "invites" /\ Invites!Start)
    /\ WF_invVars(part = "invites" /\ Invites!JoinStep)
    /\ WF_invVars(part = "invites" /\ Invites!HandleEvent)
    /\ WF_invVars(part = "invites" /\ Invites!Audit)
    /\ WF_invVars(part = "invites" /\ Invites!RefreshAsks)
    /\ \A t \in Invites!Refreshers : WF_invVars(part = "invites" /\ Invites!RefreshStep(t))
    /\ WF_hcVars(part = "health" /\ Health!Goes)

(* However the processes crash, stop or stall, some gateway holds an        *)
(* unexpired lease again and again, once the faults are over (supervise.py, *)
(* claim_single_writer).                                                    *)
LeaseServedAgain == <>[](part = "lease") => ServedAgain

(* Nobody stays recorded in a channel it left for good: what the tracker    *)
(* misses, the reaper closes (tracker service and session reaper).          *)
AbsentAreClosed == <>[](part = "sessions") => Voice!AbsentAreClosed

(* When nothing meddles any more the bot is where the settings want it      *)
(* (gateway.py, managed voice).                                             *)
BotReturns == <>[](part = "bot") => Bot!Returns

(* Nobody is disconnected for a sound in a channel that was not enforced at *)
(* any time since he played it (gateway.py, on_voice_channel_effect).       *)
KickedWhileEnforced == part = "bot" => Bot!KickedWhileEnforced

(* Every handler of a join ends and gives the guild's lock back             *)
(* (gateway.py, on_member_join).                                            *)
EveryJoinTold == <>[](part = "invites") => Invites!EveryJoinTold

(* In the end the invite snapshot is Discord's and the catalog knows what   *)
(* was deleted (gateway.py, invite refresh and audit).                      *)
InvitesCatchUp == <>[](part = "invites") => Invites!CatchesUp

(* A service whose critical loops work becomes healthy and stays so         *)
(* (supervise.py, healthcheck.py).                                          *)
WorkingBecomesHealthy == <>[](part = "health") => Health!WorkingBecomesHealthy

(* A critical loop that makes no more progress is reported for good         *)
(* (healthcheck.py).                                                        *)
StallIsReported == <>[](part = "health") => Health!StallIsReported

(* The state of every guest stays well formed.                              *)
PartTypesOK ==
    /\ part = "sessions" => Voice!TypeOK
    /\ part = "bot" => Bot!TypeOK
    /\ part = "invites" => Invites!TypeOK
    /\ part = "health" => Health!TypeOK
=============================================================================
