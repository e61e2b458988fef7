-------------------------- MODULE SummaryDelivery --------------------------
(* The summary of one closed session: the writer generates it (on           *)
(* session.closed and in its 60 s reconciliation), the gateway posts it (on *)
(* session.summary.ready and in its 60 s sweep).  The session document is   *)
(* all they share; the two events may be delivered again or never again,    *)
(* as EventInbox has it.  A summary is told apart by its channel.           *)
EXTENDS Naturals, FiniteSets

CONSTANTS
    Channels,    \* channels the guild may configure
    None,        \* no channel
    MaxDeliver,  \* attempts of an event before it is quarantined
    SendTries,   \* attempts of handle_summary to post
    MaxSettings, \* bound: changes of the configured channel
    MaxTroubles  \* bound: crashes, failed calls, failed posts

VARIABLES
    dest,     \* summary destination in the guild settings
    row,      \* the session: summary's channel (generated), claimed, delivered
    closed,   \* the writer's inbox row of session.closed
    announced,\* the gateway's inbox row of session.summary.ready and its payload
    writer,   \* what the writer's event handler and reconciliation do
    gateway,  \* what the gateway's event handler and sweep do
    cards,    \* history: cards in Discord
    unsure,   \* history: cards of a post that was reported as failed
    settings, troubles

vars == <<dest, row, closed, announced, writer, gateway, cards, unsure, settings, troubles>>

Tasks == {"event", "sweep"}
Idle == [pc |-> "idle", to |-> None, tries |-> 0]

Init ==
    /\ dest = None
    /\ row = [summary |-> None, claimed |-> FALSE, delivered |-> FALSE]
    /\ closed = [state |-> "pending", attempts |-> 0]
    /\ announced = [state |-> "none", attempts |-> 0, to |-> None]
    /\ writer = [t \in Tasks |-> Idle]
    /\ gateway = [t \in Tasks |-> Idle]
    /\ cards = 0 /\ unsure = 0 /\ settings = 0 /\ troubles = 0

(* summary-set and summary-clear *)
Configure ==
    /\ settings < MaxSettings
    /\ settings' = settings + 1
    /\ dest' \in (Channels \cup {None}) \ {dest}
    /\ (settings' = MaxSettings => dest' # None)
    /\ UNCHANGED <<row, closed, announced, writer, gateway, cards, unsure, troubles>>

(* The inbox after a handler that raised: again, or quarantined. *)
Raised(inbox) == [inbox EXCEPT !.attempts = @ + 1,
                               !.state = IF inbox.attempts + 1 >= MaxDeliver THEN "quarantined" ELSE @]
Handled(inbox) == [inbox EXCEPT !.state = "completed"]

Trouble == troubles < MaxTroubles /\ troubles' = troubles + 1

-----------------------------------------------------------------------------
(* list_closed_sessions_pending_summary *)
Unsummarised == row.summary = None

(* Writer: HandleSessionClosed returns when there is a summary; Start lists *)
(* the closed sessions without one. *)
WriterBegin(t) ==
    /\ writer[t].pc = "idle"
    /\ t = "event" => closed.state = "pending"
    /\ IF Unsummarised /\ ~row.delivered
       THEN writer' = [writer EXCEPT ![t].pc = "building"] /\ UNCHANGED closed
       ELSE t = "event" /\ closed' = Handled(closed) /\ UNCHANGED writer
    /\ UNCHANGED <<dest, row, announced, gateway, cards, unsure, settings, troubles>>

WriterEnds(t, raises) ==
    /\ writer' = [writer EXCEPT ![t] = Idle]
    /\ closed' = IF t # "event" THEN closed ELSE IF raises THEN Raised(closed) ELSE Handled(closed)

(* GetGuildSettings; "summary channel not configured" is raised. *)
WriterBuild(t) ==
    /\ writer[t].pc = "building"
    /\ IF dest = None THEN WriterEnds(t, TRUE)
       ELSE writer' = [writer EXCEPT ![t].pc = "marking", ![t].to = dest] /\ UNCHANGED closed
    /\ UNCHANGED <<dest, row, announced, gateway, cards, unsure, settings, troubles>>

(* MarkSessionSummaryReady, whatever became of the session meanwhile. *)
Ready(to) == [row EXCEPT !.summary = to]

WriterMark(t) ==
    /\ writer[t].pc = "marking"
    /\ row' = Ready(writer[t].to)
    /\ writer' = [writer EXCEPT ![t].pc = "publishing"]
    /\ UNCHANGED <<dest, closed, announced, gateway, cards, unsure, settings, troubles>>

(* The event of the session has one id: the first payload stays. *)
Announced(t) ==
    IF announced.state = "none"
    THEN [state |-> "pending", attempts |-> 0, to |-> writer[t].to] ELSE announced

WriterPublish(t) ==
    /\ writer[t].pc = "publishing"
    /\ announced' = Announced(t)
    /\ WriterEnds(t, FALSE)
    /\ UNCHANGED <<dest, row, gateway, cards, unsure, settings, troubles>>

WriterFails(t) ==
    /\ writer[t].pc # "idle"
    /\ Trouble
    /\ WriterEnds(t, TRUE)
    /\ announced' \in {announced} \cup (IF writer[t].pc = "publishing" THEN {Announced(t)} ELSE {})
    /\ UNCHANGED <<dest, row, gateway, cards, unsure, settings>>

WriterCrash ==
    /\ \E t \in Tasks : writer[t].pc # "idle"
    /\ Trouble
    /\ writer' = [t \in Tasks |-> Idle]
    /\ UNCHANGED <<dest, row, closed, announced, gateway, cards, unsure, settings>>

-----------------------------------------------------------------------------
(* Slip: only what belongs into the channel configured now. *)
PendingInConfigured == row.summary # None /\ row.summary = dest /\ ~row.delivered /\ ~row.claimed

(* list_summaries_pending_delivery *)
PendingDelivery == row.summary # None /\ ~row.delivered /\ ~row.claimed

(* Gateway: handle_summary drops an event that is not the session's summary; *)
(* _deliver_pending lists what is neither claimed nor delivered. *)
GatewayBegin(t) ==
    /\ gateway[t].pc = "idle"
    /\ \/ /\ t = "event" /\ announced.state = "pending"
          /\ IF announced.to = row.summary
             THEN gateway' = [gateway EXCEPT ![t] = [pc |-> "claiming", to |-> announced.to, tries |-> SendTries]]
                  /\ UNCHANGED announced
             ELSE announced' = Handled(announced) /\ UNCHANGED gateway
       \/ /\ t = "sweep" /\ PendingDelivery
          /\ gateway' = [gateway EXCEPT ![t] = [pc |-> "claiming", to |-> row.summary, tries |-> 1]]
          /\ UNCHANGED announced
    /\ UNCHANGED <<dest, row, closed, writer, cards, unsure, settings, troubles>>

GatewayEnds(t, raises) ==
    /\ gateway' = [gateway EXCEPT ![t] = Idle]
    /\ announced' = IF t # "event" THEN announced
                    ELSE IF raises THEN Raised(announced) ELSE Handled(announced)

UndeliveredOnly == row.summary # None /\ ~row.delivered

(* claim_session_summary_delivery *)
Deliverable == row.summary # None /\ ~row.delivered /\ ~row.claimed

GatewayClaim(t) ==
    /\ gateway[t].pc = "claiming"
    /\ IF Deliverable
       THEN /\ row' = [row EXCEPT !.claimed = TRUE]
            /\ gateway' = [gateway EXCEPT ![t].pc = "sending"]
            /\ UNCHANGED announced
       ELSE GatewayEnds(t, FALSE) /\ UNCHANGED row
    /\ UNCHANGED <<dest, closed, writer, cards, unsure, settings, troubles>>

(* _send_summary posts a new card.  A post that raises may have been made. *)
GatewaySend(t) ==
    /\ gateway[t].pc = "sending"
    /\ \/ /\ cards' = cards + 1
          /\ gateway' = [gateway EXCEPT ![t].pc = "sent"]
          /\ UNCHANGED <<unsure, troubles>>
       \/ /\ Trouble
          /\ gateway' = [gateway EXCEPT ![t].pc = IF gateway[t].tries = 1 THEN "releasing" ELSE "sending",
                                        ![t].tries = @ - 1]
          /\ \E posted \in {0, 1} : cards' = cards + posted /\ unsure' = unsure + posted
    /\ UNCHANGED <<dest, row, closed, announced, writer, settings>>

Delivered == [row EXCEPT !.delivered = TRUE]

GatewayMark(t) ==
    /\ gateway[t].pc = "sent"
    /\ row' = Delivered
    /\ GatewayEnds(t, FALSE)
    /\ UNCHANGED <<dest, closed, writer, cards, unsure, settings, troubles>>

Released == [row EXCEPT !.claimed = FALSE]

(* The claim is given back; the handler raises, the sweep goes on. *)
GatewayRelease(t) ==
    /\ gateway[t].pc = "releasing"
    /\ row' = Released
    /\ GatewayEnds(t, TRUE)
    /\ UNCHANGED <<dest, closed, writer, cards, unsure, settings, troubles>>

(* A Mongo call raises, before or after it has its effect. *)
GatewayFails(t) ==
    /\ gateway[t].pc \in {"claiming", "sending", "sent", "releasing"}
    /\ Trouble
    /\ GatewayEnds(t, TRUE)
    /\ UNCHANGED <<dest, row, closed, writer, cards, unsure, settings>>

GatewayCrash ==
    /\ \E t \in Tasks : gateway[t].pc # "idle"
    /\ Trouble
    /\ gateway' = [t \in Tasks |-> Idle]
    /\ UNCHANGED <<dest, row, closed, announced, writer, cards, unsure, settings>>

-----------------------------------------------------------------------------
WriterStep(t) == WriterBegin(t) \/ WriterBuild(t) \/ WriterMark(t) \/ WriterPublish(t)
GatewayStep(t) ==
    GatewayBegin(t) \/ GatewayClaim(t) \/ GatewaySend(t) \/ GatewayMark(t) \/ GatewayRelease(t)

Next ==
    \/ Configure \/ WriterCrash \/ GatewayCrash
    \/ \E t \in Tasks : WriterStep(t) \/ GatewayStep(t) \/ WriterFails(t) \/ GatewayFails(t)

Spec == Init /\ [][Next]_vars

(* An administrator configures a channel in the end; the loops of both      *)
(* services run.  The event handlers need not: the sweeps are enough. *)
FairSpec == Spec /\ WF_vars(Configure) /\ WF_vars(WriterStep("sweep")) /\ WF_vars(GatewayStep("sweep"))
                 /\ WF_vars(gateway["event"].pc # "idle" /\ GatewayStep("event"))

-----------------------------------------------------------------------------
TypeOK ==
    /\ dest \in Channels \cup {None}
    /\ row \in [summary : Channels \cup {None}, claimed : BOOLEAN, delivered : BOOLEAN]
    /\ closed \in [state : {"pending", "completed", "quarantined"}, attempts : 0 .. MaxDeliver]
    /\ announced \in [state : {"none", "pending", "completed", "quarantined"}, attempts : 0 .. MaxDeliver,
                      to : Channels \cup {None}]
    /\ cards \in Nat /\ unsure \in 0 .. cards

Holding == {t \in Tasks : gateway[t].pc \in {"sending", "sent", "releasing"}}

(* The handler and the sweep never post the same summary side by side, and  *)
(* while one of them posts it the document says so. *)
OnePoster == Cardinality(Holding) <= 1 /\ (Holding # {} => row.claimed)

(* A second card is posted only after a post that failed with its card      *)
(* made, however often the events come and the summary is made anew. *)
OneCardUnlessUnsure == cards <= 1 + unsure

(* Delivered means that there is a card. *)
DeliveredMeansPosted == row.delivered => cards > 0

(* A claim that no task holds: its holder died or was told that the claim,  *)
(* the mark or the release had failed. *)
Abandoned == row.claimed /\ ~row.delivered /\ Holding = {}

(* The summary is delivered in the end even if both events are lost or      *)
(* quarantined, unless a claim is abandoned, which nothing takes back. *)
EventuallyPosted == []<>(row.delivered \/ Abandoned)

=============================================================================
