------------------------------- MODULE LanBind -------------------------------
(***************************************************************************)
(* Binding a printer to the account (src/src/lan_bind_tcp.cpp and          *)
(* bind_cloud.cpp): the plugin logs in at the printer's port 3000, the     *)
(* printer reports a ticket, the ticket is shown to the cloud, the printer *)
(* reports the end.  detect is the same exchange without the cloud.  The   *)
(* frames the reports come in are BindFrames.                              *)
(***************************************************************************)
EXTENDS Naturals, Sequences

CONSTANTS
    Tickets,     \* tickets the printer may show
    NoTicket,
    MaxTicks,    \* the deadline, in polls of 500 ms
    MaxReports   \* bound: reports the printer sends

ASSUME BindAssumption == NoTicket \notin Tickets

Reports == [status : {"wait_auth"}, ticket : Tickets] \cup
           [status : {"SUCCESS", "FAILURE", "other"}, ticket : {NoTicket}]

VARIABLES
    bindPc,     \* "idle", "session" or "done"
    bindKind,   \* "bind" or "detect"
    ticket,     \* the ticket the session keeps
    sawSuccess, cloudDone, ticks,
    offered,    \* history: the tickets reported, in order
    posted,     \* history: the tickets given to the cloud
    bindRc,     \* 0, or what the call returns
    stages      \* history: LoginStageFinished updates, with their code

bindVars == <<bindPc, bindKind, ticket, sawSuccess, cloudDone, ticks, offered, posted, bindRc, stages>>

(***************************************************************************)
(* bind_lan_to_account, login_bind_session and detect                      *)
(***************************************************************************)
BindInit ==
    /\ bindPc = "idle" /\ bindKind = "bind" /\ ticket = NoTicket
    /\ sawSuccess = FALSE /\ cloudDone = FALSE /\ ticks = 0
    /\ offered = <<>> /\ posted = <<>> /\ bindRc = 0 /\ stages = <<>>

\* Every way out of bind_lan_to_account tells the slicer.
Finished(rc) == Append(stages, rc)

BindEnds(rc) ==
    /\ bindPc' = "done" /\ bindRc' = rc
    /\ stages' = IF bindKind = "bind" THEN Finished(rc) ELSE stages

\* Not logged in, no connection, or the login could not be sent.
BindStart(k, ok) ==
    /\ bindPc = "idle" /\ bindKind' = k
    /\ IF ok THEN bindPc' = "session" /\ UNCHANGED <<bindRc, stages>>
       ELSE /\ bindPc' = "done" /\ bindRc' = "connect_failed"
            /\ stages' = IF k = "bind" THEN Finished("connect_failed") ELSE stages
    /\ UNCHANGED <<ticket, sawSuccess, cloudDone, ticks, offered, posted>>

\* The first ticket is kept; the mutant keeps the last.
KeptTicketNot(r) == IF r.status = "wait_auth" THEN r.ticket ELSE ticket
KeptTicket(r) == IF r.status = "wait_auth" /\ ticket = NoTicket THEN r.ticket ELSE ticket

\* A report; several may come with one poll.
BindReport(r) ==
    /\ bindPc = "session" /\ Len(offered) < MaxReports
    /\ offered' = Append(offered, r)
    /\ IF r.status = "FAILURE" THEN BindEnds("report_failed") /\ UNCHANGED <<ticket, sawSuccess>>
       ELSE IF bindKind = "detect"
       THEN /\ IF r.status = "SUCCESS" THEN BindEnds("ok") ELSE UNCHANGED <<bindPc, bindRc, stages>>
            /\ UNCHANGED <<ticket, sawSuccess>>
       ELSE /\ ticket' = KeptTicket(r) /\ sawSuccess' = (sawSuccess \/ r.status = "SUCCESS")
            /\ UNCHANGED <<bindPc, bindRc, stages>>
    /\ UNCHANGED <<bindKind, cloudDone, ticks, posted>>

\* cloud_fn: GET, then POST of the ticket, when the reports of the poll are read.
TicketPending == ticket # NoTicket /\ ~cloudDone

BindCloud(ok) ==
    /\ bindPc = "session" /\ TicketPending
    /\ posted' = Append(posted, ticket)
    /\ IF ok THEN cloudDone' = TRUE /\ UNCHANGED <<bindPc, bindRc, stages>>
       ELSE BindEnds("cloud_failed") /\ UNCHANGED cloudDone
    /\ UNCHANGED <<bindKind, ticket, sawSuccess, ticks, offered>>

\* The end of a poll: both sides are done, or the deadline; in its last part a ticket the
\* cloud took is enough.
BothDone == cloudDone /\ sawSuccess

\* The deadline.
Deadline == ticks' >= MaxTicks

BindPoll ==
    /\ bindPc = "session" /\ ~TicketPending
    /\ ticks' = IF ticks < MaxTicks THEN ticks + 1 ELSE 0
    /\ IF BothDone /\ bindKind = "bind" THEN BindEnds("ok")
       ELSE IF ~Deadline THEN UNCHANGED <<bindPc, bindRc, stages>>
       ELSE BindEnds(IF bindKind = "bind" /\ cloudDone THEN "ok" ELSE "ticket_timeout")
    /\ UNCHANGED <<bindKind, ticket, sawSuccess, cloudDone, offered, posted>>

BindNext ==
    \/ \E k \in {"bind", "detect"}, ok \in BOOLEAN : BindStart(k, ok)
    \/ \E r \in Reports : BindReport(r)
    \/ \E ok \in BOOLEAN : BindCloud(ok)
    \/ BindPoll

-----------------------------------------------------------------------------
FirstTicket ==
    LET at == {i \in DOMAIN offered : offered[i].status = "wait_auth"}
    IN  IF at = {} THEN NoTicket ELSE offered[CHOOSE i \in at : \A j \in at : i <= j].ticket

\* A printer is reported as bound only after the cloud took a ticket, the cloud sees one
\* ticket, once, and it is the first the printer showed.
BoundByCloud ==
    /\ bindPc = "done" /\ bindRc = "ok" /\ bindKind = "bind" => cloudDone
    /\ posted \in {<<>>, <<FirstTicket>>}

\* The slicer's dialog ends: the finished stage is reported once, with the result.
FinishedOnce == bindKind = "bind" /\ bindPc = "done" => stages = <<bindRc>>

\* A bind ends although the printer is silent or talks without end.
BindReturns == bindPc = "session" ~> bindPc = "done"
===============================================================================
