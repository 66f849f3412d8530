----------------------------- MODULE CloudLink -----------------------------
(***************************************************************************)
(* The cloud MQTT session (CloudSession) and what the Agent hangs on it:   *)
(* the set of report subscriptions, the pushall kickstart after a CONNACK, *)
(* the one-shot on_printer_connected notification, and the LAN-priority    *)
(* switch that silences cloud telemetry while LAN reports arrive.          *)
(*                                                                         *)
(* Threads: Studio (the slicer and its HTTP helpers), Lan (the loop thread *)
(* of the LAN session), Watchdog (lan_watchdog_loop) and Loop (the cloud   *)
(* session's libmosquitto thread).  A step is one critical section of      *)
(* Agent::mu_ or CloudSession::mu_, one atomic flag, or one publish.       *)
(***************************************************************************)
CONSTANTS
    Devs,           \* printers
    Studio, Lan, Watchdog, Loop,   \* threads
    NoDev,          \* the empty dev_id
    BlockCloud,     \* obn.conf block_cloud
    Events          \* which inputs occur, see EventNames

EventNames == {"del", "select", "report", "lan", "refuse", "drop", "spawnfail"}

ASSUME CloudAssumption ==
    /\ BlockCloud \in BOOLEAN
    /\ Events \subseteq EventNames
    /\ NoDev \notin Devs
    /\ Studio \notin {Lan, Watchdog, Loop}
    /\ Lan \notin {Watchdog, Loop}
    /\ Watchdog # Loop

Threads == {Studio, Lan, Watchdog, Loop}

VARIABLES
    session,    \* "none": no CloudSession; "idle": created; "started": started_
    connected,  \* CloudSession::connected_
    link,       \* the broker has an MQTT session with us
    subscribed, \* CloudSession::subscribed_, the wanted set
    active,     \* CloudSession::active_
    broker,     \* report topics the broker holds for this connection
    kicked,     \* Agent::cloud_kickstarted_devs_
    asked,      \* history: devices asked for a snapshot while subscribed
    seen,       \* Agent::cloud_connected_devs_
    notified,   \* Agent::cloud_notified_devs_
    hasCb,      \* on_printer_connected_ is registered
    wanted,     \* history: devices Studio subscribed and did not drop again
    told,       \* history: devices Studio was told about since it last dropped them
    reported,   \* history: devices with a cloud report in that time, callback set
    prio,       \* Agent::lan_report_priority_
    fresh,      \* devices with last_lan_report_ younger than kLanSilenceFailback
    watchdog,   \* Agent::lan_watchdog_active_
    silent,     \* the watchdog's list of devices still to fail back
    pc, arg, pend  \* per thread: position, device argument, pending kickstarts

sessVars == <<session, connected, link, subscribed, active, broker>>
kickVars == <<kicked, asked>>
noteVars == <<seen, notified, hasCb, wanted, told, reported>>
lanVars  == <<prio, fresh, watchdog, silent>>
thrVars  == <<pc, arg, pend>>
vars     == <<sessVars, kickVars, noteVars, lanVars, thrVars>>

\* "apply", "clear" and "unkick" are positions of Loop; "del2" is
\* Studio between the two halves of cloud_del_subscribe; "failback" and "add"
\* are lan_report_failback and cloud_add_subscribe; "snap" to "unlatch" is
\* kickstart_cloud_status.
Pcs == {"idle", "apply", "clear", "unkick", "del2", "failback", "add",
        "snap", "latch", "send", "unlatch"}

TypeOK ==
    /\ session \in {"none", "idle", "started"}
    /\ connected \in BOOLEAN /\ link \in {"down", "up"}
    /\ subscribed \subseteq Devs /\ active \subseteq Devs /\ broker \subseteq Devs
    /\ kicked \subseteq Devs /\ asked \subseteq Devs
    /\ seen \subseteq Devs /\ notified \subseteq Devs /\ hasCb \in BOOLEAN
    /\ wanted \subseteq Devs /\ told \subseteq Devs /\ reported \subseteq Devs
    /\ prio \subseteq Devs /\ fresh \subseteq Devs
    /\ watchdog \in BOOLEAN /\ silent \subseteq Devs
    /\ pc \in [Threads -> Pcs]
    /\ arg \in [Threads -> Devs \cup {NoDev}]
    /\ pend \in [Threads -> SUBSET Devs]

Init ==
    /\ session = "none" /\ connected = FALSE /\ link = "down"
    /\ subscribed = {} /\ active = {} /\ broker = {}
    /\ kicked = {} /\ asked = {}
    /\ seen = {} /\ notified = {} /\ hasCb = FALSE
    /\ wanted = {} /\ told = {} /\ reported = {}
    /\ prio = {} /\ fresh = {} /\ watchdog = FALSE /\ silent = {}
    /\ pc = [t \in Threads |-> "idle"]
    /\ arg = [t \in Threads |-> NoDev]
    /\ pend = [t \in Threads |-> {}]

Goto(t, where) == pc' = [pc EXCEPT ![t] = where]

---------------------------------------------------------------------------
(* Starting the session *)

\* connect_cloud / cloud_refresh with usable credentials.  A started session is
\* left to libmosquitto's reconnects.
ConnectCloud ==
    /\ ~BlockCloud /\ pc[Studio] = "idle"
    /\ session # "started"
    /\ session' = "started"
    /\ UNCHANGED <<connected, link, subscribed, active, broker, kickVars,
                   noteVars, lanVars, thrVars>>

\* connect_cloud that does not start: not logged in, or connect failed.  The
\* CloudSession object exists afterwards and records subscriptions.
ConnectCloudFails ==
    /\ ~BlockCloud /\ pc[Studio] = "idle"
    /\ session = "none"
    /\ session' = "idle"
    /\ UNCHANGED <<connected, link, subscribed, active, broker, kickVars,
                   noteVars, lanVars, thrVars>>

\* set_on_printer_connected_fn; Studio may register it after connect_server.
RegisterCallback ==
    /\ "report" \in Events /\ pc[Studio] = "idle" /\ ~hasCb
    /\ hasCb' = TRUE
    /\ UNCHANGED <<sessVars, kickVars, seen, notified, wanted, told, reported,
                   lanVars, thrVars>>

---------------------------------------------------------------------------
(* Subscriptions *)

\* bambu_network_add_subscribe, or the implicit subscription to every device
\* of get_user_print_info.
BeginAdd(d) ==
    /\ ~BlockCloud /\ pc[Studio] = "idle"
    /\ pc' = [pc EXCEPT ![Studio] = "add"]
    /\ arg' = [arg EXCEPT ![Studio] = d]
    /\ wanted' = wanted \cup ({d} \ {NoDev})
    /\ UNCHANGED <<sessVars, kickVars, seen, notified, hasCb, told, reported,
                   lanVars, pend>>

\* apply_subscriptions_locked_ with active_ = base: subscribe what is wanted and
\* not active.  The call fails only when the transport is already gone.
Apply(base, want) ==
    \E got \in SUBSET want :
        /\ link = "up" => got = want
        /\ active' = base \cup got
        /\ broker' = IF link = "up" THEN broker \cup (got \ base) ELSE broker

\* cloud_add_subscribe and CloudSession::add_subscribe, then the kickstart.
\* Without a CloudSession the call fails.  LAN-priority devices are not skipped.
AddSubscribe(t) ==
    /\ pc[t] = "add"
    /\ IF session = "none"
         THEN Goto(t, "idle") /\ UNCHANGED <<subscribed, active, broker>>
         ELSE /\ Goto(t, "snap")
              /\ subscribed' = subscribed \cup ({arg[t]} \ {NoDev})
              /\ IF connected THEN Apply(active, subscribed')
                 ELSE UNCHANGED <<active, broker>>
    /\ UNCHANGED <<session, connected, link, kickVars, noteVars, lanVars, arg, pend>>

\* cloud_del_subscribe, first half: the Agent's latches.
BeginDel(d) ==
    /\ "del" \in Events /\ ~BlockCloud /\ pc[Studio] = "idle"
    /\ pc' = [pc EXCEPT ![Studio] = "del2"]
    /\ arg' = [arg EXCEPT ![Studio] = d]
    /\ seen' = seen \ {d}
    /\ notified' = notified \ {d}
    /\ kicked' = kicked \ {d}
    /\ wanted' = wanted \ {d}
    /\ UNCHANGED <<sessVars, asked, hasCb, told, reported, lanVars, pend>>

\* Second half: CloudSession::del_subscribe.  A new period starts for the
\* histories told and reported.
DelSubscribe ==
    /\ pc[Studio] = "del2"
    /\ Goto(Studio, "idle")
    /\ IF session = "none"
       THEN UNCHANGED <<subscribed, active, broker>>
       ELSE /\ subscribed' = subscribed \ {arg[Studio]}
            /\ active' = active \ {arg[Studio]}
            /\ broker' = broker \ ({arg[Studio]} \cap active)
    /\ asked' = asked \cap broker'
    /\ told' = told \ {arg[Studio]}
    /\ reported' = reported \ {arg[Studio]}
    /\ UNCHANGED <<session, connected, link, kicked, seen, notified, hasCb, wanted,
                   lanVars, arg, pend>>

\* set_user_selected_machine re-arms the kickstart of the selected device.
SelectMachine(d) ==
    /\ "select" \in Events /\ pc[Studio] = "idle"
    /\ kicked' = kicked \ {d}
    /\ Goto(Studio, "snap")
    /\ UNCHANGED <<sessVars, asked, noteVars, lanVars, arg, pend>>

---------------------------------------------------------------------------
(* kickstart_cloud_status *)

\* The thread goes back to what it was doing.
Done(t) == Goto(t, "idle")

\* is_connected(), then active_devices(): nothing to do while not connected.  (A
\* disconnect between the two reads only shortens the list.)
KickSnapshot(t) ==
    /\ pc[t] = "snap"
    /\ IF session # "none" /\ connected
         THEN Goto(t, "latch") /\ pend' = [pend EXCEPT ![t] = active]
         ELSE Done(t) /\ UNCHANGED pend
    /\ UNCHANGED <<sessVars, kickVars, noteVars, lanVars, arg>>

\* cloud_kickstarted_devs_.insert(d).second under mu_.
KickLatch(t) ==
    /\ pc[t] = "latch"
    /\ pend' = [pend EXCEPT ![t] = @ \ kicked]
    /\ kicked' = kicked \cup pend[t]
    /\ Goto(t, "send")
    /\ UNCHANGED <<sessVars, asked, noteVars, lanVars, arg>>

KickFinished(t) ==
    /\ pc[t] = "send" /\ pend[t] = {}
    /\ Done(t)
    /\ UNCHANGED <<sessVars, kickVars, noteVars, lanVars, arg, pend>>

\* cloud_send_message / CloudSession::publish of pushall to one device.  It fails
\* when connected_ is false, and may when the transport is gone.  The answer
\* comes on the report topic, so only a subscribed device is really asked.
KickSend(t, d) ==
    /\ pc[t] = "send" /\ d \in pend[t]
    /\ pend' = [pend EXCEPT ![t] = @ \ {d}]
    /\ \/ /\ connected
          /\ asked' = asked \cup ({d} \cap broker)
          /\ UNCHANGED <<pc, arg>>
       \/ /\ ~connected \/ link = "down"
          /\ Goto(t, "unlatch")
          /\ arg' = [arg EXCEPT ![t] = d]
          /\ UNCHANGED asked
    /\ UNCHANGED <<sessVars, kicked, noteVars, lanVars>>

\* The publish failed: un-latch so that a later CONNACK or subscribe retries.
KickUnlatch(t) ==
    /\ pc[t] = "unlatch"
    /\ kicked' = kicked \ {arg[t]}
    /\ Goto(t, "send")
    /\ UNCHANGED <<sessVars, asked, noteVars, lanVars, arg, pend>>

---------------------------------------------------------------------------
(* The cloud session's loop thread *)

\* CONNACK rc = 0: connected_ is set before the subscriptions are re-applied.
Connack ==
    /\ pc[Loop] = "idle" /\ session = "started" /\ ~connected /\ link = "down"
    /\ link' = "up"
    /\ connected' = TRUE
    /\ Goto(Loop, "apply")
    /\ UNCHANGED <<session, subscribed, active, broker, kickVars, noteVars,
                   lanVars, arg, pend>>

\* Mutant: the new connection starts without the old one's subscriptions.
ConnackApplyForgets ==
    /\ pc[Loop] = "apply"
    /\ active' = {}
    /\ Goto(Loop, "snap")
    /\ UNCHANGED <<session, connected, link, subscribed, broker, kickVars,
                   noteVars, lanVars, arg, pend>>

\* active_.clear(); apply_subscriptions_locked_(); then on_connected_(0), which
\* runs kickstart_cloud_status.
ConnackApply ==
    /\ pc[Loop] = "apply"
    /\ Apply({}, subscribed)
    /\ Goto(Loop, "snap")
    /\ UNCHANGED <<session, connected, link, subscribed, kickVars, noteVars,
                   lanVars, arg, pend>>

\* CONNACK with an error code: status # 0 for the Agent.
ConnackRefused ==
    /\ "refuse" \in Events
    /\ pc[Loop] = "idle" /\ session = "started" /\ ~connected /\ link = "down"
    /\ Goto(Loop, "unkick")
    /\ UNCHANGED <<sessVars, kickVars, noteVars, lanVars, arg, pend>>

\* The transport breaks; the loop thread finds out when it is next idle.
LinkDrop ==
    /\ "drop" \in Events /\ link = "up"
    /\ link' = "down"
    /\ broker' = {}
    /\ asked' = {}
    /\ UNCHANGED <<session, connected, subscribed, active, kicked, noteVars,
                   lanVars, thrVars>>

\* on_disconnect: connected_ = false, active_.clear(), then on_connected_(-1).
OnDisconnect ==
    /\ pc[Loop] = "idle" /\ connected /\ link = "down"
    /\ connected' = FALSE
    /\ Goto(Loop, "clear")
    /\ UNCHANGED <<session, link, subscribed, active, broker, kickVars, noteVars,
                   lanVars, arg, pend>>

DisconnectClear ==
    /\ pc[Loop] = "clear"
    /\ active' = {}
    /\ Goto(Loop, "unkick")
    /\ UNCHANGED <<session, connected, link, subscribed, broker, kickVars,
                   noteVars, lanVars, arg, pend>>

\* The Agent's on_connected_cb with status # 0.
DisconnectUnkick ==
    /\ pc[Loop] = "unkick"
    /\ kicked' = {}
    /\ Goto(Loop, "idle")
    /\ UNCHANGED <<sessVars, asked, noteVars, lanVars, arg, pend>>

\* Mutant: one latch for "seen" and "told", as before they were split.
CloudReportOneLatch(d) ==
    /\ "report" \in Events
    /\ pc[Loop] = "idle" /\ link = "up" /\ connected /\ d \in broker
    /\ seen' = seen \cup {d}
    /\ told' = IF hasCb /\ d \notin seen THEN told \cup {d} ELSE told
    /\ reported' = IF hasCb /\ d \in wanted THEN reported \cup {d} ELSE reported
    /\ UNCHANGED <<sessVars, kickVars, notified, hasCb, wanted, lanVars, thrVars>>

\* A report arrives (on_msg_cb): the seen and notified latches, with the
\* callback read fresh, and the on_printer_connected notification.  A rejected
\* command's echo (84033543) returns before all this and is a stuttering step.
CloudReport(d) ==
    /\ "report" \in Events
    /\ pc[Loop] = "idle" /\ link = "up" /\ connected /\ d \in broker
    /\ seen' = seen \cup {d}
    /\ notified' = IF hasCb THEN notified \cup {d} ELSE notified
    /\ told' = IF hasCb /\ d \notin notified THEN told \cup {d} ELSE told
    /\ reported' = IF hasCb /\ d \in wanted THEN reported \cup {d} ELSE reported
    /\ UNCHANGED <<sessVars, kickVars, hasCb, wanted, lanVars, thrVars>>

---------------------------------------------------------------------------
(* LAN priority *)

\* maybe_prefer_lan_subscription on a LAN report, with the watchdog's start.
LanReport(d) ==
    /\ "lan" \in Events /\ pc[Lan] = "idle"
    /\ fresh' = fresh \cup {d}
    /\ prio' = prio \cup {d}
    /\ \/ watchdog' = (watchdog \/ d \notin prio)
       \/ /\ "spawnfail" \in Events /\ ~watchdog /\ d \notin prio
          /\ UNCHANGED watchdog
    /\ UNCHANGED <<sessVars, kickVars, noteVars, silent, thrVars>>

\* kLanSilenceFailback passes without a LAN report.
LanSilent(d) ==
    /\ d \in fresh
    /\ fresh' = fresh \ {d}
    /\ UNCHANGED <<sessVars, kickVars, noteVars, prio, watchdog, silent, thrVars>>

\* notify_local_connected with a status other than Ok.
LanLost(d) ==
    /\ "lan" \in Events /\ pc[Lan] = "idle"
    /\ pc' = [pc EXCEPT ![Lan] = "failback"]
    /\ arg' = [arg EXCEPT ![Lan] = d]
    /\ UNCHANGED <<sessVars, kickVars, noteVars, lanVars, pend>>

\* lan_watchdog_loop collects the silent devices under mu_ ...
WatchdogTick ==
    /\ watchdog /\ pc[Watchdog] = "idle" /\ silent = {}
    /\ silent' = prio \ fresh
    /\ silent' # {}
    /\ UNCHANGED <<sessVars, kickVars, noteVars, prio, fresh, watchdog, thrVars>>

\* ... and fails them back one by one, without looking at them again.
WatchdogNext(d) ==
    /\ pc[Watchdog] = "idle" /\ d \in silent
    /\ silent' = silent \ {d}
    /\ pc' = [pc EXCEPT ![Watchdog] = "failback"]
    /\ arg' = [arg EXCEPT ![Watchdog] = d]
    /\ UNCHANGED <<sessVars, kickVars, noteVars, prio, fresh, watchdog, pend>>

\* Mutant: the device is subscribed again but stays LAN-priority.
FailbackKeepsPriority(t) ==
    /\ pc[t] = "failback"
    /\ Goto(t, IF arg[t] \in prio /\ ~BlockCloud THEN "add" ELSE "idle")
    /\ UNCHANGED <<sessVars, kickVars, noteVars, lanVars, arg, pend>>

\* lan_report_failback.
Failback(t) ==
    /\ pc[t] = "failback"
    /\ prio' = prio \ {arg[t]}
    /\ Goto(t, IF arg[t] \in prio /\ ~BlockCloud THEN "add" ELSE "idle")
    /\ UNCHANGED <<sessVars, kickVars, noteVars, fresh, watchdog, silent, arg, pend>>

---------------------------------------------------------------------------

KickStep(t) ==
    \/ KickSnapshot(t) \/ KickLatch(t) \/ KickFinished(t) \/ KickUnlatch(t)
    \/ \E d \in pend[t] : KickSend(t, d)

ThreadStep(t) == AddSubscribe(t) \/ Failback(t) \/ KickStep(t)

LoopStep == ConnackApply \/ OnDisconnect \/ DisconnectClear \/ DisconnectUnkick

WatchdogStep == WatchdogTick \/ \E d \in Devs : WatchdogNext(d)

Environment ==
    \/ ConnectCloud \/ ConnectCloudFails \/ RegisterCallback
    \/ Connack \/ ConnackRefused \/ LinkDrop
    \/ \E d \in Devs \cup {NoDev} : BeginAdd(d)
    \/ \E d \in Devs : \/ BeginDel(d) \/ SelectMachine(d)
                       \/ CloudReport(d)
                       \/ LanReport(d) \/ LanSilent(d) \/ LanLost(d)

Next ==
    \/ Environment
    \/ DelSubscribe
    \/ LoopStep
    \/ WatchdogStep
    \/ \E t \in Threads : ThreadStep(t)

Spec == Init /\ [][Next]_vars

\* Threads that have work keep running.
Fairness ==
    /\ \A t \in Threads : WF_vars(ThreadStep(t))
    /\ WF_vars(DelSubscribe) /\ WF_vars(LoopStep) /\ WF_vars(WatchdogStep)

FairSpec == Spec /\ Fairness

---------------------------------------------------------------------------
(* Properties *)

\* While connected (and the CONNACK callback has re-applied the set), active_
\* is exactly the wanted set and the broker of this very connection holds it,
\* however add, del, reconnects and failbacks interleave: no subscription that
\* arrives around a CONNACK is lost, and none survives from an old connection.
SubscriptionsApplied ==
    connected /\ pc[Loop] # "apply" /\ link = "up" =>
        active = subscribed /\ broker = subscribed

\* Every thread is at rest and the connection is up.
Quiet == /\ \A t \in Threads : pc[t] = "idle"
         /\ connected /\ link = "up"

\* kickstart_cloud_status: once everything is at rest, every device with a live
\* report subscription has been asked for a snapshot on this connection.
KickstartReachesAll == Quiet => active \subseteq asked

\* on_msg_cb: a device Studio subscribed, whose report arrived with the callback
\* registered, has been announced with on_printer_connected since Studio last
\* unsubscribed it, whatever came before the callback was set.
AnnouncedAfterSubscribe == reported \subseteq told

\* Cloud telemetry of a device whose LAN reports stopped does not stay muted:
\* the watchdog takes it out of lan_report_priority_ unless reports resume.
SilenceFailsBack ==
    \A d \in Devs : (d \in prio /\ d \notin fresh) ~> (d \notin prio \/ d \in fresh)

\* No printer is left out: each one that is subscribed is asked for a snapshot
\* and announced to Studio, whichever thread came first.
AskedAndAnnounced == KickstartReachesAll /\ AnnouncedAfterSubscribe
=============================================================================
