--------------------------- MODULE LanLifecycle ---------------------------
(***************************************************************************)
(* The life of the LAN MQTT session the Agent keeps in lan_session_: who   *)
(* creates it, who replaces it, who tears it down, and on which thread.    *)
(*                                                                         *)
(* Threads of the program that appear here:                                *)
(*   Studio      the slicer's UI thread (connect_printer,                  *)
(*               disconnect_printer, ~Agent);                              *)
(*   d \in AutoDevs  the detached autostart worker of device d (at most    *)
(*               one per device: lan_autostart_inflight_);                 *)
(*   Timer       deferred_dc_thread_, the grace timer of                   *)
(*               mqtt_keep_connection;                                     *)
(*   one libmosquitto loop thread per session, which runs the callbacks.   *)
(* A step is one critical section of mu_ or deferred_dc_mu_, or one        *)
(* blocking call (thread join, mosquitto_loop_stop).                       *)
(***************************************************************************)
EXTENDS FiniteSets

CONSTANTS
    Devs,       \* printers (dev_id)
    Creds,      \* ip / access code / ssl variants of one connect request
    AutoDevs,   \* devices whose LAN ip and access code are cached
    Studio,     \* the slicer's thread
    Timer,      \* deferred_dc_thread_
    Sessions,   \* pool of LanSession objects; a freed one is reused
    NoSession,  \* a null shared_ptr
    Keep,       \* obn.conf mqtt_keep_connection
    Events      \* which ABI calls the slicer makes, and "ack" reports

Callers == AutoDevs \cup {Studio}
Threads == Callers \cup {Timer}
Targets == Devs \X Creds

ASSUME ConstantAssumption ==
    /\ Keep \in BOOLEAN
    /\ Events \subseteq {"connect", "disconnect", "destroy", "ack"}
    /\ Targets # {}
    /\ AutoDevs \subseteq Devs
    /\ Studio \notin Devs
    /\ Timer \notin Devs \cup {Studio}
    /\ NoSession \notin Sessions

VARIABLES
    lan,        \* Agent::lan_session_
    selected,   \* Agent::user_selected_machine_ (NoSession stands for "")
    armed,      \* Agent::deferred_dc_active_
    link,       \* state of a session's MQTT client and loop thread
    tgt,        \* <<dev, cred>> of a session
    ever,       \* LanSession::ever_connected_
    cb,         \* callback the session's loop thread is running
    quit,       \* mode of mosquitto_loop_stop once it was called
    pc, op,     \* where each thread is, and in which operation
    want,       \* <<dev, cred>> argument of connect_printer
    mine,       \* session in a local shared_ptr (prev, session, displaced)
    appCert,    \* Agent::app_cert_install_sent_
    doomed      \* history: the session disconnect_printer put under the timer

sessVars == <<link, tgt, ever, cb, quit>>
thrVars  == <<pc, op, want, mine>>
auxVars  == <<appCert, doomed>>
vars     == <<lan, selected, armed, sessVars, thrVars, auxVars>>

DevOf(s) == tgt[s][1]

\* "free": no object; "trying": loop thread started, no MQTT session (before
\* the first CONNACK or between reconnects); "up": CONNACK accepted; "gone":
\* the loop thread has exited and waits to be joined.
LinkStates == {"free", "trying", "up", "gone"}

\* Callbacks on the loop thread.  "ok" and "bye" carry ConnectStatusOk (a
\* CONNACK, and a disconnect with rc = 0), "bad" carries Failed or Lost; the
\* second half of notify_local_connected of an Ok status is "tail".
CbStates == {"none", "ok", "bye", "bad", "tail"}
QuitModes == {"no", "graceful", "force"}

Ops == {"none", "connect", "displace", "defer", "drop", "expel", "destroy",
        "timer"}
Pcs == {"idle", "fast", "cancel", "join", "reuse", "notify", "take", "stop",
        "quit", "wait", "start", "install", "disc", "arm", "poll", "closed",
        "destroyed", "dead",
        "none", "waiting", "done"}

\* The locals that hold a session the thread still has to disconnect or install.
Holding == {"stop", "quit", "wait", "install"}

TypeOK ==
    /\ lan \in Sessions \cup {NoSession}
    /\ selected \in Devs \cup {NoSession}
    /\ armed \in BOOLEAN
    /\ link \in [Sessions -> LinkStates]
    /\ tgt \in [Sessions -> Targets]
    /\ ever \in [Sessions -> BOOLEAN]
    /\ cb \in [Sessions -> CbStates]
    /\ quit \in [Sessions -> QuitModes]
    /\ pc \in [Threads -> Pcs]
    /\ op \in [Threads -> Ops]
    /\ want \in [Callers -> Targets]
    /\ mine \in [Threads -> Sessions \cup {NoSession}]
    /\ appCert \subseteq Devs
    /\ doomed \in Sessions \cup {NoSession}

AnyTarget == CHOOSE x \in Targets : TRUE

Init ==
    /\ lan = NoSession
    /\ selected = NoSession
    /\ armed = FALSE
    /\ link = [s \in Sessions |-> "free"]
    /\ tgt = [s \in Sessions |-> AnyTarget]
    /\ ever = [s \in Sessions |-> FALSE]
    /\ cb = [s \in Sessions |-> "none"]
    /\ quit = [s \in Sessions |-> "no"]
    /\ pc = [t \in Threads |-> IF t = Timer THEN "none" ELSE "idle"]
    /\ op = [t \in Threads |-> "none"]
    /\ want = [t \in Callers |-> AnyTarget]
    /\ mine = [t \in Threads |-> NoSession]
    /\ appCert = {}
    /\ doomed = NoSession

\* The process is running: no std::terminate, Agent not yet destroyed.
Alive == /\ \A t \in Callers : pc[t] # "dead"
         /\ pc[Studio] # "destroyed"

\* LanSession::is_connected: client_ still there (no disconnect() has moved it
\* out) and the last connect callback had rc = 0.
IsConnected(s) == s # NoSession /\ link[s] = "up" /\ quit[s] = "no"

Goto(t, where) == pc' = [pc EXCEPT ![t] = where]

---------------------------------------------------------------------------
(* Entry points *)

\* bambu_network_connect_printer.
BeginConnect(tg) ==
    /\ "connect" \in Events /\ Alive /\ pc[Studio] = "idle"
    /\ pc' = [pc EXCEPT ![Studio] = IF Keep THEN "cancel" ELSE "take"]
    /\ op' = [op EXCEPT ![Studio] = "connect"]
    /\ want' = [want EXCEPT ![Studio] = tg]
    /\ UNCHANGED <<lan, selected, armed, sessVars, mine, auxVars>>

\* bambu_network_disconnect_printer.
BeginDisconnect ==
    /\ "disconnect" \in Events /\ Alive /\ pc[Studio] = "idle"
    /\ Goto(Studio, IF Keep THEN "disc" ELSE "take")
    /\ op' = [op EXCEPT ![Studio] = "drop"]
    /\ UNCHANGED <<lan, selected, armed, sessVars, want, mine, auxVars>>

\* disconnect_printer with mqtt_keep_connection: have_session decides between
\* the grace timer and the immediate teardown.
CheckDeferred ==
    /\ Alive /\ pc[Studio] = "disc"
    /\ IF lan # NoSession
         THEN /\ Goto(Studio, "cancel")
              /\ op' = [op EXCEPT ![Studio] = "defer"]
         ELSE Goto(Studio, "take") /\ UNCHANGED op
    /\ UNCHANGED <<lan, selected, armed, sessVars, want, mine, auxVars>>

\* ~Agent, which starts with shutdown_lan_session.
BeginDestroy ==
    /\ "destroy" \in Events /\ Alive /\ pc[Studio] = "idle"
    /\ Goto(Studio, "cancel")
    /\ op' = [op EXCEPT ![Studio] = "destroy"]
    /\ UNCHANGED <<lan, selected, armed, sessVars, want, mine, auxVars>>

\* The rest of ~Agent, up to the end of the destructor.
EndDestroy ==
    /\ Alive /\ pc[Studio] = "closed"
    /\ Goto(Studio, "destroyed")
    /\ UNCHANGED <<lan, selected, armed, sessVars, op, want, mine, auxVars>>

\* set_user_selected_machine; its trailing autostart_lan_if_selected is
\* Autostart, which any later SSDP or access-code hook may run as well.
SelectMachine(d) ==
    /\ Alive /\ pc[Studio] = "idle"
    /\ selected # d
    /\ selected' = d
    /\ UNCHANGED <<lan, armed, sessVars, thrVars, auxVars>>

\* autostart_lan_if_selected: only the selected device, only while it has no
\* connected session, one worker per device.  The worker thread that it
\* detaches begins with the fast path of ensure_lan_session.
Autostart(d, c) ==
    /\ Alive /\ d = selected /\ pc[d] = "idle"
    /\ ~(IsConnected(lan) /\ DevOf(lan) = d)
    /\ pc' = [pc EXCEPT ![d] = "fast"]
    /\ op' = [op EXCEPT ![d] = "connect"]
    /\ want' = [want EXCEPT ![d] = <<d, c>>]
    /\ UNCHANGED <<lan, selected, armed, sessVars, mine, auxVars>>

\* ensure_lan_session: already connected to this printer, or connect_printer.
EnsureFast(d) ==
    /\ Alive /\ pc[d] = "fast"
    /\ Goto(d, IF IsConnected(lan) /\ DevOf(lan) = d THEN "idle"
               ELSE IF Keep THEN "cancel" ELSE "take")
    /\ UNCHANGED <<lan, selected, armed, sessVars, op, want, mine, auxVars>>

\* Mutant: the worker exits without erasing its lan_autostart_inflight_ entry.
EnsurePollKeepsInflight(d) ==
    /\ Alive /\ pc[d] = "poll"
    /\ UNCHANGED vars

\* ensure_lan_session waits up to 3 s for the CONNACK; the worker then erases
\* its lan_autostart_inflight_ entry whether or not it came.
EnsurePoll(d) ==
    /\ Alive /\ pc[d] = "poll"
    /\ Goto(d, "idle")
    /\ UNCHANGED <<lan, selected, armed, sessVars, op, want, mine, auxVars>>

---------------------------------------------------------------------------
(* cancel_deferred_disconnect / schedule_deferred_disconnect *)

\* Mutant: teardown treats the cancelled deferral as "keep the session".
AfterCancelKeeps(t) ==
    CASE op[t] = "connect" -> "reuse"
      [] op[t] = "defer"   -> "arm"
      [] op[t] = "destroy" -> "closed"
      [] OTHER             -> "take"

AfterCancel(t) ==
    CASE op[t] = "connect" -> "reuse"
      [] op[t] = "defer"   -> "arm"
      [] OTHER             -> "take"

\* Mutant: the timer thread is woken but not joined.
CancelDeferredNoJoin(t) ==
    /\ Alive /\ pc[t] = "cancel"
    /\ armed' = FALSE
    /\ Goto(t, AfterCancel(t))
    /\ doomed' = IF armed /\ op[t] # "defer" THEN NoSession ELSE doomed
    /\ UNCHANGED <<lan, selected, sessVars, op, want, mine, appCert>>

\* Clear deferred_dc_active_, wake the timer thread, then join it if it is
\* joinable.  deferred_dc_thread_ itself is not protected by a mutex: a second
\* thread that reaches join() while one is inside gets std::system_error,
\* which no caller catches.
CancelDeferred(t) ==
    /\ Alive /\ pc[t] = "cancel"
    /\ armed' = FALSE
    /\ Goto(t, CASE pc[Timer] = "none" -> AfterCancel(t)
                 [] \E u \in Callers : pc[u] = "join" -> "dead"
                 [] OTHER -> "join")
    /\ doomed' = IF armed /\ op[t] # "defer" THEN NoSession ELSE doomed
    /\ UNCHANGED <<lan, selected, sessVars, op, want, mine, appCert>>

\* std::thread::join returns.
JoinDeferred(t) ==
    /\ Alive /\ pc[t] = "join"
    /\ pc[Timer] = "done"
    /\ pc' = [pc EXCEPT ![t] = AfterCancel(t), ![Timer] = "none"]
    /\ UNCHANGED <<lan, selected, armed, sessVars, op, want, mine, auxVars>>

\* deferred_dc_active_ = true and the timer thread starts.
ArmDeferred ==
    /\ Alive /\ pc[Studio] = "arm"
    /\ armed' = TRUE
    /\ pc' = [pc EXCEPT ![Studio] = "idle", ![Timer] = "waiting"]
    /\ op' = [op EXCEPT ![Studio] = "none", ![Timer] = "timer"]
    /\ doomed' = lan
    /\ UNCHANGED <<lan, selected, sessVars, want, mine, appCert>>

\* std::thread's constructor threw: tear the session down right away.
ArmFails ==
    /\ Alive /\ pc[Studio] = "arm"
    /\ armed' = FALSE
    /\ Goto(Studio, "take")
    /\ op' = [op EXCEPT ![Studio] = "expel"]
    /\ UNCHANGED <<lan, selected, sessVars, want, mine, auxVars>>

\* wait_for returns true: somebody cleared deferred_dc_active_.
TimerCancelled ==
    /\ Alive /\ pc[Timer] = "waiting"
    /\ ~armed
    /\ Goto(Timer, "done")
    /\ UNCHANGED <<lan, selected, armed, sessVars, op, want, mine, auxVars>>

\* kMqttKeepReconnectGracePeriod is over.
TimerExpires ==
    /\ Alive /\ pc[Timer] = "waiting"
    /\ armed
    /\ armed' = FALSE
    /\ Goto(Timer, "take")
    /\ UNCHANGED <<lan, selected, sessVars, op, want, mine, auxVars>>

---------------------------------------------------------------------------
(* connect_printer, and the teardown shared by all operations *)

\* mqtt_keep_connection: a connected session with the same credentials stays.
TryReuse(t) ==
    /\ Alive /\ pc[t] = "reuse"
    /\ Goto(t, IF IsConnected(lan) /\ tgt[lan] = want[t] THEN "notify"
               ELSE "take")
    /\ UNCHANGED <<lan, selected, armed, sessVars, op, want, mine, auxVars>>

AfterConnect(t) == IF t = Studio THEN "idle" ELSE "poll"

\* notify_local_connected(Ok) for a reused session.
NotifyReuse(t) ==
    /\ Alive /\ pc[t] = "notify"
    /\ armed' = FALSE
    /\ Goto(t, AfterConnect(t))
    /\ UNCHANGED <<lan, selected, sessVars, op, want, mine, auxVars>>

AfterStop(t) ==
    CASE op[t] = "connect"  -> "start"
      [] op[t] = "displace" -> AfterConnect(t)
      [] op[t] = "destroy"  -> "closed"
      [] op[t] = "timer"    -> "done"
      [] OTHER              -> "idle"

\* session = std::move(lan_session_) under mu_.
TakeSession(t) ==
    /\ Alive /\ pc[t] = "take"
    /\ mine' = [mine EXCEPT ![t] = lan]
    /\ lan' = NoSession
    /\ Goto(t, IF lan = NoSession THEN AfterStop(t) ELSE "stop")
    /\ UNCHANGED <<selected, armed, sessVars, op, want, auxVars>>

\* LanSession::disconnect / mqtt::Client::disconnect: connected_ is read first
\* and decides how mosquitto_loop_stop, a step later, ends the loop thread.
StopRead(t) ==
    /\ Alive /\ pc[t] = "stop"
    /\ quit' = [quit EXCEPT ![mine[t]] =
                    IF link[mine[t]] = "up" THEN "graceful" ELSE "force"]
    /\ Goto(t, "quit")
    /\ UNCHANGED <<lan, selected, armed, link, tgt, ever, cb, op, want, mine, auxVars>>

\* mosquitto_disconnect, then mosquitto_loop_stop starts to wait.
StopRequest(t) ==
    /\ Alive /\ pc[t] = "quit"
    /\ Goto(t, "wait")
    /\ UNCHANGED <<lan, selected, armed, sessVars, op, want, mine, auxVars>>

\* mosquitto_loop_stop returns; the last reference to the session goes away.
\* Only disconnect_printer's own teardown erases the app-cert latch here.
StopJoin(t) ==
    /\ Alive /\ pc[t] = "wait"
    /\ link[mine[t]] = "gone"
    /\ link' = [link EXCEPT ![mine[t]] = "free"]
    /\ tgt' = [tgt EXCEPT ![mine[t]] = AnyTarget]
    /\ ever' = [ever EXCEPT ![mine[t]] = FALSE]
    /\ quit' = [quit EXCEPT ![mine[t]] = "no"]
    /\ mine' = [mine EXCEPT ![t] = NoSession]
    /\ appCert' = IF op[t] = "drop" THEN appCert \ {DevOf(mine[t])} ELSE appCert
    /\ Goto(t, AfterStop(t))
    /\ UNCHANGED <<lan, selected, armed, cb, op, want, doomed>>

\* mqtt::Client::connect: connect_async and loop_start; a broker that does not
\* answer yet is left to the loop thread's reconnects.
ClientConnect(s, tg) ==
    /\ link' = [link EXCEPT ![s] = "trying"]
    /\ tgt' = [tgt EXCEPT ![s] = tg]

\* LanSession::start succeeds: the loop thread runs, and its callbacks may come
\* before the session is stored in lan_session_.
StartSession(t, s) ==
    /\ Alive /\ pc[t] = "start"
    /\ link[s] = "free"
    /\ ClientConnect(s, want[t])
    /\ mine' = [mine EXCEPT ![t] = s]
    /\ Goto(t, "install")
    /\ UNCHANGED <<lan, selected, armed, ever, cb, quit, op, want, auxVars>>

\* LanSession::start returns an error; no loop thread was started.  The worker
\* then skips its poll.
StartFails(t) ==
    /\ Alive /\ pc[t] = "start"
    /\ Goto(t, "idle")
    /\ UNCHANGED <<lan, selected, armed, sessVars, op, want, mine, auxVars>>

\* Mutant: lan_session_ is overwritten, a displaced session is forgotten.
InstallSessionOverwrites(t) ==
    /\ Alive /\ pc[t] = "install"
    /\ lan' = mine[t]
    /\ mine' = [mine EXCEPT ![t] = NoSession]
    /\ op' = [op EXCEPT ![t] = "displace"]
    /\ Goto(t, AfterConnect(t))
    /\ UNCHANGED <<selected, armed, sessVars, want, auxVars>>

\* displaced = move(lan_session_); lan_session_ = move(session).
InstallSession(t) ==
    /\ Alive /\ pc[t] = "install"
    /\ lan' = mine[t]
    /\ mine' = [mine EXCEPT ![t] = lan]
    /\ op' = [op EXCEPT ![t] = "displace"]
    /\ Goto(t, IF lan = NoSession THEN AfterConnect(t) ELSE "stop")
    /\ UNCHANGED <<selected, armed, sessVars, want, auxVars>>

---------------------------------------------------------------------------
(* The loop thread of session s (libmosquitto, and the callbacks it runs) *)

\* mosquitto_loop_stop is waiting for the loop thread of s.
Stopping(s) == \E t \in Threads : mine[t] = s /\ pc[t] = "wait"

Running(s) == Alive /\ link[s] \in {"trying", "up"} /\ cb[s] = "none"

\* CONNACK with rc = 0.
Connack(s) ==
    /\ Running(s) /\ link[s] = "trying" /\ ~Stopping(s)
    /\ link' = [link EXCEPT ![s] = "up"]
    /\ ever' = [ever EXCEPT ![s] = TRUE]
    /\ cb' = [cb EXCEPT ![s] = "ok"]
    /\ UNCHANGED <<lan, selected, armed, tgt, quit, thrVars, auxVars>>

\* CONNACK with an error: ConnectStatusFailed, libmosquitto retries.
Refused(s) ==
    /\ Running(s) /\ link[s] = "trying" /\ ~Stopping(s)
    /\ cb' = [cb EXCEPT ![s] = "bad"]
    /\ UNCHANGED <<lan, selected, armed, link, tgt, ever, quit, thrVars, auxVars>>

\* The connection breaks: Lost, unless no CONNACK was ever seen.
LinkLost(s) ==
    /\ Running(s) /\ ever[s] /\ ~Stopping(s)
    /\ link' = [link EXCEPT ![s] = "trying"]
    /\ cb' = [cb EXCEPT ![s] = "bad"]
    /\ UNCHANGED <<lan, selected, armed, tgt, ever, quit, thrVars, auxVars>>

\* The loop thread writes DISCONNECT and reports rc = 0.
GracefulBye(s) ==
    /\ Running(s) /\ link[s] = "up" /\ Stopping(s) /\ quit[s] = "graceful"
    /\ link' = [link EXCEPT ![s] = "trying"]
    /\ cb' = [cb EXCEPT ![s] = "bye"]
    /\ UNCHANGED <<lan, selected, armed, tgt, ever, quit, thrVars, auxVars>>

\* The loop thread exits: after its last callback, or cancelled by force.
LoopExit(s) ==
    /\ Alive /\ Stopping(s)
    /\ \/ quit[s] = "graceful" /\ link[s] = "trying" /\ cb[s] = "none"
       \/ quit[s] = "force" /\ link[s] \in {"trying", "up"}
    /\ link' = [link EXCEPT ![s] = "gone"]
    /\ cb' = [cb EXCEPT ![s] = "none"]
    /\ UNCHANGED <<lan, selected, armed, tgt, ever, quit, thrVars, auxVars>>

\* Mutant: the callback joins the timer thread it has just disarmed.
CallbackDisarmJoins(s) ==
    /\ Alive /\ cb[s] \in {"ok", "bye"}
    /\ pc[Timer] \in {"none", "done"}
    /\ armed' = FALSE
    /\ cb' = [cb EXCEPT ![s] = "tail"]
    /\ doomed' = IF armed THEN NoSession ELSE doomed
    /\ UNCHANGED <<lan, selected, link, tgt, ever, quit, thrVars, appCert>>

\* notify_local_connected, first half: an Ok status disarms the timer.  The
\* timer thread is not joined here.
CallbackDisarm(s) ==
    /\ Alive /\ cb[s] \in {"ok", "bye"}
    /\ armed' = FALSE
    /\ cb' = [cb EXCEPT ![s] = "tail"]
    /\ doomed' = IF armed THEN NoSession ELSE doomed
    /\ UNCHANGED <<lan, selected, link, tgt, ever, quit, thrVars, appCert>>

\* notify_local_connected, second half: the slicer's callback, and the app-cert
\* latch of a session that failed or was lost.
CallbackReturn(s) ==
    /\ Alive /\ cb[s] \in {"bad", "tail"}
    /\ cb' = [cb EXCEPT ![s] = "none"]
    /\ appCert' = IF cb[s] = "bad" THEN appCert \ {DevOf(s)} ELSE appCert
    /\ UNCHANGED <<lan, selected, armed, link, tgt, ever, quit, thrVars, doomed>>

\* A report with security.app_cert_install result SUCCESS arrives on s
\* (harvest_security_report).
CertAck(s) ==
    /\ "ack" \in Events /\ Running(s) /\ link[s] = "up"
    /\ appCert' = appCert \cup {DevOf(s)}
    /\ UNCHANGED <<lan, selected, armed, sessVars, thrVars, doomed>>

\* The process has ended; nothing happens any more.
Terminated == ~Alive /\ UNCHANGED vars

---------------------------------------------------------------------------

CallerStep(t) ==
    \/ CancelDeferred(t) \/ JoinDeferred(t) \/ TryReuse(t) \/ NotifyReuse(t)
    \/ StartFails(t) \/ InstallSession(t)
    \/ \E s \in Sessions : StartSession(t, s)

StopStep(t) == TakeSession(t) \/ StopRead(t) \/ StopRequest(t) \/ StopJoin(t)

StudioStep == CheckDeferred \/ ArmDeferred \/ ArmFails \/ EndDestroy

WorkerStep(d) == EnsureFast(d) \/ EnsurePoll(d)

TimerStep == TimerCancelled \/ TimerExpires

Network(s) == Connack(s) \/ Refused(s) \/ LinkLost(s) \/ CertAck(s)

LoopStep(s) ==
    GracefulBye(s) \/ LoopExit(s) \/ CallbackDisarm(s) \/ CallbackReturn(s)

Request ==
    \/ \E tg \in Targets : BeginConnect(tg)
    \/ BeginDisconnect
    \/ BeginDestroy
    \/ \E d \in Devs : SelectMachine(d)

Hook == \E d \in AutoDevs, c \in Creds : Autostart(d, c)

Next ==
    \/ Request \/ Hook \/ StudioStep \/ TimerStep
    \/ \E t \in Callers : CallerStep(t)
    \/ \E t \in Threads : StopStep(t)
    \/ \E d \in AutoDevs : WorkerStep(d)
    \/ \E s \in Sessions : Network(s) \/ LoopStep(s)
    \/ Terminated

Spec == Init /\ [][Next]_vars

\* Threads that have work keep running; the loop thread runs its callbacks and
\* obeys mosquitto_loop_stop; the grace period elapses.  Nothing is assumed of
\* the slicer's requests or of the network.
Fairness ==
    /\ \A t \in Callers : WF_vars(CallerStep(t))
    /\ \A t \in Threads : WF_vars(StopStep(t))
    /\ \A d \in AutoDevs : WF_vars(WorkerStep(d))
    /\ WF_vars(StudioStep) /\ WF_vars(TimerStep)
    /\ \A s \in Sessions : WF_vars(LoopStep(s))

FairSpec == Spec /\ Fairness

\* As FairSpec, and the SSDP hook (about every 5 s) keeps calling
\* autostart_lan_if_selected, and LanSession::start, which fails only on local
\* causes (no CA bundle, no memory), does not fail for ever.
HookedSpec ==
    /\ FairSpec
    /\ \A d \in AutoDevs : /\ WF_vars(\E c \in Creds : Autostart(d, c))
                       /\ SF_vars(\E s \in Sessions : StartSession(d, s))

---------------------------------------------------------------------------
(* Properties *)

\* Ownership of LanSession objects: a session whose loop thread exists is
\* reachable from lan_session_ or from exactly one thread that is about to
\* install or disconnect it, and the session in lan_session_ is not being
\* stopped by anybody.  No interleaving of connect, disconnect, autostart,
\* timer and teardown leaks an MQTT thread or disconnects a session twice.
NoLeak == \A s \in Sessions : link[s] # "free" =>
              lan = s \/ \E t \in Threads : mine[t] = s

SingleOwner ==
    \A t \in Threads : mine[t] # NoSession =>
        /\ mine[t] # lan
        /\ \A u \in Threads \ {t} : mine[u] # mine[t]

InstalledIsLive ==
    lan # NoSession => link[lan] \in {"trying", "up"} /\ quit[lan] = "no"

SessionOwnership == NoLeak /\ SingleOwner /\ InstalledIsLive

\* The grace timer of mqtt_keep_connection closes only the session that
\* disconnect_printer deferred: never one that a later connect_printer opened,
\* and never after a CONNACK or a reuse disarmed it.
TimerTakesOnlyDoomed == mine[Timer] # NoSession => mine[Timer] = doomed

\* ~Agent closes the LAN session before the object goes away, so the printer
\* gets its DISCONNECT even when the grace timer is still pending.
ShutdownClosesLan ==
    pc[Studio] \in {"closed", "destroyed"} =>
        lan = NoSession /\ \A s \in Sessions : link[s] = "free"

\* Every ABI call and every worker returns: no chain of joins (caller, timer
\* thread, loop thread, callback) closes into a cycle.
CallsReturn == \A t \in Callers : (pc[t] # "idle") ~> (pc[t] = "idle" \/ ~Alive)

\* Whatever workers of formerly selected printers still do, the printer that
\* stays selected gets the LAN session back.
SelectionWins ==
    \A d \in AutoDevs : <>[](selected = d /\ Alive) =>
        []<>(lan # NoSession /\ DevOf(lan) = d)
=============================================================================
