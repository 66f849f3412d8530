----------------------------- MODULE SsdpListener -----------------------------
(***************************************************************************)
(* The listener for the printers' broadcasts (src/src/ssdp.cpp) and its    *)
(* callers in agent.cpp: the slicer starts and stops discovery, a bind     *)
(* starts it and waits for the printer's broadcast.  The worker may end by *)
(* itself on a socket error; start_mu_ serialises start() and stop(), but  *)
(* not the worker, which takes part through running_ alone.                *)
(***************************************************************************)
EXTENDS Naturals, FiniteSets

CONSTANTS
    SsdpCallers,     \* threads that start the listener
    Stopper,         \* the one of them that also stops it
    MaxSockets,      \* bound: sockets opened
    MaxSocketErrors  \* bound: socket errors and failed starts

ASSUME SsdpAssumption == Stopper \in SsdpCallers /\ MaxSockets \in Nat

Packets == {"printer", "foreign", "empty"}

VARIABLES
    listening,   \* running_
    fd,          \* fd_, 0 when invalid
    sockets,     \* how often each socket was closed
    opened,      \* sockets opened so far
    onMsg,       \* cb_ is set
    listener,    \* run_(): position and its copy of fd_
    startMu,     \* the holder of start_mu_
    call,        \* what the callers do
    known,        \* ssdp_json_by_ip_ has the printer
    socketErrors

ssdpVars == <<listening, fd, sockets, opened, onMsg, listener, startMu, call, known, socketErrors>>

SsdpInit ==
    /\ listening = FALSE /\ fd = 0 /\ sockets = [s \in 1..MaxSockets |-> 0] /\ opened = 0
    /\ onMsg = FALSE /\ listener = [pc |-> "none", fd |-> 0]
    /\ startMu = {} /\ call = [c \in SsdpCallers |-> "idle"]
    /\ known = FALSE /\ socketErrors = 0

Fault == socketErrors < MaxSocketErrors /\ socketErrors' = socketErrors + 1

Close(s) == sockets' = [sockets EXCEPT ![s] = @ + 1]

(***************************************************************************)
(* Discovery::start, for start_discovery(true) and lookup_bind_detect.     *)
(***************************************************************************)
StartEnter(c) ==
    /\ call[c] = "idle" /\ startMu = {}
    /\ IF listening
       THEN onMsg' = TRUE /\ UNCHANGED <<startMu, call>>
       ELSE startMu' = {c} /\ call' = [call EXCEPT ![c] = "join"] /\ UNCHANGED onMsg
    /\ UNCHANGED <<listening, fd, sockets, opened, listener, known, socketErrors>>

\* A worker that ended by itself is joined first.
ListenerJoined == listener.pc \in {"none", "ended"}

StartJoin(c) ==
    /\ call[c] = "join" /\ ListenerJoined
    /\ call' = [call EXCEPT ![c] = "open"]
    /\ listener' = IF listener.pc = "ended" THEN [pc |-> "none", fd |-> 0] ELSE listener
    /\ UNCHANGED <<listening, fd, sockets, opened, onMsg, startMu, known, socketErrors>>

\* What is left when the thread could not be made.
Undone == FALSE

\* The socket, then the thread; either may fail.
StartOpen(c) ==
    /\ call[c] = "open" /\ opened < MaxSockets
    /\ call' = [call EXCEPT ![c] = "idle"] /\ startMu' = {}
    /\ onMsg' = TRUE /\ opened' = opened + 1
    /\ \/ /\ fd' = opened' /\ listening' = TRUE
          /\ listener' = [pc |-> "loop", fd |-> opened'] /\ UNCHANGED <<sockets, socketErrors>>
       \/ /\ Fault /\ Close(opened') /\ listening' = Undone /\ fd' = 0 /\ UNCHANGED listener
    /\ UNCHANGED <<known>>

(***************************************************************************)
(* Discovery::stop                                                         *)
(***************************************************************************)
StopEnter ==
    /\ call[Stopper] = "idle" /\ startMu = {} /\ startMu' = {Stopper}
    /\ IF listening THEN onMsg' = FALSE ELSE UNCHANGED onMsg
    /\ listening' = FALSE
    /\ call' = [call EXCEPT ![Stopper] = IF listening THEN "stop" ELSE "reap"]
    /\ UNCHANGED <<fd, sockets, opened, listener, known, socketErrors>>

\* The join before the close; the mutant closes at once.
ListenerGoneNot == TRUE
ListenerGone == listener.pc \in {"none", "ended"}

StopClose_ ==
    /\ call[Stopper] = "stop" /\ ListenerGone
    /\ Close(fd) /\ fd' = 0
    /\ listener' = IF listener.pc = "ended" THEN [pc |-> "none", fd |-> 0] ELSE listener
    /\ call' = [call EXCEPT ![Stopper] = "idle"] /\ startMu' = {}
    /\ UNCHANGED <<listening, opened, onMsg, known, socketErrors>>

StopReap ==
    /\ call[Stopper] = "reap" /\ listener.pc \in {"none", "ended"}
    /\ listener' = [pc |-> "none", fd |-> 0]
    /\ call' = [call EXCEPT ![Stopper] = "idle"] /\ startMu' = {}
    /\ UNCHANGED <<listening, fd, sockets, opened, onMsg, known, socketErrors>>

(***************************************************************************)
(* Discovery::run_: parse() and the filter, then the callback the worker   *)
(* copied, which caches the printer (dispatch_ssdp_json).                  *)
(***************************************************************************)
\* The worker waits 200 ms at most before it looks at running_.
LooksAgain(p) == ~listening

RunPoll(p) ==
    /\ listener.pc = "loop"
    /\ listener' = [listener EXCEPT !.pc =
           IF LooksAgain(p) THEN "exit" ELSE IF p = "printer" /\ onMsg THEN "call" ELSE "loop"]
    /\ UNCHANGED <<listening, fd, sockets, opened, onMsg, startMu, call, known, socketErrors>>

RunCallback ==
    /\ listener.pc = "call" /\ listener' = [listener EXCEPT !.pc = "loop"]
    /\ known' = TRUE
    /\ UNCHANGED <<listening, fd, sockets, opened, onMsg, startMu, call, socketErrors>>

RunError ==
    /\ listener.pc = "loop" /\ Fault /\ listener' = [listener EXCEPT !.pc = "exit"]
    /\ UNCHANGED <<listening, fd, sockets, opened, onMsg, startMu, call, known>>

\* The worker closes the socket only when it won running_, after it gave it up.
RunExit ==
    /\ listener.pc = "exit" /\ listening' = FALSE
    /\ listener' = [listener EXCEPT !.pc = IF listening THEN "closing" ELSE "ended"]
    /\ UNCHANGED <<fd, sockets, opened, onMsg, startMu, call, known, socketErrors>>

RunClose ==
    /\ listener.pc = "closing" /\ listener' = [listener EXCEPT !.pc = "ended"]
    /\ Close(listener.fd) /\ fd' = 0
    /\ UNCHANGED <<listening, opened, onMsg, startMu, call, known, socketErrors>>

SsdpNext ==
    \/ \E c \in SsdpCallers : StartEnter(c) \/ StartJoin(c) \/ StartOpen(c)
    \/ StopEnter \/ StopClose_ \/ StopReap
    \/ \E p \in Packets : RunPoll(p)
    \/ RunCallback \/ RunError \/ RunExit \/ RunClose

-----------------------------------------------------------------------------
\* No socket is closed twice (its number may be another file's by then), and the worker
\* only uses a socket that is open, also while stop() is under way.
SocketClosedOnce ==
    /\ \A s \in 1..MaxSockets : sockets[s] <= 1
    /\ listener.pc \in {"loop", "call", "closing"} => sockets[listener.fd] = 0

\* A thread object is never assigned over one that was not joined, which would end the
\* process.
OneWorker == \A c \in SsdpCallers : call[c] = "open" => listener.pc = "none"

\* When no start or stop is under way, running_ is true only while the worker's thread
\* has it still to give up, its socket open: neither an end of the worker nor a failed
\* start leaves it true for good.  A worker that has left its loop after an error, before
\* it takes running_ back, does count: a start() in that window returns true with no
\* listener behind it (Discovery::start, run_).
RunningHasThread ==
    startMu = {} /\ listening =>
        /\ listener.pc \in {"loop", "call", "exit"}
        /\ listener.fd = fd /\ sockets[fd] = 0

\* stop() and start() come back, also from a worker that ended by itself.
StartStopReturn ==
    \A c \in SsdpCallers : call[c] \in {"join", "stop", "reap"} ~> call[c] \notin {"join", "stop", "reap"}
===============================================================================
