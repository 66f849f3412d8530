------------------------------ MODULE CoverServer ------------------------------
(***************************************************************************)
(* The HTTP server on the loopback interface that hands Studio the cover   *)
(* of a print (src/src/cover_server.cpp), with the table of the ids        *)
(* Studio asks for (synthetic_subtasks_, agent.cpp).  The agent starts it  *)
(* with the first LAN print and stops it when it is destroyed.             *)
(***************************************************************************)
EXTENDS Naturals, Sequences, FiniteSets, FiniteSetsExt

CONSTANTS
    Subtasks,    \* synthetic ids: numbers, ordered as the map orders their names
    SubtaskCap,  \* 16 in the code
    MaxGets      \* bound: requests of Studio

ASSUME ServerAssumption == Subtasks \subseteq Nat /\ SubtaskCap \in Nat

VARIABLES
    running,    \* running_
    acceptor,   \* the accept thread: "none", "poll" or "ended"
    socket,     \* the listening socket: "none", "open" or "closed"
    table,      \* synthetic_subtasks_
    ready,      \* the subtasks whose cover file is there
    request,    \* the handler thread of Studio's request
    gets

serverVars == <<running, acceptor, socket, table, ready, request, gets>>

NoRequest == [pc |-> "none", id |-> 0, status |-> 0]

ServerInit ==
    /\ running = FALSE /\ acceptor = "none" /\ socket = "none"
    /\ table = {} /\ ready = {} /\ request = NoRequest /\ gets = 0

\* The map drops its smallest key when it is full.
Capped(t) == IF Cardinality(t) > SubtaskCap THEN t \ {Min(t)} ELSE t

\* A report of a LAN job: its id enters the table, and the server is started once.
RegisterSubtask(id) ==
    /\ socket # "closed"
    /\ table' = Capped(table \cup {id})
    /\ IF socket = "none"
       THEN \/ running' = TRUE /\ acceptor' = "poll" /\ socket' = "open"
            \/ UNCHANGED <<running, acceptor, socket>>   \* start failed
       ELSE UNCHANGED <<running, acceptor, socket>>
    /\ UNCHANGED <<ready, request, gets>>

CoverArrives(id) ==
    /\ id \notin ready /\ ready' = ready \cup {id}
    /\ UNCHANGED <<running, acceptor, socket, table, request, gets>>

\* lookup_synthetic_subtask gave Studio the URL, and it asks.
AcceptOne(id) ==
    /\ acceptor = "poll" /\ running /\ id \in table
    /\ request.pc \in {"none", "done"} /\ gets < MaxGets
    /\ request' = [pc |-> "wait", id |-> id, status |-> 0]
    /\ gets' = gets + 1
    /\ UNCHANGED <<running, acceptor, socket, table, ready>>

\* handle_one holds the request while the file is missing, for 15 seconds at most.
HandleOne ==
    /\ request.pc = "wait"
    /\ request' = [request EXCEPT !.pc = "done", !.status = IF request.id \in ready THEN 200 ELSE 503]
    /\ UNCHANGED <<running, acceptor, socket, table, ready, gets>>

\* stop: the thread polls, so that it ends by itself; only then is the socket closed.
StopBegin ==
    /\ running /\ running' = FALSE
    /\ UNCHANGED <<acceptor, socket, table, ready, request, gets>>

\* accept_loop also ends when poll or accept fails for good.
AcceptLoopEnds ==
    /\ acceptor = "poll"
    /\ acceptor' = "ended"
    /\ UNCHANGED <<running, socket, table, ready, request, gets>>

\* The join.
JoinedThread == acceptor = "ended"

StopClose ==
    /\ socket = "open" /\ ~running /\ JoinedThread
    /\ socket' = "closed"
    /\ UNCHANGED <<running, acceptor, table, ready, request, gets>>

ServerNext ==
    \/ \E id \in Subtasks : RegisterSubtask(id) \/ CoverArrives(id) \/ AcceptOne(id)
    \/ HandleOne \/ StopBegin \/ AcceptLoopEnds \/ StopClose

-----------------------------------------------------------------------------
\* The accept thread never polls a socket that stop() has closed: the join comes first.
\* running_ says nothing of the thread: it stays true when the loop ends by itself.
PollsOpenSocket == acceptor = "poll" => socket = "open"

\* Studio asks for a cover once: the request is answered whether or not there will be an
\* image, also when the server is stopped meanwhile.
GetAnswered == request.pc = "wait" ~> request.pc = "done"

\* stop() returns with the socket closed, although the thread waits for connections.
ServerStops == (socket = "open" /\ ~running) ~> socket = "closed"
===============================================================================
