---------------------------- MODULE TutkSession ----------------------------
(***************************************************************************)
(* The TUTK camera session: one worker that finds a path to the printer    *)
(* (LAN search against master and relay, IotcClient.cpp), runs the DTLS    *)
(* handshake and the AV login, and turns the packets of the stream into    *)
(* frames (TutkSession.cpp: FEC groups, frame queue), for a camera source  *)
(* (TutkCameraSource.cpp) or the file browser.                             *)
(*                                                                         *)
(* Packets are lost, duplicated and reordered; either path may answer      *)
(* first, late or never; the session breaks; the user leaves at any time.  *)
(***************************************************************************)
EXTENDS Naturals, Sequences, FiniteSets

CONSTANTS
    Modes,      \* {"Video", "Ctrl"}
    Printers,   \* transports the printer may speak: {"framed", "legacy"}
    FrameOf,    \* frame of each slice of the stream, a sequence
    Keys,       \* the frames that are keyframes
    K, M,       \* data and parity packets of a FEC group
    KeepGroups, \* kKeepGroups
    MaxQueued,  \* kMaxQueuedFrames
    Window,     \* bound: packets under way
    MaxTries, MaxRounds,    \* the 3 attempts of connect and the 5 of run
    MaxLogins,  \* bound for the 5 repeated logins of receive
    MaxFaults   \* bound: lost and duplicated packets, failures, timeouts

Slices == 1..Len(FrameOf)
Frames == {FrameOf[s] : s \in Slices}
Groups == 0..(Len(FrameOf) - 1) \div K
Packets == Groups \X (0..K + M - 1)
SliceOf(g, i) == g * K + i + 1
SlicesOf(f) == {s \in Slices : FrameOf[s] = f}

ASSUME TutkAssumption ==
    /\ K \in Nat \ {0} /\ M \in Nat /\ FrameOf \in Seq(Nat) /\ Keys \subseteq Frames
    /\ Len(FrameOf) % K = 0
    /\ {KeepGroups, Window, MaxTries, MaxRounds, MaxLogins, MaxFaults} \subseteq Nat
    /\ MaxQueued \in Nat \ {0}
    /\ Modes \subseteq {"Video", "Ctrl"} /\ Printers \subseteq {"framed", "legacy"}

\* The stream: frames are numbered from 1 in the order of their slices, and it begins
\* with a keyframe.
ASSUME StreamAssumption ==
    /\ Len(FrameOf) > 0 /\ 0 \notin Frames /\ 1 \in Keys
    /\ \A s, t \in Slices : s <= t => FrameOf[s] <= FrameOf[t]
    /\ \A s \in Slices : 1..FrameOf[s] \subseteq Frames

VARIABLES
    joinMode, speaks,          \* session mode; transport the printer speaks
    user, joined, pc,      \* caller; Impl::joined; where the worker is
    lan, relay, socks,     \* the two searches and the sockets they hold
    conn, via,             \* socket of the connection and how it was found
    rounds, tries, logins, \* attempts of run, connect and receive
    framed, linkReady,     \* Impl::framed, Impl::ready
    accepted,              \* the printer accepted the login of this connection
    ctrlOut, asked,        \* requests queued and sent (Ctrl)
    air, at,               \* packets under way; next packet the printer sends
    have, closed, newest,  \* FecReceiver: blocks of the groups, closed groups
    pending, next,         \* FrameQueue: slices of frames, next frame (0: none)
    needKey, flushing,
    emitted, queue,        \* frames given to the callback, frames_ of the source
    calm,                  \* history: no packet overtook another, no 500 ms wait
    gone,                  \* history: packets of this connection lost for good
    faults

pathVars   == <<lan, relay, socks, conn, via>>
tryVars    == <<rounds, tries, logins>>
linkVars   == <<framed, linkReady, accepted, ctrlOut, asked>>
netVars    == <<air, at, gone>>
fecVars    == <<have, closed, newest>>
frameVars  == <<pending, next, needKey, flushing, emitted, calm>>
streamVars == <<netVars, fecVars, frameVars>>
tutkVars == <<joinMode, speaks, user, joined, pc, pathVars, tryVars, linkVars,
          streamVars, queue, faults>>

TypeOK ==
    /\ joinMode \in Modes /\ speaks \in Printers
    /\ user \in {"idle", "opening", "open", "browsing", "leaving", "done"}
    /\ pc \in {"off", "run", "connect", "paths", "hello", "finish", "login",
               "recv", "roundover", "end"}
    /\ lan \in {"off", "search", "ok", "failed"}
    /\ relay \in {"off", "join", "rdv", "ok", "failed", "skipped"}
    /\ socks \subseteq {"lan", "relay"} /\ conn \in {"none", "lan", "relay"}
    /\ via \in {"none", "lan", "p2p", "relay"}
    /\ rounds \in 0..MaxRounds /\ tries \in 0..MaxTries /\ logins \in 0..MaxLogins
    /\ joined \in BOOLEAN /\ framed \in BOOLEAN /\ linkReady \in BOOLEAN /\ accepted \in BOOLEAN
    /\ needKey \in BOOLEAN /\ flushing \in BOOLEAN /\ calm \in BOOLEAN
    /\ ctrlOut \in 0..1 /\ asked \in 0..1
    /\ air \in Seq(Packets) /\ at \in 0..Cardinality(Packets) /\ gone \subseteq Packets
    /\ have \in [Groups -> SUBSET (0..K + M - 1)] /\ closed \subseteq Groups
    /\ newest \in Groups \cup {Cardinality(Groups)}
    /\ pending \in [Frames -> SUBSET Slices] /\ next \in {0} \cup Frames \cup {f + 1 : f \in Frames}
    /\ emitted \in Seq(Frames) /\ queue \in Seq(Frames) /\ Len(queue) <= MaxQueued
    /\ faults \in 0..MaxFaults

NoGroup == Cardinality(Groups)     \* have_newest_ is false

\* A new TutkSession; join has not been called.
TutkInit ==
    /\ joinMode \in Modes /\ speaks \in Printers
    /\ user = "idle" /\ joined = FALSE /\ pc = "off"
    /\ lan = "off" /\ relay = "off" /\ socks = {} /\ conn = "none" /\ via = "none"
    /\ rounds = 0 /\ tries = 0 /\ logins = 0
    /\ framed = TRUE /\ linkReady = FALSE /\ accepted = FALSE /\ ctrlOut = 0 /\ asked = 0
    /\ air = <<>> /\ at = 0 /\ gone = {}
    /\ have = [g \in Groups |-> {}] /\ closed = {} /\ newest = NoGroup
    /\ pending = [f \in Frames |-> {}] /\ next = 0 /\ needKey = TRUE
    /\ flushing = FALSE /\ emitted = <<>> /\ calm = TRUE
    /\ queue = <<>> /\ faults = 0

Fault == faults < MaxFaults /\ faults' = faults + 1
Goto(p) == pc' = p /\ UNCHANGED <<joinMode, speaks, user, joined>>

\* The stream state of receive: locals that end with the connection.
FreshReceive ==
    /\ have' = [g \in Groups |-> {}] /\ closed' = {} /\ newest' = NoGroup
    /\ pending' = [f \in Frames |-> {}] /\ next' = 0 /\ needKey' = TRUE
    /\ flushing' = FALSE /\ emitted' = <<>> /\ calm' = TRUE
    /\ air' = <<>> /\ at' = 0 /\ gone' = {}

\* iotc_close says goodbye, closes the socket and zeroes the connection.
IotcClose ==
    /\ socks' = socks \ {conn} /\ conn' = "none" /\ via' = "none" /\ UNCHANGED <<lan, relay>>

---------------------------------------------------------------------------
(* The caller: TutkCameraSource in Video mode, the file browser in Ctrl.    *)
(* A camera source is opened once.                                          *)

\* join, from TutkCameraSource::open or from the file browser
Join ==
    /\ user = "idle" /\ joined' = TRUE /\ pc' = "run"
    /\ user' = IF joinMode = "Video" THEN "opening" ELSE "browsing"
    /\ UNCHANGED <<joinMode, speaks, pathVars, tryVars, linkVars, streamVars, queue, faults>>

\* open returns true with the first frame; false after its deadline or when
\* the session gave up, and then leaves it.
OpenReturns ==
    /\ user = "opening"
    /\ \/ queue # <<>> /\ user' = "open" /\ UNCHANGED joined
       \/ queue = <<>> /\ user' = "leaving" /\ joined' = FALSE
    /\ UNCHANGED <<joinMode, speaks, pc, pathVars, tryVars, linkVars, streamVars, queue, faults>>

\* next_frame
NextFrame ==
    /\ user = "open" /\ queue # <<>> /\ queue' = Tail(queue)
    /\ UNCHANGED <<joinMode, speaks, user, joined, pc, pathVars, tryVars, linkVars,
                   streamVars, faults>>

\* send_ctrl
SendCtrl ==
    /\ user = "browsing" /\ joined /\ ctrlOut + asked = 0 /\ ctrlOut' = 1
    /\ UNCHANGED <<joinMode, speaks, user, joined, pc, pathVars, tryVars, framed, linkReady,
                   accepted, asked, streamVars, queue, faults>>

\* close and leave: clear joined, then wait for the worker.
Leave ==
    /\ user \in {"open", "browsing"} /\ user' = "leaving" /\ joined' = FALSE
    /\ UNCHANGED <<joinMode, speaks, pc, pathVars, tryVars, linkVars, streamVars, queue, faults>>

LeaveReturns ==
    /\ user = "leaving" /\ pc = "off" /\ user' = "done" /\ queue' = <<>>
    /\ UNCHANGED <<joinMode, speaks, joined, pc, pathVars, tryVars, linkVars, streamVars, faults>>

---------------------------------------------------------------------------
(* The worker: run, connect, open_path *)

\* One round of run; the last round or a cleared joined ends the worker.
RunRound ==
    /\ pc = "run"
    /\ \/ /\ joined /\ rounds < MaxRounds
          /\ rounds' = rounds + 1 /\ tries' = 0 /\ Goto("connect")
       \/ /\ ~joined \/ rounds = MaxRounds
          /\ Goto("end") /\ UNCHANGED <<rounds, tries>>
    /\ UNCHANGED <<pathVars, logins, linkVars, streamVars, queue, faults>>

\* Mutant: connect keeps the ready of the connection before.
KeepReady == linkReady

\* connect starts over with ready cleared.
ReadyOnConnect == FALSE

\* One of the attempts of connect: both searches start from nothing.
ConnectAttempt ==
    /\ pc = "connect"
    /\ \/ /\ joined /\ tries < MaxTries /\ tries' = tries + 1 /\ Goto("paths")
          /\ lan' = "search" /\ relay' = "off" /\ socks' = {"lan"}
       \/ /\ ~joined \/ tries = MaxTries
          /\ Goto("roundover") /\ UNCHANGED <<tries, lan, relay, socks>>
    /\ linkReady' = ReadyOnConnect /\ accepted' = FALSE
    /\ UNCHANGED <<conn, via, rounds, logins, framed, ctrlOut, asked, streamVars,
                   queue, faults>>

\* iotc_lan_connect: the printer answers with our UID and token, or the search
\* ends: by its deadline, a path over the relay or a leave.
LanSearch ==
    /\ lan = "search"
    /\ \/ lan' = "ok" /\ UNCHANGED <<socks, faults>>
       \/ lan' = "failed" /\ socks' = socks \ {"lan"} /\ Fault
       \/ /\ relay = "ok" \/ ~joined
          /\ lan' = "failed" /\ socks' = socks \ {"lan"} /\ UNCHANGED faults
    /\ UNCHANGED <<joinMode, speaks, user, joined, pc, relay, conn, via, tryVars, linkVars,
                   streamVars, queue>>

\* The head start of the LAN search is over: the master is asked unless the
\* search has found the printer.
HeadStartOver ==
    /\ pc = "paths" /\ relay = "off"
    /\ IF lan = "ok" THEN relay' = "skipped" /\ UNCHANGED socks
                     ELSE relay' = "join" /\ socks' = socks \cup {"relay"}
    /\ UNCHANGED <<joinMode, speaks, user, joined, pc, lan, conn, via, tryVars, linkVars,
                   streamVars, queue, faults>>

RelayGivesUp ==
    relay' = "failed" /\ socks' = socks \ {"relay"} /\ UNCHANGED via

\* iotc_relay_connect: JOIN to every master, then the printer's own rendezvous
\* or the master's list of servers.
RelayJoin ==
    /\ relay = "join"
    /\ \/ relay' = "ok" /\ via' = "p2p" /\ UNCHANGED <<socks, faults>>
       \/ relay' = "rdv" /\ UNCHANGED <<socks, via, faults>>
       \/ RelayGivesUp /\ Fault
       \/ (lan = "ok" \/ ~joined) /\ RelayGivesUp /\ UNCHANGED faults
    /\ UNCHANGED <<joinMode, speaks, user, joined, pc, lan, conn, tryVars, linkVars,
                   streamVars, queue>>

\* offlan_rendezvous: a candidate that completes the punch exchange, a direct
\* rendezvous or a pairing over a relay server ends it; so do its deadline, a
\* LAN answer and a leave.
Rendezvous ==
    /\ relay = "rdv"
    /\ \/ relay' = "ok" /\ via' \in {"p2p", "relay"} /\ UNCHANGED <<socks, faults>>
       \/ RelayGivesUp /\ Fault
       \/ (lan = "ok" \/ ~joined) /\ RelayGivesUp /\ UNCHANGED faults
    /\ UNCHANGED <<joinMode, speaks, user, joined, pc, lan, conn, tryVars, linkVars,
                   streamVars, queue>>

\* open_path: the sockets that stay open, the one adopted, and how it was
\* found.  A LAN answer is preferred and the other path is closed.
Adopted == IF lan = "ok" THEN <<{"lan"}, "lan", "lan">>
           ELSE IF relay = "ok" THEN <<{"relay"}, "relay", via>>
           ELSE <<{}, "none", "none">>

OpenPath ==
    /\ pc = "paths" /\ lan \in {"ok", "failed"} /\ relay \in {"ok", "failed", "skipped"}
    /\ socks' = Adopted[1] /\ conn' = Adopted[2] /\ via' = Adopted[3]
    /\ Goto(IF Adopted[2] = "none" THEN "connect" ELSE "hello")
    /\ lan' = "off" /\ relay' = "off"
    /\ UNCHANGED <<tryVars, linkVars, streamVars, queue, faults>>

HandshakeFails == Fault /\ IotcClose /\ Goto("connect")

\* dtls_psk_handshake up to our Finished: the hello is repeated up to three
\* times; no flight, an alert or an unknown suite ends the attempt.
ServerHello ==
    /\ pc = "hello"
    /\ \/ Goto("finish") /\ UNCHANGED <<pathVars, faults>>
       \/ HandshakeFails
    /\ UNCHANGED <<tryVars, linkVars, streamVars, queue>>

\* recv_server_finished: no Finished, an alert, or a verify_data that differs
\* (a repeated flight of the server is hashed into the transcript too).
ServerFinished ==
    /\ pc = "finish"
    /\ \/ Goto("login") /\ UNCHANGED <<pathVars, faults>>
       \/ HandshakeFails
    /\ UNCHANGED <<tryVars, linkVars, streamVars, queue>>

\* The login of connect: the reply tells the transport, or comes too late.  A
\* printer without the framed transport has no file browser.
Login ==
    /\ pc = "login"
    /\ \/ /\ speaks = "framed" \/ ~framed
          /\ Goto("recv") /\ accepted' = TRUE /\ linkReady' = (joinMode = "Ctrl")
          /\ UNCHANGED <<framed, faults>>
       \/ /\ speaks = "legacy" /\ framed
          /\ IF joinMode = "Ctrl" THEN Goto("end") /\ UNCHANGED <<framed, accepted>>
             ELSE Goto("recv") /\ framed' = FALSE /\ accepted' = TRUE
          /\ UNCHANGED <<linkReady, faults>>
       \/ Goto("recv") /\ Fault /\ UNCHANGED <<framed, accepted, linkReady>>
    /\ UNCHANGED <<pathVars, tryVars, ctrlOut, asked, streamVars, queue>>

---------------------------------------------------------------------------
(* The worker: receive *)

\* The printer streams video once it accepted the login, and answers requests.
Streaming ==
    accepted /\ (joinMode = "Ctrl" => asked = 1) /\ (speaks = "framed") = framed

\* Packet number n of the stream: the K data packets of a group, then parity.
PacketNo(n) == <<n \div (K + M), n % (K + M)>>

\* The printer sends the next packet; the network may lose it.  (flush touches
\* nothing the network does, so nothing is lost by letting it finish first.)
PrinterSends ==
    /\ pc = "recv" /\ ~flushing /\ Streaming /\ at < Cardinality(Packets) /\ Len(air) < Window
    /\ at' = at + 1
    /\ \/ air' = Append(air, PacketNo(at)) /\ UNCHANGED <<gone, faults>>
       \/ gone' = gone \cup {PacketNo(at)} /\ UNCHANGED air /\ Fault
    /\ UNCHANGED <<joinMode, speaks, user, joined, pc, pathVars, tryVars, linkVars,
                   fecVars, frameVars, queue>>

\* An accept that arrives after the login's own wait, answering a repeated
\* login of receive.
LateAccept ==
    /\ pc = "recv" /\ ~flushing /\ ~accepted /\ logins > 0 /\ framed
    /\ accepted' = TRUE /\ linkReady' = (joinMode = "Ctrl")
    /\ UNCHANGED <<joinMode, speaks, user, joined, pc, pathVars, tryVars, framed, ctrlOut,
                   asked, streamVars, queue, faults>>

\* drain_ctrl
DrainCtrl ==
    /\ pc = "recv" /\ joinMode = "Ctrl" /\ joined /\ linkReady /\ ctrlOut = 1
    /\ ctrlOut' = 0 /\ asked' = 1
    /\ UNCHANGED <<joinMode, speaks, user, joined, pc, pathVars, tryVars, framed, linkReady,
                   accepted, streamVars, queue, faults>>

\* Slices reach the frame queue unless their frame is behind it
\* (FrameQueue::add).
Behind(f) == next # 0 /\ f < next
Queued(new) ==
    [f \in Frames |-> IF Behind(f) THEN pending[f]
                      ELSE pending[f] \cup (new \cap SlicesOf(f))]

\* FecReceiver::advance: a newer group closes the older ones.
ClosedBy(g) ==
    IF newest = NoGroup \/ g > newest
    THEN closed \cup {h \in Groups : h < g /\ have[h] # {}} ELSE closed
Forgotten(g) == newest # NoGroup /\ g + KeepGroups < newest

\* FecReceiver::add: what block i adds to group g, and whether that closes it.
DataOf(blocks) == {i \in blocks : i < K}
Repairs(blocks) == Cardinality(DataOf(blocks)) < K /\ Cardinality(blocks) >= K
Closes(g, i) ==
    LET blocks == have[g] \cup {i} IN
    Cardinality(blocks) >= K \/ i = K + M - 1

\* A block is taken unless its group is closed or it is there already.
Takes(g, i) == g \notin ClosedBy(g) /\ i \notin have[g]

NoRepair(blocks, i, g) == IF i < K THEN {SliceOf(g, i)} ELSE {}

\* The slices a block brings: its own, and those fec::recover restores.
Brings(blocks, i, g) ==
    IF Repairs(blocks) THEN {SliceOf(g, j) : j \in (0..K - 1) \ (blocks \ {i})}
    ELSE IF i < K THEN {SliceOf(g, i)} ELSE {}

\* handle_framed: one packet of the stream; flush follows.
Framed(p, rest) ==
    LET g == p[1]  i == p[2]  blocks == have[g] \cup {i} IN
    /\ air' = rest
    /\ IF Forgotten(g) THEN UNCHANGED <<fecVars, pending>>
       ELSE /\ newest' = IF newest = NoGroup \/ g > newest THEN g ELSE newest
            /\ IF Takes(g, i)
               THEN /\ have' = [have EXCEPT ![g] = blocks]
                    /\ closed' = ClosedBy(g) \cup (IF Closes(g, i) THEN {g} ELSE {})
                    /\ pending' = Queued(Brings(blocks, i, g))
               ELSE closed' = ClosedBy(g) /\ UNCHANGED <<have, pending>>
    /\ flushing' = TRUE
    /\ UNCHANGED <<next, needKey, emitted, queue>>

\* push_frame: the oldest queued frame makes room.
Push(f) ==
    /\ emitted' = Append(emitted, f)
    /\ queue' = IF joinMode = "Ctrl" THEN queue
                ELSE Append(IF Len(queue) >= MaxQueued THEN Tail(queue) ELSE queue, f)

\* handle_legacy: slices of one frame at a time, parity is not sent.
\* pending holds the frame of the assembler and nothing else.
Legacy(p, rest) ==
    LET s == SliceOf(p[1], p[2])  f == FrameOf[s]  all == pending[f] \cup {s} IN
    /\ air' = rest
    /\ IF p[2] >= K THEN UNCHANGED <<pending, emitted, queue>>
       ELSE /\ pending' = [h \in Frames |->
                             IF h = f /\ all # SlicesOf(f) THEN all ELSE {}]
            /\ IF all = SlicesOf(f) THEN Push(f) ELSE UNCHANGED <<emitted, queue>>
    /\ UNCHANGED <<fecVars, next, needKey, flushing>>

\* One pass of receive with a packet: any of those under way, which may be
\* delivered again later.
ReceiveStream ==
    /\ pc = "recv" /\ joined /\ ~flushing
    /\ \E n \in 1..Len(air) :
         LET without == SubSeq(air, 1, n - 1) \o SubSeq(air, n + 1, Len(air)) IN
         /\ \/ (IF framed THEN Framed(air[n], without) ELSE Legacy(air[n], without))
               /\ UNCHANGED faults
            \/ (IF framed THEN Framed(air[n], air) ELSE Legacy(air[n], air)) /\ Fault
         /\ calm' = (calm /\ n = 1)
    /\ UNCHANGED <<joinMode, speaks, user, joined, pc, pathVars, tryVars, linkVars, at, gone>>

\* has_holes: some open group may still recover a slice that is missing.
HasHoles ==
    \E g \in Groups \ closed :
      \E i \in DataOf(have[g]) : \E j \in 0..i : j \notin have[g]

ReadyFrames == {f \in Frames : pending[f] # {}}
First == CHOOSE f \in ReadyFrames : \A h \in ReadyFrames : f <= h

\* FrameQueue::deliver: after a loss only a keyframe is shown; replies of the
\* file browser stand for themselves.
Shows(f) == f \in Keys \/ ~needKey \/ joinMode = "Ctrl"

\* One pass of flush: deliver, give up a frame, or stop.
FlushFrames ==
    /\ pc = "recv" /\ flushing
    /\ \E expired \in BOOLEAN :
       IF ReadyFrames = {}
       THEN flushing' = FALSE /\ UNCHANGED <<pending, next, needKey, emitted, queue, calm>>
       ELSE LET f     == First
                gap   == next # 0 /\ f # next
                whole == pending[f] = SlicesOf(f)
                later == gap \/ Cardinality(ReadyFrames) > 1
            IN CASE whole /\ ~gap ->
                      /\ next' = f + 1 /\ pending' = [pending EXCEPT ![f] = {}]
                      /\ IF Shows(f) THEN needKey' = FALSE /\ Push(f)
                                     ELSE UNCHANGED <<needKey, emitted, queue>>
                      /\ UNCHANGED <<flushing, calm>>
                 [] ~(whole /\ ~gap) /\ (~later \/ (HasHoles /\ ~expired)) ->
                      /\ flushing' = FALSE
                      /\ UNCHANGED <<pending, next, needKey, emitted, queue, calm>>
                 [] OTHER ->
                      /\ needKey' = TRUE /\ calm' = (calm /\ ~(HasHoles /\ expired))
                      /\ next' = IF gap THEN f ELSE f + 1
                      /\ pending' = IF gap THEN pending
                                    ELSE [pending EXCEPT ![f] = {}]
                      /\ UNCHANGED <<flushing, emitted, queue>>
    /\ UNCHANGED <<joinMode, speaks, user, joined, pc, pathVars, tryVars, linkVars,
                   netVars, fecVars, faults>>

\* receive without a packet: logins are repeated while nothing came; after the
\* last of them, a silence of five seconds or a lost session the round is over.
ReceiveFails ==
    /\ pc = "recv" /\ joined /\ ~flushing
    /\ \/ /\ logins < MaxLogins /\ (IF joinMode = "Ctrl" THEN ~linkReady ELSE emitted = <<>>)
          /\ logins' = logins + 1 /\ UNCHANGED <<pc, faults>>
       \/ /\ air = <<>> /\ (Streaming => at = Cardinality(Packets))
          /\ pc' = "roundover" /\ UNCHANGED <<logins, faults>>
       \/ Fault /\ pc' = "roundover" /\ UNCHANGED logins
    /\ UNCHANGED <<joinMode, speaks, user, joined, pathVars, rounds, tries, linkVars,
                   streamVars, queue>>

\* joined was cleared: send_stop, and the worker ends.
ReceiveStops ==
    /\ pc = "recv" /\ ~joined /\ ~flushing /\ Goto("end")
    /\ UNCHANGED <<pathVars, tryVars, linkVars, streamVars, queue, faults>>

\* iotc_close after a round.
RoundOver ==
    /\ pc = "roundover" /\ IotcClose /\ Goto(IF joined THEN "run" ELSE "end")
    /\ asked' = 0 /\ logins' = 0 /\ FreshReceive
    /\ UNCHANGED <<rounds, tries, framed, linkReady, accepted, ctrlOut, queue, faults>>

End ==
    /\ pc = "end" /\ IotcClose /\ pc' = "off" /\ joined' = FALSE /\ linkReady' = FALSE
    /\ logins' = 0 /\ FreshReceive
    /\ UNCHANGED <<joinMode, speaks, user, rounds, tries, framed, accepted, ctrlOut, asked,
                   queue, faults>>

TutkWorker ==
    \/ RunRound \/ ConnectAttempt \/ LanSearch \/ HeadStartOver \/ RelayJoin \/ Rendezvous
    \/ OpenPath \/ ServerHello \/ ServerFinished \/ Login
    \/ FlushFrames \/ ReceiveStops \/ RoundOver \/ End

TutkNext ==
    \/ Join \/ OpenReturns \/ NextFrame \/ SendCtrl \/ Leave \/ LeaveReturns
    \/ TutkWorker
    \/ PrinterSends \/ LateAccept \/ DrainCtrl \/ ReceiveStream \/ ReceiveFails
    \/ (user = "done" /\ UNCHANGED tutkVars)

\* The worker thread keeps running, and leave waits for it.
TutkSpec ==
    TutkInit /\ [][TutkNext]_tutkVars /\ WF_tutkVars(TutkWorker) /\ WF_tutkVars(LeaveReturns)

---------------------------------------------------------------------------
(* Properties *)

\* Outside open_path the only open socket is the adopted connection's: the
\* path that lost the race, and every failed one, is closed
\* (TutkSession::Impl::open_path, iotc_close).
NoSocketLeak == pc # "paths" => socks = {conn} \ {"none"}

\* Over the framed transport an inter frame is only shown right after the
\* frame it refers to, whatever was lost, repaired or reordered
\* (FrameQueue::deliver, need_key_).
NoBrokenReference ==
    joinMode = "Video" /\ framed =>
      \A n \in 1..Len(emitted) :
        emitted[n] \notin Keys => n > 1 /\ emitted[n - 1] + 1 = emitted[n]

\* Over the framed transport no frame is shown twice or out of order, also
\* when packets are duplicated (FecReceiver::add, FrameQueue::add).
EmittedInOrder ==
    framed => \A n \in 1..Len(emitted) - 1 : emitted[n] < emitted[n + 1]

\* FEC hides loss: when no group lost more packets than it has parity, no
\* packet overtook another and no repair took 500 ms, every frame is shown
\* once the last packet is processed (FecReceiver::recover, FrameQueue::flush).
FecHidesLoss ==
    /\ pc = "recv" /\ framed /\ calm /\ ~flushing
    /\ at = Cardinality(Packets) /\ air = <<>>
    /\ \A g \in Groups : Cardinality({p \in gone : p[1] = g}) <= M
    => {emitted[n] : n \in 1..Len(emitted)} = Frames

\* A file browser request goes out only on a connection whose login the
\* printer accepted, also after a reconnect (ready, drain_ctrl).
RequestsAfterLogin == [][asked' > asked => accepted]_tutkVars

\* leave returns: the worker notices the cleared flag in every phase of the
\* connection and ends (TutkSession::leave).
LeaveEnds == user = "leaving" ~> user = "done"

\* The pictures: in order, none without the one it refers to, and none missing that
\* parity can repair (FecReceiver, FrameQueue).
PicturesSound == TypeOK /\ NoBrokenReference /\ EmittedInOrder /\ FecHidesLoss

\* The connection: one socket of the two that raced, nothing asked before its login,
\* and leave comes back (TutkSession::Impl).
SessionSound == []NoSocketLeak /\ RequestsAfterLogin /\ LeaveEnds
=============================================================================
