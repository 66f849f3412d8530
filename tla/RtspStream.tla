------------------------------ MODULE RtspStream ------------------------------
(***************************************************************************)
(* The RTSP(S) camera path: the client of stubs/rtsp_client.cpp (handshake *)
(* with one authentication retry per request, interleaved RTP, keepalive   *)
(* thread) under the worker of stubs/rtsp_passthrough.cpp, which puts NAL  *)
(* units together to access units and queues them for the host's reads.    *)
(*                                                                         *)
(* One stream.  The printer's video is the constant Video, a sequence of   *)
(* RTP packets in the order the TCP connection delivers them; `pos' counts *)
(* those received.  A packet is [ts, kind]: "sps" (parameter set, sent     *)
(* in-band), "nal" (single NAL unit), "fuS"/"fuE" (start and end of one    *)
(* fragmented NAL unit).  The marker bit is on or off on the last packet   *)
(* of a picture: the code must not depend on it.                           *)
(***************************************************************************)
EXTENDS Naturals, Sequences, FiniteSets

CONSTANTS Video,       \* the packets the printer will send
          ReadyCap,    \* kMaxReadyQueue
          SeqMod       \* 2^16: RTP sequence numbers wrap

\* TCP delivers the packets in the order of the pictures, and the end of a fragmented NAL
\* unit right after its start.
ASSUME RtspAssumption ==
  /\ ReadyCap \in Nat \ {0} /\ SeqMod \in Nat \ {0}
  /\ Video \in Seq([ts : Nat \ {0}, kind : {"sps", "nal", "fuS", "fuE"}])
  /\ \A p, q \in 1..Len(Video) : p <= q => Video[p].ts <= Video[q].ts
  /\ \A p \in 1..Len(Video) :
       Video[p].kind = "fuE" => /\ p > 1 /\ Video[p - 1].kind = "fuS"
                                /\ Video[p - 1].ts = Video[p].ts

VARIABLES cpc,      \* Client::start: idle, a request name, "playing", "failed"
          tried,    \* the current request has used its authentication retry
          pos,      \* packets of Video received
          naluq,    \* nalu_queue: decoded NAL units not yet assembled
          fu,       \* a fragmented NAL unit is being reassembled (fu_buf)
          au,       \* the access unit being built: its ts (0 = none) and NALs
          ready,    \* queue to the reader: samples and the final marker
          idle,     \* stall_ms have passed since last_progress
          stalled,  \* the watchdog has reported
          wpc,      \* passthrough worker: "none", "run", "done"
          ping,     \* keepalive thread: "none", "run", "done"
          down,     \* socket_down: cancel() has shut the socket down
          stop,     \* Passthrough::stop: "no", "cancelled", "joined", "stopped"
          rssl,     \* the SSL object: "none", "up", "freed"
          pulled    \* what try_pull returned last, and the last picture's ts

rvars == <<cpc, tried, pos, naluq, fu, au, ready, idle, stalled, wpc, ping,
           down, stop, rssl, pulled>>

Steps == <<"OPTIONS", "DESCRIBE", "SETUP", "PLAY">>
IsStep(c) == \E i \in 1..Len(Steps) : Steps[i] = c
NextStep(c) == LET i == CHOOSE j \in 1..Len(Steps) : Steps[j] = c
               IN  IF i = Len(Steps) THEN "playing" ELSE Steps[i + 1]

NoAu == [ts |-> 0, nals |-> 0]

\* The last packet of its picture, where the marker bit belongs.
EndsPicture(p) == \A q \in p + 1..Len(Video) : Video[q].ts # Video[p].ts

\* NAL units of a picture that reach the reader (parameter sets do not).
Nals(ts) == Cardinality({p \in 1..Len(Video) :
                           Video[p].ts = ts /\ Video[p].kind \in {"nal", "fuE"}})

RInit == /\ cpc = "idle" /\ tried = FALSE /\ pos = 0 /\ naluq = <<>>
         /\ fu = 0 /\ au = NoAu /\ ready = <<>> /\ idle = FALSE
         /\ stalled = FALSE /\ wpc = "none" /\ ping = "none" /\ down = FALSE
         /\ stop = "no" /\ rssl = "none"
         /\ pulled = [rc |-> "none", ts |-> 0]

(***************************************************************************)
(* Client::start: dial, then the four requests.                            *)
(***************************************************************************)
Dial(ok) ==
  /\ cpc = "idle"
  /\ cpc' = IF ok THEN Steps[1] ELSE "failed"
  /\ rssl' = IF ok THEN "up" ELSE "none"
  /\ UNCHANGED <<tried, pos, naluq, fu, au, ready, idle, stalled, wpc, ping,
                 down, stop, pulled>>

\* A request answered 200: the next request, and after PLAY the worker and the
\* keepalive thread start (the watchdog's clock starts at zero).
Answered ==
  /\ IsStep(cpc)
  /\ cpc' = NextStep(cpc) /\ tried' = FALSE
  /\ IF cpc = "PLAY" THEN wpc' = "run" /\ ping' = "run"
                     ELSE UNCHANGED <<wpc, ping>>
  /\ UNCHANGED <<pos, naluq, fu, au, ready, idle, stalled, down, stop, rssl,
                 pulled>>

\* 401: adopt the challenge and repeat the request once.  A second 401, an
\* unusable challenge, any other status, a time-out: close_tls and give up.
Unauthorized ==
  /\ IsStep(cpc) /\ ~tried
  /\ tried' = TRUE
  /\ UNCHANGED <<cpc, pos, naluq, fu, au, ready, idle, stalled, wpc, ping,
                 down, stop, rssl, pulled>>

Refused ==
  /\ IsStep(cpc)
  /\ cpc' = "failed" /\ rssl' = "freed"
  /\ naluq' = <<>> /\ fu' = 0 /\ tried' = FALSE
  /\ UNCHANGED <<pos, au, ready, idle, stalled, wpc, ping, down, stop, pulled>>

(***************************************************************************)
(* decode_rtp_h264: one packet to zero or one NAL unit [ts, key, last].    *)
(***************************************************************************)
Nalu(ts, last, ps) == <<[ts |-> ts, last |-> last, ps |-> ps]>>

Decode(p, m) ==
  LET k == Video[p] IN
  CASE k.kind = "sps" -> Nalu(k.ts, m, TRUE)
    [] k.kind = "nal" -> Nalu(k.ts, m, FALSE)
    [] k.kind = "fuS" -> <<>>
    [] k.kind = "fuE" -> IF fu = 0 THEN <<>> ELSE Nalu(fu, m, FALSE)

ReceivePacket(m) ==
  \E p \in 1..Len(Video) :
    /\ p = pos + 1 /\ (m => EndsPicture(p))
    /\ pos' = p
    /\ naluq' = naluq \o Decode(p, m)
    /\ fu' = CASE Video[p].kind = "fuS" -> Video[p].ts
               [] Video[p].kind = "fuE" -> 0
               [] OTHER -> fu

\* await_response: interleaved frames that overtake the answer to PLAY are kept.
EarlyFrame(m) ==
  /\ cpc = "PLAY"
  /\ ReceivePacket(m)
  /\ UNCHANGED <<cpc, tried, au, ready, idle, stalled, wpc, ping, down, stop,
                 rssl, pulled>>

(***************************************************************************)
(* The passthrough worker.                                                 *)
(***************************************************************************)
Reading == wpc = "run"

\* read_nalu with an empty queue: pull_one_message takes the next packet.
WorkerReceives(m) ==
  /\ Reading /\ naluq = <<>> /\ ~down
  /\ ReceivePacket(m)
  /\ UNCHANGED <<cpc, tried, au, ready, idle, stalled, wpc, ping, down, stop,
                 rssl, pulled>>

Sample(a) == [rc |-> "ok", ts |-> a.ts, nals |-> a.nals]

\* flush_au: the oldest samples make room, the new one is queued, progress.
PushSample(q, a) == Append(IF Len(q) >= ReadyCap THEN Tail(q) ELSE q, Sample(a))

\* A boundary only where the marker bit says so.
MarkerOnly(n) == FALSE
\* The access-unit boundary is a change of the RTP timestamp, not only the
\* marker bit, which may have got lost.
NewPicture(n) == au.ts # 0 /\ n.ts # au.ts

\* One NAL unit: parameter sets are dropped (the SDP's are put before each IDR),
\* a NAL unit of another picture closes the one being built, the marker bit
\* closes its own.
WorkerAssembles ==
  /\ Reading /\ naluq # <<>>
  /\ LET n    == Head(naluq)
         cut  == NewPicture(n)
         q1   == IF cut THEN PushSample(ready, au) ELSE ready
         a0   == IF cut \/ au.ts = 0 THEN [ts |-> n.ts, nals |-> 0] ELSE au
         a1   == [a0 EXCEPT !.nals = @ + 1]
     IN  IF n.ps THEN UNCHANGED <<ready, au, idle>>
         ELSE /\ ready' = IF n.last THEN PushSample(q1, a1) ELSE q1
              /\ au'    = IF n.last THEN NoAu ELSE a1
              /\ idle'  = IF cut \/ n.last THEN FALSE ELSE idle
  /\ naluq' = Tail(naluq)
  /\ UNCHANGED <<cpc, tried, pos, fu, stalled, wpc, ping, down, stop, rssl, pulled>>

Marker(k) == [rc |-> k, ts |-> 0, nals |-> 0]

\* The final marker is queued whatever the queue holds.
PushMarker(q, k) == Append(q, Marker(k))

\* read_nalu failed: end of stream or BYE (rc = 1), an error or a read time-out
\* (rc = -1), or the socket shut down by stop().  The access unit in the works
\* is dropped; the marker is the worker's last act.
WorkerEnds(rc) ==
  /\ Reading /\ naluq = <<>>
  /\ down => rc = "error"
  /\ ready' = PushMarker(ready, IF rc = "end" \/ stop # "no" THEN "end" ELSE "error")
  /\ idle' = FALSE /\ wpc' = "done" /\ au' = NoAu
  /\ UNCHANGED <<cpc, tried, pos, naluq, fu, stalled, ping, down, stop, rssl,
                 pulled>>

\* The loop condition: stop_flag is seen before the next read.
WorkerStops ==
  /\ wpc = "run" /\ stop = "cancelled"
  /\ wpc' = "done" /\ au' = NoAu
  /\ UNCHANGED <<cpc, tried, pos, naluq, fu, ready, idle, stalled, ping, down,
                 stop, rssl, pulled>>

\* keepalive_main: a ping that fails (socket down, write error) ends the thread;
\* a ping that goes out changes nothing here (its answer is drained).
PingEnds ==
  /\ ping = "run"
  /\ ping' = "done"
  /\ UNCHANGED <<cpc, tried, pos, naluq, fu, au, ready, idle, stalled, wpc,
                 down, stop, rssl, pulled>>

\* stall_ms pass with nothing produced (it shows only while the queue is empty).
TimePasses ==
  /\ wpc # "none" /\ ~idle /\ ready = <<>>
  /\ idle' = TRUE
  /\ UNCHANGED <<cpc, tried, pos, naluq, fu, au, ready, stalled, wpc, ping, down,
                 stop, rssl, pulled>>

(***************************************************************************)
(* Passthrough::try_pull, by the host's reader.                            *)
(***************************************************************************)
\* Nothing to read and nothing produced for stall_ms.
Watchdog == ready = <<>> /\ (stalled \/ idle)

\* The front sample is moved out.
Popped(q) == Tail(q)

Pull ==
  /\ wpc # "none" /\ stop = "no"
  /\ IF ready # <<>>
       THEN /\ pulled' = [rc |-> Head(ready).rc,
                          ts |-> IF Head(ready).rc = "ok" THEN Head(ready).ts
                                 ELSE pulled.ts]
            /\ ready' = Popped(ready) /\ UNCHANGED stalled
       ELSE /\ stalled' = Watchdog
            /\ pulled' = [pulled EXCEPT !.rc = IF Watchdog THEN "error" ELSE "wait"]
            /\ UNCHANGED ready
  /\ UNCHANGED <<cpc, tried, pos, naluq, fu, au, idle, wpc, ping, down, stop, rssl>>

(***************************************************************************)
(* Passthrough::stop: flag and cancel(), join the worker, Client::stop     *)
(* (join the keepalive thread, close the connection).                      *)
(***************************************************************************)
StopBegins ==
  /\ stop = "no" /\ ~IsStep(cpc)
  /\ stop' = "cancelled" /\ down' = TRUE
  /\ UNCHANGED <<cpc, tried, pos, naluq, fu, au, ready, idle, stalled, wpc,
                 ping, rssl, pulled>>

\* stop() joins the worker before the client is stopped.
WorkerJoined == wpc # "run"

StopJoins ==
  /\ stop = "cancelled" /\ WorkerJoined
  /\ stop' = "joined"
  /\ UNCHANGED <<cpc, tried, pos, naluq, fu, au, ready, idle, stalled, wpc,
                 ping, down, rssl, pulled>>

ClientStops ==
  /\ stop = "joined" /\ ping # "run"
  /\ stop' = "stopped"
  /\ rssl' = IF rssl = "up" THEN "freed" ELSE rssl
  /\ UNCHANGED <<cpc, tried, pos, naluq, fu, au, ready, idle, stalled, wpc,
                 ping, down, pulled>>

RStartNext == \/ \E ok \in BOOLEAN : Dial(ok)
              \/ Answered \/ Unauthorized \/ Refused
              \/ \E m \in BOOLEAN : EarlyFrame(m)

RRunNext == \/ \E m \in BOOLEAN : WorkerReceives(m)
            \/ WorkerAssembles
            \/ \E rc \in {"end", "error"} : WorkerEnds(rc)
            \/ WorkerStops \/ PingEnds \/ TimePasses

RStopNext == StopBegins \/ StopJoins \/ ClientStops

(***************************************************************************)
(* Reception statistics for the RTCP receiver reports.  `cycles' counts    *)
(* whole wraps of the sequence number.                                     *)
(***************************************************************************)
NoStats == [init |-> FALSE, base |-> 0, max |-> 0, cycles |-> 0, received |-> 0]

\* A small forward step past the wrap starts a new cycle.
Cycles(st, seq) == st.cycles + (IF seq < st.max THEN SeqMod ELSE 0)

UpdateRtpStats(st, seq) ==
  LET forward == (seq + SeqMod - st.max) % SeqMod < SeqMod \div 2
  IN  IF ~st.init
        THEN [init |-> TRUE, base |-> seq, max |-> seq, cycles |-> 0, received |-> 1]
        ELSE [st EXCEPT !.received = @ + 1,
                        !.cycles = IF forward THEN Cycles(st, seq) ELSE @,
                        !.max = IF forward THEN seq ELSE @]

\* build_receiver_report: extended highest number and packets lost so far.
ReceiverReport(st) ==
  LET expected == st.cycles + st.max - st.base + 1
  IN  [highest |-> st.cycles + st.max,
       lost |-> IF expected > st.received THEN expected - st.received ELSE 0]

\* The statistics after a sequence of arrivals, by their wrapped numbers.
StatsAfter(arrivals) ==
  LET f[i \in 0..Len(arrivals)] ==
        IF i = 0 THEN NoStats ELSE UpdateRtpStats(f[i - 1], arrivals[i] % SeqMod)
  IN  f[Len(arrivals)]

(***************************************************************************)
(* Properties.                                                             *)
(***************************************************************************)
\* Every sample the reader can get is one whole picture: all its NAL units and
\* no other's, with or without marker bits, and with frames that overtook the
\* answer to PLAY (rtsp_passthrough.cpp flush_au, rtsp_client.cpp await_response).
WholePictures ==
  \A i \in 1..Len(ready) : ready[i].rc = "ok" => ready[i].nals = Nals(ready[i].ts)

\* Pictures reach the reader in the order the printer sent them, none twice,
\* though the queue drops the oldest when the reader is slow.
PicturesInOrder ==
  /\ \A i, j \in 1..Len(ready) :
       i < j /\ ready[j].rc = "ok" => ready[i].ts < ready[j].ts
  /\ \A i \in 1..Len(ready) : ready[i].rc = "ok" => pulled.ts < ready[i].ts

\* The SSL object outlives the worker and the keepalive thread, which use it
\* without a lock: stop() joins both before it closes the connection.
SslOutlivesThreads == rssl # "up" => wpc # "run" /\ ping # "run"
===============================================================================
