----------------------------- MODULE Source_proofs -----------------------------
(***************************************************************************)
(* TLAPS proofs about the two camera components: the Bambu_* tunnel of     *)
(* SourceTunnel with its file browser's channel, and the TUTK session of   *)
(* TutkSession.  They share no state; the proofs come one after the other. *)
(***************************************************************************)
EXTENDS SourceTunnel, TutkSession, FiniteSetTheorems, FunctionTheorems, SequenceTheorems,
        WellFoundedInduction, TLAPS

\* The two facts about numbers that the proofs below share.
LEMMA LeastIn ==
    ASSUME NEW S \in SUBSET Nat, S # {}
    PROVE  \E x \in S : \A y \in S : x <= y
<1>1. \E x \in S : \A y \in S : ~(<<y, x>> \in OpToRel(<, Nat))
  BY NatLessThanWellFounded, WFMin
<1>2. \A x, y \in S : y < x => <<y, x>> \in OpToRel(<, Nat)
  BY DEF OpToRel
<1>3. \A x, y \in S : x <= y \/ y < x
  OBVIOUS
<1> QED
  BY <1>1, <1>2, <1>3, Zenon

LEMMA DivMod ==
    ASSUME NEW w \in Nat \ {0}, NEW n \in Nat
    PROVE  n \div w \in Nat /\ n % w \in 0..w - 1 /\ n = (n \div w) * w + (n % w)
OBVIOUS

-------------------------------------------------------------------------------
(* The connections of a tunnel.  How far Client::start came tells which threads and which
   SSL object exist; the progress of the host's calls tells which transport is up; and each
   step of Bambu_Close finds what the steps before it took down gone. *)
Handshaking == {"OPTIONS", "DESCRIBE", "SETUP", "PLAY"}

RtspInv ==
    /\ cpc \in Handshaking \cup {"idle", "playing", "failed"}
    /\ cpc \in Handshaking => rssl = "up"
    /\ cpc # "playing" => wpc = "none" /\ ping = "none"
    /\ cpc \in {"idle", "failed"} => rssl # "up"
    /\ cpc = "playing" /\ rssl # "up" => stop = "stopped"
    /\ stop \in {"joined", "stopped"} => wpc # "run"
    /\ stop = "stopped" => ping # "run" /\ rssl # "up"
    /\ stop \in {"no", "cancelled", "joined", "stopped"}
    /\ stop # "no" => cl \in {"rtsp", "closed"} /\ cpc \notin Handshaking

Opened ==
    /\ scheme = "local" => cpc = "idle" /\ tutk = "none" /\ ((lv = "rtsps") <=> (ssl = "none"))
    /\ scheme = "tutk" => cpc \in {"idle", "failed"} /\ ssl = "none"
    /\ scheme = "rtsps" => cpc = "playing" /\ ssl = "none" /\ tutk = "none"

ApiInv ==
    /\ api \in {"created", "opened", "opening", "starting", "streaming", "ctrl", "failed"}
    /\ scheme \in {"local", "rtsps", "tutk"} /\ ssl \in {"none", "up"}
    /\ mode \in {"video", "ctrl"} /\ lv \in {"unset", "rtsps", "off"}
    /\ tutk \in {"none", "source", "ctrl"}
    /\ api = "created" => ssl = "none" /\ tutk = "none" /\ cpc = "idle" /\ cl = "no"
    /\ api \in {"opening", "starting"} => scheme = "rtsps" /\ ssl = "none" /\ tutk = "none"
                                          /\ cl = "no"
    /\ api = "starting" => mode = "video"
    /\ api = "streaming" => mode = "video"
    /\ api = "opened" /\ mode = "video" /\ cl = "no" => Opened
    /\ tutk = "ctrl" => mode = "ctrl" /\ api \in {"ctrl", "failed"}
    /\ OneTransport

CtrlInv ==
    /\ cw \in {"none", "run", "gone"} /\ ftp \in {"none", "up", "stale"}
    /\ cw # "none" => api = "ctrl" /\ tutk # "ctrl"
    /\ ftp # "none" => cw # "none" /\ cl \in {"no", "worker"}

ReaderInv ==
    /\ rd \in {"out", "checked", "inread"}
    /\ rd # "out" => api = "streaming" /\ scheme = "local"
    /\ rd = "inread" => mu = "reader" /\ ssl = "up"

ClosingInv ==
    /\ cl \in {"no", "worker", "wake", "lock", "rtsp", "closed"}
    /\ cl \in {"wake", "lock", "rtsp", "closed"} => tutk = "none" /\ cw # "run" /\ ftp = "none"
    /\ cl \in {"rtsp", "closed"} => ssl = "none"
    /\ cl = "closed" => RtspStopped

TunnelInv == RtspInv /\ ApiInv /\ CtrlInv /\ ReaderInv /\ ClosingInv

-------------------------------------------------------------------------------
LEMMA StepNames == \A c : IsStep(c) <=> c \in Handshaking
  BY DEF IsStep, Steps, Handshaking

LEMMA StepOrder ==
  /\ NextStep("OPTIONS") = "DESCRIBE" /\ NextStep("DESCRIBE") = "SETUP"
  /\ NextStep("SETUP") = "PLAY" /\ NextStep("PLAY") = "playing"
<1>1. (CHOOSE j \in 1..Len(Steps) : Steps[j] = "OPTIONS") = 1  BY DEF Steps
<1>2. (CHOOSE j \in 1..Len(Steps) : Steps[j] = "DESCRIBE") = 2  BY DEF Steps
<1>3. (CHOOSE j \in 1..Len(Steps) : Steps[j] = "SETUP") = 3  BY DEF Steps
<1>4. (CHOOSE j \in 1..Len(Steps) : Steps[j] = "PLAY") = 4  BY DEF Steps
<1>5. /\ Len(Steps) = 4 /\ 1 # 4 /\ 2 # 4 /\ 3 # 4
      /\ Steps[1 + 1] = "DESCRIBE" /\ Steps[2 + 1] = "SETUP" /\ Steps[3 + 1] = "PLAY"
  BY DEF Steps
<1>6. NextStep("OPTIONS") = "DESCRIBE"  BY <1>1, <1>5, Zenon DEF NextStep
<1>7. NextStep("DESCRIBE") = "SETUP"  BY <1>2, <1>5, Zenon DEF NextStep
<1>8. NextStep("SETUP") = "PLAY"  BY <1>3, <1>5, Zenon DEF NextStep
<1>9. NextStep("PLAY") = "playing"  BY <1>4, <1>5 DEF NextStep
<1> QED  BY <1>6, <1>7, <1>8, <1>9

\* What Client::start does to the connection and its threads.
LEMMA StartSteps ==
  ASSUME RStartNext, RtspInv
  PROVE  /\ stop' = stop
         /\ \/ cpc' = cpc /\ UNCHANGED <<rssl, wpc, ping>>
            \/ cpc = "idle" /\ cpc' = "OPTIONS" /\ rssl' = "up" /\ UNCHANGED <<wpc, ping>>
            \/ cpc = "idle" /\ cpc' = "failed" /\ rssl' = "none" /\ UNCHANGED <<wpc, ping>>
            \/ cpc \in Handshaking /\ cpc' \in Handshaking /\ UNCHANGED <<rssl, wpc, ping>>
            \/ cpc \in Handshaking /\ cpc' = "failed" /\ rssl' = "freed" /\ UNCHANGED <<wpc, ping>>
            \/ cpc \in Handshaking /\ cpc' = "playing" /\ UNCHANGED rssl
               /\ wpc' = "run" /\ ping' = "run"
<1>1. CASE \E ok \in BOOLEAN : Dial(ok)  BY <1>1 DEF Dial, Steps
<1>2. CASE Answered
  <2>1. cpc \in {"OPTIONS", "DESCRIBE", "SETUP", "PLAY"}
    BY <1>2, StepNames DEF Answered, Handshaking
  <2> QED  BY <1>2, <2>1, StepOrder DEF Answered, Handshaking
<1>3. CASE Unauthorized  BY <1>3 DEF Unauthorized
<1>4. CASE Refused  BY <1>4, StepNames DEF Refused
<1>5. CASE \E m \in BOOLEAN : EarlyFrame(m)  BY <1>5 DEF EarlyFrame
<1> QED  BY <1>1, <1>2, <1>3, <1>4, <1>5 DEF RStartNext

\* What the passthrough worker and the keepalive thread do to it.
LEMMA RunSteps ==
  ASSUME RRunNext
  PROVE  /\ UNCHANGED <<cpc, stop, rssl>>
         /\ wpc' = wpc \/ (wpc = "run" /\ wpc' = "done")
         /\ ping' = ping \/ (ping = "run" /\ ping' = "done")
<1>1. CASE \E m \in BOOLEAN : WorkerReceives(m)  BY <1>1 DEF WorkerReceives
<1>2. CASE WorkerAssembles  BY <1>2 DEF WorkerAssembles
<1>3. CASE \E rc \in {"end", "error"} : WorkerEnds(rc)  BY <1>3 DEF WorkerEnds, Reading
<1>4. CASE WorkerStops  BY <1>4 DEF WorkerStops
<1>5. CASE PingEnds  BY <1>5 DEF PingEnds
<1>6. CASE TimePasses  BY <1>6 DEF TimePasses
<1> QED  BY <1>1, <1>2, <1>3, <1>4, <1>5, <1>6 DEF RRunNext

\* The CTRL worker and the FTPS session.
LEMMA WorkerSteps ==
  ASSUME BWorkerNext \/ FtpIdleDrop
  PROVE  /\ cw' = cw \/ (cw = "run" /\ cw' = "gone")
         /\ ftp' = ftp \/ (ftp' \in {"none", "up", "stale"} /\ (cw = "run" \/ ftp = "up"))
<1>1. CASE TakeRequest  BY <1>1 DEF TakeRequest, Working, Serving, EnsureFtp, ReconnectFtp
<1>2. CASE WorkerLeaves  BY <1>2 DEF WorkerLeaves, Working, Serving, EnsureFtp, ReconnectFtp
<1>3. CASE FtpUnavailable  BY <1>3 DEF FtpUnavailable, Working, Serving, EnsureFtp, ReconnectFtp
<1>4. CASE FtpOneShot  BY <1>4 DEF FtpOneShot, Working, Serving, EnsureFtp, ReconnectFtp
<1>5. CASE FtpDelete  BY <1>5 DEF FtpDelete, Working, Serving, EnsureFtp, ReconnectFtp
<1>6. CASE TaskCancel  BY <1>6 DEF TaskCancel, Working, Serving, EnsureFtp, ReconnectFtp
<1>7. CASE SubFileZip  BY <1>7 DEF SubFileZip, Working, Serving, EnsureFtp, ReconnectFtp
<1>8. CASE DownloadSize  BY <1>8 DEF DownloadSize, Working, Serving, EnsureFtp, ReconnectFtp
<1>9. CASE DownloadData  BY <1>9 DEF DownloadData, Working, Serving, EnsureFtp, ReconnectFtp
<1>10. CASE DownloadCut  BY <1>10 DEF DownloadCut, Working, Serving, EnsureFtp, ReconnectFtp
<1>11. CASE DownloadDone  BY <1>11 DEF DownloadDone, Working, Serving, EnsureFtp, ReconnectFtp
<1>12. CASE NativeSend  BY <1>12 DEF NativeSend, Working, Serving
<1>13. CASE NativeReceive  BY <1>13 DEF NativeReceive, Working
<1>14. CASE FtpIdleDrop  BY <1>14 DEF FtpIdleDrop
<1> QED  BY <1>1, <1>2, <1>3, <1>4, <1>5, <1>6, <1>7, <1>8, <1>9, <1>10, <1>11, <1>12, <1>13,
            <1>14 DEF BWorkerNext, BWorkerOwn

LEMMA TunnelInit == Init => TunnelInv
  BY DEF Init, RInit, BInit, SInit, TunnelInv, RtspInv, ApiInv, CtrlInv, ReaderInv,
         ClosingInv, OneTransport, Handshaking

LEMMA TunnelStep == TunnelInv /\ [Next]_vars => TunnelInv'
<1> SUFFICES ASSUME TunnelInv, [Next]_vars PROVE TunnelInv'
  OBVIOUS
<1> USE DEF TunnelInv, RtspInv, ApiInv, CtrlInv, ReaderInv, ClosingInv, OneTransport,
            Opened, RtspStopped, Handshaking, Idle, Frame, rvars, bvars, svars
<1>1. CASE OpenDeferred  BY <1>1 DEF OpenDeferred
<1>2. CASE OpenLocal  BY <1>2 DEF OpenLocal, FallbackToTutk, LanDropped
<1>3. CASE OpenRtsp  BY <1>3 DEF OpenRtsp
<1>4. CASE RtspHandshake  BY <1>4, StartSteps DEF RtspHandshake
<1>5. CASE RtspUp  BY <1>5 DEF RtspUp, AfterRtsp
<1>6. CASE RtspFailed  BY <1>6 DEF RtspFailed, FallbackToTutk, LanDropped, AfterRtsp
<1>7. CASE StartRedirect  BY <1>7 DEF StartRedirect
<1>8. CASE StartOff  BY <1>8 DEF StartOff, FallbackToTutk, LanDropped
<1>9. CASE StartTutk  BY <1>9 DEF StartTutk
<1>10. CASE StartRtsp  BY <1>10 DEF StartRtsp
<1>11. CASE StartMjpeg  BY <1>11 DEF StartMjpeg, FallbackToTutk, LanDropped
<1>12. CASE StartCtrlTutk  BY <1>12 DEF StartCtrlTutk
<1>13. CASE CtrlDial  BY <1>13 DEF CtrlDial
<1>14. CASE CtrlHandshake  BY <1>14 DEF CtrlHandshake
<1>15. CASE HostCtrl
  <2>1. UNCHANGED <<ftp, cw>>  BY <1>15 DEF HostCtrl, SendMessage, ReadReply
  <2>2. UNCHANGED <<rvars, svars>>  BY <1>15 DEF HostCtrl
  <2> QED  BY <2>1, <2>2
<1>16. CASE TutkCtrl  BY <1>16 DEF TutkCtrl
<1>17. CASE Worker  BY <1>17, WorkerSteps DEF Worker
<1>18. CASE ReadRtsp  BY <1>18 DEF ReadRtsp, Pull
<1>19. CASE RtspRuns  BY <1>19, RunSteps DEF RtspRuns
<1>20. CASE ReadTutk  BY <1>20 DEF ReadTutk
<1>21. CASE ReaderEnters  BY <1>21 DEF ReaderEnters
<1>22. CASE ReaderLocks  BY <1>22 DEF ReaderLocks
<1>23. CASE ReaderReturns  BY <1>23 DEF ReaderReturns
<1>24. CASE CloseBegins  BY <1>24 DEF CloseBegins, MayClose
<1>25. CASE CloseJoinsWorker  BY <1>25 DEF CloseJoinsWorker, WorkerGone
<1>26. CASE CloseWakesReader  BY <1>26 DEF CloseWakesReader, Wake
<1>27. CASE CloseFreesSsl  BY <1>27 DEF CloseFreesSsl, LockFree
<1>28. CASE CloseStopsRtsp  BY <1>28, StepNames DEF CloseStopsRtsp, RStopNext, StopBegins, StopJoins, ClientStops, WorkerJoined
<1>29. CASE Closed  BY <1>29 DEF Closed
<1>30. CASE UNCHANGED vars  BY <1>30 DEF vars
<1> QED  BY <1>1, <1>2, <1>3, <1>4, <1>5, <1>6, <1>7, <1>8, <1>9, <1>10, <1>11, <1>12,
         <1>13, <1>14, <1>15, <1>16, <1>17, <1>18, <1>19, <1>20, <1>21, <1>22, <1>23,
         <1>24, <1>25, <1>26, <1>27, <1>28, <1>29, <1>30 DEF Next, CloseNext, Over

(* A stream that runs has its own transport and no other; a closed tunnel holds no
   connection, thread or FTPS session; and no SSL object is freed under a thread that reads
   from it (BambuSource.cpp Bambu_Open, Bambu_StartStream, fallback_to_tutk, tunnel_close;
   rtsp_passthrough.cpp stop). *)
THEOREM TransportHolds == Spec => []TransportSound
<1>1. TunnelInv => TransportSound
  BY DEF TunnelInv, RtspInv, ApiInv, CtrlInv, ReaderInv, ClosingInv, TransportSound,
         NothingLeftOpen, SslNotFreedInRead, SslOutlivesThreads, RtspStopped, Handshaking
<1> QED  BY TunnelInit, TunnelStep, <1>1, PTL DEF Spec

-------------------------------------------------------------------------------
(* The replies of the file browser's channel.  Requests are served one at a time and in
   order, so the replies to one request stand together in the queue: the first continues
   what the host holds of the answer, each further one the reply before it, and what the
   job will send next continues the last of its replies. *)
Results == {"ok", "continue", "missing", "cancel", "unavail"}
Replies == [seq : Nat, res : Results, off : Nat, size : Nat, total : Nat, dig : Nat]
Jobs == [seq : Nat, cmd : Cmds \cup {"none"}, pc : {"none", "begin", "data", "sent", "part"},
         total : Nat, buf : Nat, sent : Nat, dig : Nat, got : Nat, retried : BOOLEAN]
Records == [bytes : Nat, gap : BOOLEAN, res : Results \cup {"none"}, finals : Nat, dig : Nat]

\* The number of the last request the worker (or the TUTK session) has taken up.
Taken == nreq - Len(ctrl_in)

Ends(r) == r.off + r.size
Counts(r) == r.res \in {"continue", "ok"}

\* A reply that carries no data unless it counts, and a final OK that ends the file.
GoodReply(r) ==
    /\ r \in Replies
    /\ ~Counts(r) => r.size = 0
    /\ r.res = "ok" => Ends(r) = 0 \/ (Ends(r) = FileUnits /\ r.dig = FileUnits)

\* Reply r is what comes after n units of an answer; q is what comes after reply p.
From(r, n) == Counts(r) => r.off = n
Joins(p, q) == p.res = "continue" /\ From(q, Ends(p))

BridgeTypes ==
    /\ nreq \in 0..Reqs /\ job \in Jobs
    /\ ctrl_in \in Seq([seq : Nat, cmd : Cmds]) /\ ctrl_out \in Seq(Replies)
    /\ answer \in [1..Reqs -> Records]

InOrder ==
    /\ Len(ctrl_in) <= nreq
    /\ \A k \in 1..Len(ctrl_in) : ctrl_in[k].seq = Taken + k
    /\ cw = "none" => ctrl_in = <<>> /\ job.seq = 0

RepliesJoin ==
    /\ \A k \in 1..Len(ctrl_out) : GoodReply(ctrl_out[k]) /\ ctrl_out[k].seq \in 1..Taken
    /\ \A j, k \in 1..Len(ctrl_out) : j <= k => ctrl_out[j].seq <= ctrl_out[k].seq
    /\ \A k \in 1..Len(ctrl_out) :
         IF k # 1 /\ ctrl_out[k - 1].seq = ctrl_out[k].seq
           THEN Joins(ctrl_out[k - 1], ctrl_out[k])
           ELSE /\ answer[ctrl_out[k].seq].finals = 0
                /\ From(ctrl_out[k], answer[ctrl_out[k].seq].bytes)

AnswersSound ==
    \A i \in 1..Reqs :
      /\ answer[i].gap = FALSE /\ answer[i].finals \in {0, 1}
      /\ answer[i].finals = 0 => answer[i].res = "none"
      /\ answer[i].res = "ok" =>
           \/ answer[i].bytes = 0
           \/ answer[i].bytes = FileUnits /\ answer[i].dig = FileUnits
      /\ i > Taken => answer[i].bytes = 0 /\ answer[i].finals = 0

JobContinues ==
    /\ job.pc = "none" <=> job.seq = 0
    /\ job.seq # 0 =>
         /\ job.seq = Taken /\ job.dig = job.got /\ job.sent + job.buf = job.got
         /\ job.got <= FileUnits /\ (job.pc # "data" => job.got = 0)
         /\ IF Len(ctrl_out) # 0 /\ ctrl_out[Len(ctrl_out)].seq = job.seq
              THEN /\ ctrl_out[Len(ctrl_out)].res = "continue"
                   /\ job.sent = Ends(ctrl_out[Len(ctrl_out)])
              ELSE answer[job.seq].finals = 0 /\ job.sent = answer[job.seq].bytes

BridgeInv == BridgeTypes /\ InOrder /\ RepliesJoin /\ AnswersSound /\ JobContinues

\* The replies rs to request s, after n units of its answer.
Run(rs, s, n) ==
    /\ \A k \in 1..Len(rs) : GoodReply(rs[k]) /\ rs[k].seq = s
    /\ \A k \in 1..Len(rs) : IF k = 1 THEN From(rs[k], n) ELSE Joins(rs[k - 1], rs[k])

LEMMA BridgeInit == BInit => BridgeInv
<1> SUFFICES ASSUME BInit PROVE BridgeInv
  OBVIOUS
<1>1. BridgeTypes
  BY BridgeAssumption, EmptySeq DEF BInit, BridgeTypes, NoJob, Jobs, Record, Records
<1>2. InOrder /\ RepliesJoin /\ JobContinues
  BY BridgeAssumption DEF BInit, InOrder, RepliesJoin, JobContinues, NoJob, Taken
<1>3. AnswersSound
  BY BridgeAssumption DEF BInit, AnswersSound, Record
<1> QED  BY <1>1, <1>2, <1>3 DEF BridgeInv

\* Replies to the request in hand that continue its answer keep the queue joined.
LEMMA QueueGrows ==
  ASSUME BridgeInv, job.seq # 0, NEW rs \in Seq(Replies), Run(rs, job.seq, job.sent),
         ctrl_out' = ctrl_out \o rs, UNCHANGED <<nreq, ctrl_in, answer>>
  PROVE  /\ RepliesJoin' /\ ctrl_out' \in Seq(Replies)
         /\ Len(rs) # 0 => Len(ctrl_out') # 0 /\ ctrl_out'[Len(ctrl_out')] = rs[Len(rs)]
<1> DEFINE n == Len(ctrl_out)
           q == ctrl_out'
<1>1. /\ n \in Nat /\ Len(rs) \in Nat /\ q \in Seq(Replies) /\ Len(q) = n + Len(rs)
      /\ \A k \in 1..n : q[k] = ctrl_out[k]
      /\ \A k \in 1..Len(rs) : q[n + k] = rs[k]
  <2>1. ctrl_out \in Seq(Replies)  BY DEF BridgeInv, BridgeTypes
  <2>2. n \in Nat /\ Len(rs) \in Nat  BY <2>1, LenProperties
  <2>3. q \in Seq(Replies) /\ Len(q) = n + Len(rs)  BY <2>1, ConcatProperties
  <2>4. \A i \in 1..n + Len(rs) : q[i] = IF i <= n THEN ctrl_out[i] ELSE rs[i - n]
    BY <2>1, ConcatProperties
  <2> QED  BY <2>2, <2>3, <2>4
<1>2. Taken' = Taken  BY DEF Taken
<1>3. job.seq = Taken /\ Taken \in Nat  BY DEF BridgeInv, JobContinues, BridgeTypes, Jobs
<1>4. \A k \in 1..Len(q) : k \in 1..n \/ (\E i \in 1..Len(rs) : k = n + i)
  <2> TAKE k \in 1..Len(q)
  <2>1. k \in Int /\ 1 <= k /\ k <= n + Len(rs)  BY <1>1
  <2>2. CASE k > n
    <3>1. k - n \in 1..Len(rs) /\ k = n + (k - n)  BY <1>1, <2>1, <2>2
    <3> QED  BY <3>1
  <2>3. CASE k <= n  BY <1>1, <2>1, <2>3
  <2>4. k > n \/ k <= n  BY <1>1, <2>1
  <2> QED  BY <2>2, <2>3, <2>4
<1>5. \A k \in 1..Len(q) : GoodReply(q[k]) /\ q[k].seq \in 1..Taken
  <2> TAKE k \in 1..Len(q)
  <2>1. CASE k \in 1..n  BY <1>1, <2>1 DEF BridgeInv, RepliesJoin
  <2>2. CASE \E i \in 1..Len(rs) : k = n + i
    <3>1. PICK i \in 1..Len(rs) : k = n + i  BY <2>2
    <3>2. GoodReply(rs[i]) /\ rs[i].seq = job.seq  BY DEF Run
    <3>3. job.seq \in 1..Taken  BY <1>3
    <3> QED  BY <1>1, <3>1, <3>2, <3>3
  <2> QED  BY <1>4, <2>1, <2>2
<1>6. \A k \in 1..n : q[k].seq <= job.seq /\ q[k].seq \in Nat
  BY <1>1, <1>3 DEF BridgeInv, RepliesJoin
<1>7. \A k \in 1..Len(rs) : q[n + k].seq = job.seq  BY <1>1 DEF Run
<1>8. \A j, k \in 1..Len(q) : j <= k => q[j].seq <= q[k].seq
  <2> SUFFICES ASSUME NEW j \in 1..Len(q), NEW k \in 1..Len(q), j <= k
               PROVE  q[j].seq <= q[k].seq
    OBVIOUS
  <2>1. CASE k \in 1..n
    <3>1. j \in 1..n  BY <1>1, <2>1
    <3> QED  BY <1>1, <2>1, <3>1 DEF BridgeInv, RepliesJoin
  <2>2. CASE \E i \in 1..Len(rs) : k = n + i
    <3>1. q[k].seq = job.seq  BY <1>7, <2>2
    <3>2. q[j].seq <= job.seq
      <4>1. CASE j \in 1..n  BY <1>6, <4>1
      <4>2. CASE \E i \in 1..Len(rs) : j = n + i
        <5>1. q[j].seq = job.seq  BY <1>7, <4>2
        <5> QED  BY <1>3, <5>1
      <4> QED  BY <1>4, <4>1, <4>2
    <3> QED  BY <3>1, <3>2
  <2> QED  BY <1>4, <2>1, <2>2
<1>9. ASSUME NEW k \in 1..Len(q)
      PROVE  IF k # 1 /\ q[k - 1].seq = q[k].seq THEN Joins(q[k - 1], q[k])
             ELSE answer[q[k].seq].finals = 0 /\ From(q[k], answer[q[k].seq].bytes)
  <2>1. CASE k \in 1..n
    <3>1. q[k] = ctrl_out[k]  BY <1>1, <2>1
    <3>2. k # 1 => k - 1 \in 1..n  BY <1>1, <2>1
    <3>3. k # 1 => q[k - 1] = ctrl_out[k - 1]  BY <1>1, <3>2
    <3> QED  BY <2>1, <3>1, <3>3 DEF BridgeInv, RepliesJoin
  <2>2. CASE \E i \in 1..Len(rs) : k = n + i
    <3>1. PICK i \in 1..Len(rs) : k = n + i  BY <2>2
    <3>2. q[k] = rs[i] /\ rs[i].seq = job.seq  BY <1>1, <3>1 DEF Run
    <3>3. CASE i # 1
      <4>1. i - 1 \in 1..Len(rs) /\ n + (i - 1) = k - 1 /\ k # 1  BY <1>1, <3>1, <3>3
      <4>2. q[k - 1] = rs[i - 1] /\ rs[i - 1].seq = job.seq  BY <1>1, <4>1 DEF Run
      <4>3. Joins(rs[i - 1], rs[i])  BY <3>3 DEF Run
      <4> QED  BY <3>2, <4>1, <4>2, <4>3
    <3>4. CASE i = 1 /\ n = 0
      <4>1. k = 1  BY <3>1, <3>4
      <4>2. answer[job.seq].finals = 0 /\ job.sent = answer[job.seq].bytes
        BY <3>4 DEF BridgeInv, JobContinues
      <4>3. From(rs[i], job.sent)  BY <3>4 DEF Run
      <4> QED  BY <3>2, <4>1, <4>2, <4>3
    <3>5. CASE i = 1 /\ n # 0
      <4>1. k - 1 = n /\ k # 1 /\ n \in 1..n  BY <1>1, <3>1, <3>5
      <4>2. q[k - 1] = ctrl_out[n]  BY <1>1, <4>1
      <4>3. From(rs[i], job.sent)  BY <3>5 DEF Run
      <4>4. CASE ctrl_out[n].seq = job.seq
        <5>1. ctrl_out[n].res = "continue" /\ job.sent = Ends(ctrl_out[n])
          BY <3>5, <4>4 DEF BridgeInv, JobContinues
        <5> QED  BY <3>2, <4>1, <4>2, <4>3, <4>4, <5>1 DEF Joins
      <4>5. CASE ctrl_out[n].seq # job.seq
        <5>1. answer[job.seq].finals = 0 /\ job.sent = answer[job.seq].bytes
          BY <4>5 DEF BridgeInv, JobContinues
        <5> QED  BY <3>2, <4>1, <4>2, <4>3, <4>5, <5>1
      <4> QED  BY <4>4, <4>5
    <3> QED  BY <3>3, <3>4, <3>5
  <2> QED  BY <1>4, <2>1, <2>2
<1>10. RepliesJoin'  BY <1>2, <1>5, <1>8, <1>9 DEF RepliesJoin
<1>11. Len(rs) # 0 => Len(q) # 0 /\ q[Len(q)] = rs[Len(rs)]
  <2> HAVE Len(rs) # 0
  <2>1. Len(rs) \in 1..Len(rs) /\ Len(q) # 0  BY <1>1
  <2> QED  BY <1>1, <2>1
<1> QED  BY <1>1, <1>10, <1>11

\* Steps that touch neither queue, neither the job nor an answer.
LEMMA BridgeKept ==
  ASSUME BridgeInv, UNCHANGED <<ctrl_in, nreq, ctrl_out, answer, job>>,
         cw' = "none" => cw = "none"
  PROVE  BridgeInv'
BY DEF BridgeInv, BridgeTypes, InOrder, RepliesJoin, AnswersSound, JobContinues, Taken

LEMMA NoJobType == NoJob \in Jobs /\ NoJob.seq = 0 /\ NoJob.pc = "none"
BY DEF NoJob, Jobs

\* The job ends with replies that continue its answer.
LEMMA JobEnds ==
  ASSUME BridgeInv, job.seq # 0, NEW rs \in Seq(Replies), Run(rs, job.seq, job.sent),
         ctrl_out' = ctrl_out \o rs, job' = NoJob, UNCHANGED <<nreq, ctrl_in, answer, cw>>
  PROVE  BridgeInv'
<1>1. RepliesJoin' /\ ctrl_out' \in Seq(Replies)  BY QueueGrows
<1>2. BridgeTypes'  BY <1>1, NoJobType DEF BridgeInv, BridgeTypes
<1>3. InOrder' /\ AnswersSound'
  BY NoJobType DEF BridgeInv, InOrder, AnswersSound, Taken
<1>4. JobContinues'  BY NoJobType DEF JobContinues
<1> QED  BY <1>1, <1>2, <1>3, <1>4 DEF BridgeInv

\* A single reply without data.
LEMMA OneReply ==
  ASSUME NEW s \in Nat, NEW n \in Nat, NEW res \in Results, res = "continue" => n = 0,
         res = "ok" => n = 0
  PROVE  /\ Reply(s, res) \in Replies /\ <<Reply(s, res)>> \in Seq(Replies)
         /\ Run(<<Reply(s, res)>>, s, n)
<1> DEFINE r == Reply(s, res)
<1>1. /\ r \in Replies /\ r.seq = s /\ r.res = res /\ r.off = 0 /\ r.size = 0
  BY DEF Reply, Replies
<1> HIDE DEF r
<1>2. GoodReply(r)  BY <1>1 DEF GoodReply, Ends
<1>3. From(r, n)  BY <1>1 DEF From, Counts
<1>4. Len(<<r>>) = 1 /\ <<r>>[1] = r /\ <<r>> \in Seq(Replies)  BY <1>1
<1>5. Run(<<r>>, s, n)  BY <1>1, <1>2, <1>3, <1>4 DEF Run
<1> QED  BY <1>1, <1>4, <1>5 DEF r

LEMMA AppendOne ==
  ASSUME NEW s \in Seq(Replies), NEW r \in Replies
  PROVE  Append(s, r) = s \o <<r>> /\ <<r>> \in Seq(Replies)
OBVIOUS

(* ---- the chunks of a buffered file ---- *)
LEMMA Times ==
  ASSUME NEW a \in Int, NEW b \in Int, NEW c \in Nat, a <= b
  PROVE  a * c <= b * c
OBVIOUS

LEMMA ChunkCount ==
  ASSUME NEW n \in Nat \ {0}, NEW c \in Nat \ {0}, NEW m \in Int, m = (n + c - 1) \div c
  PROVE  m \in Nat \ {0} /\ (m - 1) * c < n /\ n <= m * c
OBVIOUS

LEMMA ChunksRun ==
  ASSUME NEW s \in Nat
  PROVE  Chunks(s, FileUnits) \in Seq(Replies) /\ Run(Chunks(s, FileUnits), s, 0)
<1>1. CASE FileUnits = 0
  <2>1. Chunks(s, FileUnits) = <<Reply(s, "ok")>>  BY <1>1 DEF Chunks
  <2>2. "ok" \in Results  BY DEF Results
  <2> QED  BY <2>1, <2>2, OneReply
<1>2. CASE FileUnits # 0
  <2> DEFINE m == (FileUnits + ChunkUnits - 1) \div ChunkUnits
             chunk(i) == LET off == (i - 1) * ChunkUnits
                             size == Least(ChunkUnits, FileUnits - off)
                         IN  [seq |-> s, off |-> off, size |-> size, total |-> FileUnits,
                              dig |-> FileUnits,
                              res |-> IF off + size = FileUnits THEN "ok" ELSE "continue"]
             rs == [i \in 1..m |-> chunk(i)]
  <2>1. Chunks(s, FileUnits) = rs  BY <1>2 DEF Chunks
  <2>2. m \in Int  BY BridgeAssumption
  <2> HIDE DEF m
  <2>3. m \in Nat \ {0} /\ (m - 1) * ChunkUnits < FileUnits /\ FileUnits <= m * ChunkUnits
    BY <1>2, <2>2, BridgeAssumption, ChunkCount DEF m
  <2>4. ASSUME NEW i \in 1..m
        PROVE  /\ (i - 1) * ChunkUnits \in Nat /\ (i - 1) * ChunkUnits < FileUnits
               /\ i # m => /\ Least(ChunkUnits, FileUnits - (i - 1) * ChunkUnits) = ChunkUnits
                           /\ (i - 1) * ChunkUnits + ChunkUnits = i * ChunkUnits
                           /\ i * ChunkUnits < FileUnits
               /\ i = m => Least(ChunkUnits, FileUnits - (i - 1) * ChunkUnits)
                             = FileUnits - (i - 1) * ChunkUnits
    <3>1. i \in Nat \ {0} /\ i - 1 \in Nat /\ m - 1 \in Nat /\ i - 1 <= m - 1  BY <2>3
    <3>2. (i - 1) * ChunkUnits <= (m - 1) * ChunkUnits  BY <3>1, BridgeAssumption, Times
    <3>3. (i - 1) * ChunkUnits \in Nat /\ i * ChunkUnits \in Nat /\ (m - 1) * ChunkUnits \in Nat
          /\ m * ChunkUnits \in Nat
      BY <2>3, <3>1, BridgeAssumption
    <3>4. (i - 1) * ChunkUnits + ChunkUnits = i * ChunkUnits  BY <3>1, BridgeAssumption
    <3>5. CASE i # m
      <4>1. i <= m - 1  BY <2>3, <3>5
      <4>2. i * ChunkUnits <= (m - 1) * ChunkUnits  BY <3>1, <4>1, BridgeAssumption, Times
      <4> QED  BY <2>3, <3>2, <3>3, <3>4, <3>5, <4>2, BridgeAssumption DEF Least
    <3>6. CASE i = m
      <4> QED  BY <2>3, <3>3, <3>4, <3>6, BridgeAssumption DEF Least
    <3> QED  BY <3>5, <3>6
  <2>5. ASSUME NEW i \in 1..m
        PROVE  /\ chunk(i) \in Replies /\ chunk(i).seq = s /\ chunk(i).dig = FileUnits
               /\ chunk(i).off = (i - 1) * ChunkUnits
               /\ i # m => chunk(i).res = "continue" /\ Ends(chunk(i)) = i * ChunkUnits
               /\ i = m => chunk(i).res = "ok" /\ Ends(chunk(i)) = FileUnits
    <3> DEFINE off == (i - 1) * ChunkUnits
               size == Least(ChunkUnits, FileUnits - off)
    <3>1. /\ off \in Nat /\ off < FileUnits
          /\ i # m => size = ChunkUnits /\ off + ChunkUnits = i * ChunkUnits
                      /\ i * ChunkUnits < FileUnits
          /\ i = m => size = FileUnits - off
      BY <2>4
    <3> HIDE DEF off, size
    <3>2. size \in Nat  BY <3>1, BridgeAssumption
    <3>3. chunk(i) = [seq |-> s, off |-> off, size |-> size, total |-> FileUnits,
                      dig |-> FileUnits,
                      res |-> IF off + size = FileUnits THEN "ok" ELSE "continue"]
      BY DEF off, size
    <3> HIDE DEF chunk
    <3>4. /\ chunk(i) \in Replies /\ chunk(i).seq = s /\ chunk(i).dig = FileUnits
          /\ chunk(i).off = off /\ chunk(i).size = size
          /\ chunk(i).res = IF off + size = FileUnits THEN "ok" ELSE "continue"
      BY <3>1, <3>2, <3>3, BridgeAssumption DEF Replies, Results
    <3>5. i # m => off + size # FileUnits /\ off + size = i * ChunkUnits  BY <3>1, BridgeAssumption
    <3>6. i = m => off + size = FileUnits  BY <3>1, BridgeAssumption
    <3>7. chunk(i).off = (i - 1) * ChunkUnits  BY <3>4 DEF off
    <3> QED  BY <3>4, <3>5, <3>6, <3>7 DEF Ends
  <2> HIDE DEF chunk
  <2>6. rs \in Seq(Replies) /\ Len(rs) = m /\ \A i \in 1..m : rs[i] = chunk(i)
    BY <2>3, <2>5
  <2> HIDE DEF rs
  <2>7. \A k \in 1..Len(rs) : GoodReply(rs[k]) /\ rs[k].seq = s
    BY <2>5, <2>6 DEF GoodReply, Counts
  <2>8. ASSUME NEW k \in 1..Len(rs)
        PROVE  IF k = 1 THEN From(rs[k], 0) ELSE Joins(rs[k - 1], rs[k])
    <3>1. k \in 1..m /\ k \in Int /\ rs[k].off = (k - 1) * ChunkUnits  BY <2>3, <2>5, <2>6
    <3>2. CASE k = 1
      <4>1. (k - 1) * ChunkUnits = 0  BY <3>2, BridgeAssumption
      <4> QED  BY <3>1, <3>2, <4>1 DEF From
    <3>3. CASE k # 1
      <4>1. k - 1 \in 1..m /\ k - 1 # m  BY <2>3, <3>1, <3>3
      <4>2. rs[k - 1].res = "continue" /\ Ends(rs[k - 1]) = (k - 1) * ChunkUnits
        BY <2>5, <2>6, <4>1
      <4> QED  BY <3>1, <3>3, <4>2 DEF Joins, From
    <3> QED  BY <3>2, <3>3
  <2> QED  BY <2>1, <2>6, <2>7, <2>8 DEF Run
<1> QED  BY <1>1, <1>2

(* ---- the host's calls ---- *)
LEMMA BridgeSends ==
  ASSUME BridgeInv, NEW c \in Cmds, SendMessage(c)
  PROVE  BridgeInv'
<1> DEFINE r == [seq |-> nreq + 1, cmd |-> c]
           T == [seq : Nat, cmd : Cmds]
<1>1. nreq \in Nat /\ nreq < Reqs /\ nreq' = nreq + 1 /\ nreq' \in 0..Reqs
  BY BridgeAssumption DEF BridgeInv, BridgeTypes, SendMessage
<1>2. r \in T /\ r.seq = nreq + 1  BY <1>1
<1>3. ctrl_in \in Seq(T) /\ ctrl_in' = Append(ctrl_in, r)
  BY DEF BridgeInv, BridgeTypes, SendMessage
<1> HIDE DEF r
<1>4. /\ Len(ctrl_in) \in Nat /\ ctrl_in' \in Seq(T) /\ Len(ctrl_in') = Len(ctrl_in) + 1
      /\ \A k \in 1..Len(ctrl_in) : ctrl_in'[k] = ctrl_in[k]
      /\ ctrl_in'[Len(ctrl_in) + 1] = r
  BY <1>2, <1>3
<1>5. UNCHANGED <<ctrl_out, answer, job>> /\ cw' # "none"  BY DEF SendMessage
<1>6. Taken' = Taken /\ Taken \in Int  BY <1>1, <1>4 DEF Taken
<1>7. BridgeTypes'  BY <1>1, <1>4, <1>5 DEF BridgeInv, BridgeTypes
<1>8. InOrder'
  <2>1. Len(ctrl_in') <= nreq'  BY <1>1, <1>4 DEF BridgeInv, InOrder
  <2>2. ASSUME NEW k \in 1..Len(ctrl_in') PROVE ctrl_in'[k].seq = Taken' + k
    <3>1. CASE k \in 1..Len(ctrl_in)  BY <1>4, <1>6, <3>1 DEF BridgeInv, InOrder
    <3>2. CASE k = Len(ctrl_in) + 1
      <4>1. Taken + k = nreq + 1  BY <1>1, <1>4, <3>2 DEF Taken
      <4> QED  BY <1>2, <1>4, <1>6, <3>2, <4>1
    <3>3. k \in 1..Len(ctrl_in) \/ k = Len(ctrl_in) + 1  BY <1>4
    <3> QED  BY <3>1, <3>2, <3>3
  <2> QED  BY <1>5, <2>1, <2>2 DEF InOrder
<1>9. RepliesJoin' /\ AnswersSound' /\ JobContinues'
  BY <1>5, <1>6 DEF BridgeInv, RepliesJoin, AnswersSound, JobContinues
<1> QED  BY <1>7, <1>8, <1>9 DEF BridgeInv

\* The host files the reply at the head of the queue under its request.
LEMMA BridgeReads ==
  ASSUME BridgeInv, ReadReply
  PROVE  BridgeInv'
<1> DEFINE r == Head(ctrl_out)
           s == r.seq
           q == ctrl_out'
<1>1. /\ Len(ctrl_out) \in Nat /\ Len(ctrl_out) # 0 /\ r = ctrl_out[1] /\ r \in Replies
      /\ q \in Seq(Replies) /\ Len(q) = Len(ctrl_out) - 1
      /\ \A k \in 1..Len(q) : q[k] = ctrl_out[k + 1]
  <2>1. ctrl_out \in Seq(Replies) /\ ctrl_out # <<>> /\ q = Tail(ctrl_out)
    BY DEF BridgeInv, BridgeTypes, ReadReply
  <2> QED  BY <2>1, HeadTailProperties, EmptySeq, LenProperties
<1>2. UNCHANGED <<ctrl_in, nreq, job, cw>>  BY DEF ReadReply
<1>3. Taken' = Taken /\ Taken \in Int /\ Taken <= Reqs
  BY <1>2, BridgeAssumption DEF Taken, BridgeInv, BridgeTypes, InOrder
<1>4. GoodReply(r) /\ s \in 1..Taken /\ s \in 1..Reqs
  <2>1. GoodReply(r) /\ s \in 1..Taken  BY <1>1 DEF BridgeInv, RepliesJoin
  <2> QED  BY <1>3, <2>1, BridgeAssumption
<1>5. answer[s].finals = 0 /\ From(r, answer[s].bytes)
  BY <1>1 DEF BridgeInv, RepliesJoin
<1>6. /\ answer[s] \in Records /\ answer[s].gap = FALSE /\ answer[s].res = "none"
  BY <1>4, <1>5 DEF BridgeInv, BridgeTypes, AnswersSound
<1>7. /\ answer' \in [1..Reqs -> Records]
      /\ \A i \in 1..Reqs : i # s => answer'[i] = answer[i]
      /\ answer'[s].bytes = answer[s].bytes + r.size
      /\ answer'[s].gap = FALSE
      /\ answer'[s].res = IF r.res = "continue" THEN "none" ELSE r.res
      /\ answer'[s].finals = IF r.res = "continue" THEN 0 ELSE 1
      /\ answer'[s].dig = r.dig
  <2> DEFINE a == answer[s]
             n == [bytes  |-> a.bytes + r.size,
                   gap    |-> a.gap \/ (r.size > 0 /\ r.off # a.bytes) \/ a.finals > 0,
                   res    |-> IF r.res = "continue" THEN a.res ELSE r.res,
                   finals |-> a.finals + (IF r.res = "continue" THEN 0 ELSE 1),
                   dig    |-> r.dig]
  <2>1. answer' = [answer EXCEPT ![s] = n]  BY DEF ReadReply
  <2>2. r.size \in Nat /\ r.off \in Nat /\ r.dig \in Nat /\ r.res \in Results
    BY <1>4 DEF GoodReply, Replies
  <2>3. (r.size > 0 /\ r.off # a.bytes) = FALSE
    BY <1>4, <1>5, <2>2 DEF GoodReply, From
  <2>4. n.gap = FALSE
    <3>1. (a.finals > 0) = FALSE  BY <1>5
    <3>2. n.gap = (a.gap \/ (r.size > 0 /\ r.off # a.bytes) \/ a.finals > 0)  OBVIOUS
    <3> HIDE DEF n
    <3> QED  BY <1>6, <2>3, <3>1, <3>2, Zenon
  <2>5. /\ n.bytes = a.bytes + r.size /\ n.dig = r.dig /\ n.bytes \in Nat
        /\ n.res = IF r.res = "continue" THEN "none" ELSE r.res
        /\ n.finals = IF r.res = "continue" THEN 0 ELSE 1
    BY <1>5, <1>6, <2>2 DEF Records
  <2>6. n \in [bytes : Nat, gap : BOOLEAN, res : Results \cup {"none"}, finals : Nat, dig : Nat]
    BY <1>5, <1>6, <2>2 DEF Records
  <2> HIDE DEF n
  <2>7. answer \in [1..Reqs -> Records] /\ n \in Records
    BY <2>6 DEF BridgeInv, BridgeTypes, Records
  <2> QED  BY <1>4, <2>1, <2>4, <2>5, <2>7
<1>8. r.res = "ok" => Ends(r) = answer'[s].bytes
  BY <1>5, <1>6, <1>7 DEF From, Counts, Ends
<1>9. BridgeTypes'  BY <1>1, <1>2, <1>7 DEF BridgeInv, BridgeTypes
<1>10. InOrder'  BY <1>2, <1>3 DEF BridgeInv, InOrder
<1>11. AnswersSound'
  <2> SUFFICES ASSUME NEW i \in 1..Reqs
        PROVE  /\ answer'[i].gap = FALSE /\ answer'[i].finals \in {0, 1}
               /\ answer'[i].finals = 0 => answer'[i].res = "none"
               /\ answer'[i].res = "ok" =>
                    \/ answer'[i].bytes = 0
                    \/ answer'[i].bytes = FileUnits /\ answer'[i].dig = FileUnits
               /\ i > Taken => answer'[i].bytes = 0 /\ answer'[i].finals = 0
    BY <1>3 DEF AnswersSound
  <2>1. CASE i # s  BY <1>7, <2>1 DEF BridgeInv, AnswersSound
  <2>2. CASE i = s
    <3>1. ~(i > Taken)  BY <1>3, <1>4, <2>2
    <3> QED  BY <1>4, <1>7, <1>8, <2>2, <3>1 DEF GoodReply
  <2> QED  BY <2>1, <2>2
<1>12. RepliesJoin'
  <2>1. \A k \in 1..Len(q) : k + 1 \in 1..Len(ctrl_out) /\ k \in Int  BY <1>1
  <2>2. \A k \in 1..Len(q) : GoodReply(q[k]) /\ q[k].seq \in 1..Taken
    BY <1>1, <2>1 DEF BridgeInv, RepliesJoin
  <2>3. \A j, k \in 1..Len(q) : j <= k => q[j].seq <= q[k].seq
    <3> SUFFICES ASSUME NEW j \in 1..Len(q), NEW k \in 1..Len(q), j <= k
                 PROVE  q[j].seq <= q[k].seq
      OBVIOUS
    <3>1. j + 1 <= k + 1 /\ j + 1 \in 1..Len(ctrl_out) /\ k + 1 \in 1..Len(ctrl_out)  BY <2>1
    <3>2. ctrl_out[j + 1].seq <= ctrl_out[k + 1].seq  BY <3>1 DEF BridgeInv, RepliesJoin
    <3> QED  BY <1>1, <3>2
  <2>4. ASSUME NEW k \in 1..Len(q)
        PROVE  IF k # 1 /\ q[k - 1].seq = q[k].seq THEN Joins(q[k - 1], q[k])
               ELSE answer'[q[k].seq].finals = 0 /\ From(q[k], answer'[q[k].seq].bytes)
    <3>1. /\ k \in Int /\ k + 1 \in 1..Len(ctrl_out) /\ k + 1 # 1 /\ (k + 1) - 1 = k
          /\ k \in 1..Len(ctrl_out) /\ q[k] = ctrl_out[k + 1]
          /\ k # 1 => k - 1 \in 1..Len(q) /\ (k - 1) + 1 = k
      <4>1. k \in Int /\ 1 <= k /\ k <= Len(q) /\ Len(q) = Len(ctrl_out) - 1
            /\ Len(ctrl_out) \in Nat
        BY <1>1
      <4>2. k + 1 \in 1..Len(ctrl_out) /\ k + 1 # 1 /\ (k + 1) - 1 = k
        BY <4>1
      <4>3. k \in 1..Len(ctrl_out)  BY <4>1
      <4>4. k # 1 => k - 1 \in 1..Len(q) /\ (k - 1) + 1 = k  BY <4>1
      <4>5. q[k] = ctrl_out[k + 1]  BY <1>1
      <4> QED  BY <4>1, <4>2, <4>3, <4>4, <4>5
    <3>2. IF ctrl_out[k].seq = ctrl_out[k + 1].seq
            THEN Joins(ctrl_out[k], ctrl_out[k + 1])
            ELSE /\ answer[ctrl_out[k + 1].seq].finals = 0
                 /\ From(ctrl_out[k + 1], answer[ctrl_out[k + 1].seq].bytes)
      BY <3>1 DEF BridgeInv, RepliesJoin
    <3>3. k # 1 => q[k - 1] = ctrl_out[k]  BY <1>1, <3>1
    <3>4. q[k].seq \in 1..Reqs  BY <1>3, <2>2, BridgeAssumption
    <3>5. CASE ctrl_out[k].seq # ctrl_out[k + 1].seq
      <4>1. s <= ctrl_out[k].seq /\ ctrl_out[k].seq <= ctrl_out[k + 1].seq
        <5>1. 1 \in 1..Len(ctrl_out) /\ 1 <= k /\ k <= k + 1  BY <1>1, <3>1
        <5> QED  BY <1>1, <3>1, <5>1 DEF BridgeInv, RepliesJoin
      <4>2. ctrl_out[k].seq \in Int /\ ctrl_out[k + 1].seq \in Int /\ s \in Int
        <5>1. ctrl_out[k].seq \in 1..Taken /\ ctrl_out[k + 1].seq \in 1..Taken
          BY <3>1 DEF BridgeInv, RepliesJoin
        <5> QED  BY <1>3, <1>4, <5>1
      <4>3. q[k].seq # s  BY <3>1, <3>5, <4>1, <4>2
      <4>4. answer'[q[k].seq] = answer[q[k].seq]  BY <1>7, <3>4, <4>3
      <4> QED  BY <3>1, <3>2, <3>3, <3>5, <4>4
    <3>6. CASE ctrl_out[k].seq = ctrl_out[k + 1].seq /\ k # 1
      BY <3>1, <3>2, <3>3, <3>6
    <3>7. CASE ctrl_out[k].seq = ctrl_out[k + 1].seq /\ k = 1
      <4>1. Joins(r, q[k]) /\ q[k].seq = s  BY <1>1, <3>1, <3>2, <3>7
      <4>2. r.res = "continue" /\ From(q[k], Ends(r))  BY <4>1 DEF Joins
      <4>3. Ends(r) = answer'[s].bytes /\ answer'[s].finals = 0
        BY <1>5, <1>7, <4>2 DEF From, Counts, Ends
      <4> QED  BY <3>7, <4>1, <4>2, <4>3
    <3> QED  BY <3>5, <3>6, <3>7
  <2> QED  BY <1>3, <2>2, <2>3, <2>4 DEF RepliesJoin
<1>13. JobContinues'
  <2>1. CASE job.seq = 0  BY <1>2, <2>1 DEF BridgeInv, JobContinues
  <2>2. CASE job.seq # 0
    <3>1. /\ job.seq = Taken /\ job.dig = job.got /\ job.sent + job.buf = job.got
          /\ job.got <= FileUnits /\ (job.pc # "data" => job.got = 0)
          /\ (job.pc = "none" <=> job.seq = 0)
      BY <2>2 DEF BridgeInv, JobContinues
    <3>2. IF Len(q) # 0 /\ q[Len(q)].seq = job.seq
            THEN q[Len(q)].res = "continue" /\ job.sent = Ends(q[Len(q)])
            ELSE answer'[job.seq].finals = 0 /\ job.sent = answer'[job.seq].bytes
      <4> DEFINE l == ctrl_out[Len(ctrl_out)]
      <4>1. Len(q) # 0 => q[Len(q)] = l
        <5> HAVE Len(q) # 0
        <5>1. Len(q) \in 1..Len(q) /\ Len(q) + 1 = Len(ctrl_out)  BY <1>1
        <5> QED  BY <1>1, <5>1
      <4>2. job.seq \in 1..Reqs
        BY <2>2, <3>1, <1>3, BridgeAssumption DEF BridgeInv, BridgeTypes, Jobs
      <4>3. s <= l.seq /\ l.seq \in 1..Taken
        <5>1. 1 \in 1..Len(ctrl_out) /\ Len(ctrl_out) \in 1..Len(ctrl_out) /\ 1 <= Len(ctrl_out)
          BY <1>1
        <5> QED  BY <1>1, <5>1 DEF BridgeInv, RepliesJoin
      <4>4. CASE l.seq = job.seq
        <5>1. l.res = "continue" /\ job.sent = Ends(l)
          BY <1>1, <2>2, <4>4 DEF BridgeInv, JobContinues
        <5>2. CASE Len(q) # 0  BY <4>1, <4>4, <5>1, <5>2
        <5>3. CASE Len(q) = 0
          <6>1. Len(ctrl_out) = 1  BY <1>1, <5>3
          <6>2. l = r  BY <1>1, <6>1
          <6>3. answer'[s].finals = 0 /\ Ends(r) = answer'[s].bytes
            BY <1>5, <1>7, <5>1, <6>2 DEF From, Counts, Ends
          <6> QED  BY <4>4, <5>1, <5>3, <6>2, <6>3
        <5> QED  BY <5>2, <5>3
      <4>5. CASE l.seq # job.seq
        <5>1. answer[job.seq].finals = 0 /\ job.sent = answer[job.seq].bytes
          BY <2>2, <4>5 DEF BridgeInv, JobContinues
        <5>2. job.seq # s  BY <1>3, <1>4, <3>1, <4>3, <4>5
        <5>3. answer'[job.seq] = answer[job.seq]  BY <1>7, <4>2, <5>2
        <5> QED  BY <4>1, <4>5, <5>1, <5>3
      <4> QED  BY <4>4, <4>5
    <3> QED  BY <1>2, <1>3, <3>1, <3>2 DEF JobContinues
  <2> QED  BY <2>1, <2>2
<1> QED  BY <1>9, <1>10, <1>11, <1>12, <1>13 DEF BridgeInv

(* ---- the worker ---- *)
LEMMA BridgeTakes ==
  ASSUME BridgeInv, TakeRequest
  PROVE  BridgeInv'
<1> DEFINE T == [seq : Nat, cmd : Cmds]
           r == Head(ctrl_in)
<1>1. /\ Len(ctrl_in) \in Nat /\ Len(ctrl_in) # 0 /\ r = ctrl_in[1] /\ r \in T
      /\ ctrl_in' \in Seq(T) /\ Len(ctrl_in') = Len(ctrl_in) - 1
      /\ \A k \in 1..Len(ctrl_in') : ctrl_in'[k] = ctrl_in[k + 1]
  <2>1. ctrl_in \in Seq(T) /\ ctrl_in # <<>> /\ ctrl_in' = Tail(ctrl_in)
    BY DEF BridgeInv, BridgeTypes, TakeRequest
  <2> HIDE DEF T
  <2> QED  BY <2>1, HeadTailProperties, EmptySeq, LenProperties
<1>2. UNCHANGED <<nreq, ctrl_out, answer, cw>> /\ cw = "run" /\ job = NoJob
      /\ job' = Fresh(r)
  BY DEF TakeRequest, Working
<1>3. nreq \in Nat /\ Len(ctrl_in) <= nreq /\ nreq <= Reqs
  BY BridgeAssumption DEF BridgeInv, BridgeTypes, InOrder
<1>4. Taken \in Nat /\ Taken' = Taken + 1 /\ Taken + 1 <= Reqs
  BY <1>1, <1>2, <1>3, BridgeAssumption DEF Taken
<1>5. r.seq = Taken + 1
  <2>1. 1 \in 1..Len(ctrl_in)  BY <1>1
  <2> QED  BY <1>1, <2>1 DEF BridgeInv, InOrder
<1>6. /\ job' \in Jobs /\ job'.seq = Taken' /\ job'.pc = "begin" /\ job'.sent = 0
      /\ job'.buf = 0 /\ job'.got = 0 /\ job'.dig = 0
  BY <1>1, <1>2, <1>4, <1>5 DEF Fresh, NoJob, Jobs
<1>7. BridgeTypes'  BY <1>1, <1>2, <1>6 DEF BridgeInv, BridgeTypes
<1>8. InOrder'
  <2>1. Len(ctrl_in') <= nreq'  BY <1>1, <1>2, <1>3
  <2>2. ASSUME NEW k \in 1..Len(ctrl_in') PROVE ctrl_in'[k].seq = Taken' + k
    <3>1. k + 1 \in 1..Len(ctrl_in) /\ k \in Int  BY <1>1
    <3>2. ctrl_in'[k] = ctrl_in[k + 1]  BY <1>1
    <3>3. ctrl_in[k + 1].seq = Taken + (k + 1)  BY <3>1 DEF BridgeInv, InOrder
    <3> QED  BY <1>4, <3>1, <3>2, <3>3
  <2> QED  BY <1>2, <2>1, <2>2 DEF InOrder
<1>9. RepliesJoin'
  <2>1. \A k \in 1..Len(ctrl_out) : ctrl_out[k].seq \in 1..Taken'
    BY <1>4 DEF BridgeInv, RepliesJoin
  <2> QED  BY <1>2, <2>1 DEF BridgeInv, RepliesJoin
<1>10. AnswersSound'
  <2>1. \A i \in 1..Reqs : i > Taken' => i > Taken  BY <1>4
  <2> QED  BY <1>2, <2>1 DEF BridgeInv, AnswersSound
<1>11. JobContinues'
  <2>1. ~(Len(ctrl_out) # 0 /\ ctrl_out[Len(ctrl_out)].seq = job'.seq)
    <3>1. Len(ctrl_out) \in Nat  BY LenProperties DEF BridgeInv, BridgeTypes
    <3>2. Len(ctrl_out) # 0 => ctrl_out[Len(ctrl_out)].seq \in 1..Taken
      <4> HAVE Len(ctrl_out) # 0
      <4>1. Len(ctrl_out) \in 1..Len(ctrl_out)  BY <3>1
      <4> QED  BY <4>1 DEF BridgeInv, RepliesJoin
    <3> QED  BY <1>4, <1>6, <3>2
  <2>2. Taken' \in 1..Reqs /\ Taken' > Taken /\ Taken' # 0  BY <1>4, BridgeAssumption
  <2>3. answer[job'.seq].finals = 0 /\ answer[job'.seq].bytes = 0
    BY <1>6, <2>2 DEF BridgeInv, AnswersSound
  <2> QED  BY <1>2, <1>6, <2>1, <2>2, <2>3, BridgeAssumption DEF JobContinues
<1> QED  BY <1>7, <1>8, <1>9, <1>10, <1>11 DEF BridgeInv

\* A request being served, and how far it has come.
LEMMA ServedFacts ==
  ASSUME BridgeInv, NEW cs, NEW phase \in {"begin", "data", "sent", "part"}, Serving(cs, phase)
  PROVE  /\ job.seq # 0 /\ job.seq \in Nat /\ job.sent \in Nat /\ cw = "run" /\ job.pc = phase
         /\ job.buf \in Nat /\ job.got \in Nat /\ job.dig = job.got
         /\ job.sent + job.buf = job.got /\ job.got <= FileUnits
         /\ phase # "data" => job.sent = 0 /\ job.got = 0 /\ job.buf = 0
<1>1. job \in Jobs /\ job.pc = phase /\ cw = "run"
  BY DEF BridgeInv, BridgeTypes, Serving, Working
<1>2. job.seq # 0  BY <1>1 DEF BridgeInv, JobContinues
<1> QED  BY <1>1, <1>2 DEF BridgeInv, JobContinues, Jobs

\* A request answered by one reply: OK only when nothing has been sent.
LEMMA JobAnswered ==
  ASSUME BridgeInv, NEW cs, NEW phase \in {"begin", "data", "sent", "part"},
         Serving(cs, phase),
         NEW res \in Results, res \in {"ok", "continue"} => phase # "data",
         Finish(<<Reply(job.seq, res)>>), UNCHANGED <<nreq, ctrl_in, answer, cw>>
  PROVE  BridgeInv'
<1>1. /\ job.seq # 0 /\ job.seq \in Nat /\ job.sent \in Nat
      /\ phase # "data" => job.sent = 0
  BY ServedFacts
<1>2. <<Reply(job.seq, res)>> \in Seq(Replies) /\ Run(<<Reply(job.seq, res)>>, job.seq, job.sent)
  BY <1>1, OneReply
<1> QED  BY <1>1, <1>2, JobEnds DEF Finish

\* The job goes on with what it has sent and nothing queued.
LEMMA JobGoesOn ==
  ASSUME BridgeInv, job.seq # 0, UNCHANGED <<nreq, ctrl_in, ctrl_out, answer, cw>>,
         job' \in Jobs, job'.seq = job.seq, job'.pc \in {"begin", "data", "sent", "part"}, job'.sent = job.sent,
         job'.dig = job'.got, job'.sent + job'.buf = job'.got, job'.got <= FileUnits,
         job'.pc # "data" => job'.got = 0
  PROVE  BridgeInv'
<1>1. Taken' = Taken  BY DEF Taken
<1>2. BridgeTypes'  BY DEF BridgeInv, BridgeTypes
<1>3. InOrder' /\ RepliesJoin' /\ AnswersSound'
  BY <1>1 DEF BridgeInv, InOrder, RepliesJoin, AnswersSound
<1>4. JobContinues'  BY <1>1 DEF BridgeInv, JobContinues
<1> QED  BY <1>2, <1>3, <1>4 DEF BridgeInv

\* A forwarded request: sent, or answered here, or given up without a reply.
LEMMA BridgeForwards ==
  ASSUME BridgeInv, NativeSend
  PROVE  BridgeInv'
<1>1. Serving({"native"}, "begin") /\ UNCHANGED <<nreq, ctrl_in, answer, cw>>
  BY DEF NativeSend
<1>2. /\ job.seq # 0 /\ job.seq \in Nat /\ job.sent = 0 /\ job.got = 0 /\ job.buf = 0
      /\ job.dig = 0
  BY <1>1, ServedFacts
<1>3. CASE job' = [job EXCEPT !.pc = "sent"] /\ UNCHANGED ctrl_out
  <2>1. job \in Jobs  BY DEF BridgeInv, BridgeTypes
  <2>2. /\ job' \in Jobs /\ job'.seq = job.seq /\ job'.pc = "sent" /\ job'.sent = 0
        /\ job'.got = 0 /\ job'.buf = 0 /\ job'.dig = 0
    BY <1>2, <1>3, <2>1 DEF Jobs
  <2> QED  BY <1>1, <1>2, <1>3, <2>2, JobGoesOn, BridgeAssumption
<1>4. CASE Finish(<<Reply(job.seq, "missing")>>)
  BY <1>1, <1>4, JobAnswered DEF Results
<1>5. CASE Finish(<<>>)
  <2>1. <<>> \in Seq(Replies) /\ Run(<<>>, job.seq, 0)  BY EmptySeq DEF Run
  <2> QED  BY <1>1, <1>2, <1>5, <2>1, JobEnds DEF Finish
<1> QED  BY <1>3, <1>4, <1>5 DEF NativeSend

\* The printer's replies are passed back as they come.
LEMMA BridgePasses ==
  ASSUME BridgeInv, NativeReceive
  PROVE  BridgeInv'
<1> DEFINE f == Reply(job.seq, "continue")
<1>1. PICK phase \in {"sent", "part"} : Serving({job.cmd}, phase)
  BY DEF NativeReceive, AwaitsPrinter, Serving
<1>2. phase \in {"begin", "data", "sent", "part"} /\ phase # "data" /\ UNCHANGED <<nreq, ctrl_in, answer, cw>>
  BY DEF NativeReceive
<1>3. /\ job.seq # 0 /\ job.seq \in Nat /\ job.sent = 0 /\ job.got = 0 /\ job.buf = 0
      /\ job.dig = 0
  BY <1>1, <1>2, ServedFacts
<1>4. {"ok", "continue", "missing"} \subseteq Results  BY DEF Results
<1>5. ASSUME NEW res \in {"ok", "missing"}, Finish(<<Reply(job.seq, res)>>)
      PROVE  BridgeInv'
  BY <1>1, <1>2, <1>4, <1>5, JobAnswered
<1>6. CASE Finish(<<>>)
  <2>1. <<>> \in Seq(Replies) /\ Run(<<>>, job.seq, 0)  BY EmptySeq DEF Run
  <2> QED  BY <1>2, <1>3, <1>6, <2>1, JobEnds DEF Finish
<1>7. CASE job' = [job EXCEPT !.pc = "part"] /\ ctrl_out' = Append(ctrl_out, f)
  <2>1. f \in Replies /\ <<f>> \in Seq(Replies) /\ Run(<<f>>, job.seq, job.sent)
    BY <1>3, <1>4, OneReply
  <2>2. f.seq = job.seq /\ f.res = "continue" /\ Ends(f) = 0
    BY <1>3 DEF Reply, Ends
  <2> HIDE DEF f
  <2>3. job \in Jobs  BY DEF BridgeInv, BridgeTypes
  <2>4. /\ job' \in Jobs /\ job'.seq = job.seq /\ job'.pc = "part" /\ job'.sent = 0
        /\ job'.got = 0 /\ job'.buf = 0 /\ job'.dig = 0
    BY <1>3, <1>7, <2>3 DEF Jobs
  <2>5. ctrl_out' = ctrl_out \o <<f>>  BY <1>7, <2>1, AppendOne DEF BridgeInv, BridgeTypes
  <2>6. Len(<<f>>) = 1 /\ <<f>>[1] = f  OBVIOUS
  <2>7. /\ RepliesJoin' /\ ctrl_out' \in Seq(Replies) /\ Len(ctrl_out') # 0
        /\ ctrl_out'[Len(ctrl_out')] = f
    <3>1. UNCHANGED <<nreq, ctrl_in, answer>>  BY <1>2
    <3>2. Len(<<f>>) # 0 /\ <<f>>[Len(<<f>>)] = f  BY <2>6
    <3> QED  BY <1>3, <2>1, <2>5, <3>1, <3>2, QueueGrows
  <2>8. Taken' = Taken  BY <1>2 DEF Taken
  <2>9. BridgeTypes'  BY <1>2, <2>4, <2>7 DEF BridgeInv, BridgeTypes
  <2>10. InOrder' /\ AnswersSound'
    BY <1>2, <1>3, <2>4, <2>8 DEF BridgeInv, InOrder, AnswersSound
  <2>11. job'.seq = Taken'  BY <1>3, <2>4, <2>8 DEF BridgeInv, JobContinues
  <2>12. JobContinues'
    BY <1>3, <2>2, <2>4, <2>7, <2>11, BridgeAssumption DEF JobContinues
  <2> QED  BY <2>7, <2>9, <2>10, <2>12 DEF BridgeInv
<1> QED  BY <1>5, <1>6, <1>7 DEF NativeReceive

\* The archive is sent whole, or the request is refused with one reply.
LEMMA BridgeZips ==
  ASSUME BridgeInv, SubFileZip
  PROVE  BridgeInv'
<1>1. Serving({"zip"}, "begin") /\ UNCHANGED <<nreq, ctrl_in, answer, cw>>  BY DEF SubFileZip
<1>2. {"cancel", "missing"} \subseteq Results  BY DEF Results
<1>3. \/ Finish(<<Reply(job.seq, "cancel")>>) \/ Finish(<<Reply(job.seq, "missing")>>)
      \/ Finish(Chunks(job.seq, FileUnits))
  BY DEF SubFileZip
<1>4. CASE Finish(Chunks(job.seq, FileUnits))
  <2>1. job.seq # 0 /\ job.seq \in Nat /\ job.sent = 0  BY <1>1, ServedFacts
  <2>2. Chunks(job.seq, FileUnits) \in Seq(Replies) /\ Run(Chunks(job.seq, FileUnits), job.seq, 0)
    BY <2>1, ChunksRun
  <2> QED  BY <1>1, <1>4, <2>1, <2>2, JobEnds DEF Finish
<1>5. CASE Finish(<<Reply(job.seq, "cancel")>>)  BY <1>1, <1>2, <1>5, JobAnswered
<1>6. CASE Finish(<<Reply(job.seq, "missing")>>)  BY <1>1, <1>2, <1>6, JobAnswered
<1> QED  BY <1>3, <1>4, <1>5, <1>6

LEMMA BridgeSizes ==
  ASSUME BridgeInv, DownloadSize
  PROVE  BridgeInv'
<1>1. Serving({"download"}, "begin") /\ UNCHANGED <<nreq, ctrl_in, ctrl_out, answer, cw>>
  BY DEF DownloadSize
<1>2. PICK n \in {0, FileUnits} : job' = [job EXCEPT !.total = n, !.pc = "data"]
  BY DEF DownloadSize
<1>3. job \in Jobs  BY DEF BridgeInv, BridgeTypes
<1>4. n \in Nat  BY BridgeAssumption
<1>5. /\ job' \in Jobs /\ job'.seq = job.seq /\ job'.pc = "data" /\ job'.sent = job.sent
      /\ job'.dig = job.dig /\ job'.got = job.got /\ job'.buf = job.buf
  BY <1>2, <1>3, <1>4 DEF Jobs
<1> QED  BY <1>1, <1>5, ServedFacts, JobGoesOn

\* One piece of data: buffered, or sent on with the rest of a full buffer.
LEMMA BridgeStreams ==
  ASSUME BridgeInv, DownloadData
  PROVE  BridgeInv'
<1>1. /\ Serving({"download"}, "data") /\ job.got < FileUnits
      /\ UNCHANGED <<nreq, ctrl_in, answer, cw>>
  BY DEF DownloadData
<1>2. "cancel" \in Results /\ "continue" \in Results  BY DEF Results
<1>3. CASE job.seq \in cancelled
  <2>1. Finish(<<Reply(job.seq, "cancel")>>)  BY <1>3 DEF DownloadData
  <2> QED  BY <1>1, <1>2, <2>1, JobAnswered
<1>4. CASE job.seq \notin cancelled
  <2> DEFINE j == [job EXCEPT !.dig = @ + 1, !.buf = @ + 1, !.got = @ + 1]
  <2>1. IF j.buf = ChunkUnits
          THEN /\ job' = [j EXCEPT !.sent = @ + j.buf, !.buf = 0]
               /\ ctrl_out' = Append(ctrl_out, Flush(j, FALSE))
          ELSE job' = j /\ UNCHANGED ctrl_out
    BY <1>4 DEF DownloadData
  <2>2. /\ job.seq # 0 /\ job.seq \in Nat /\ job.sent \in Nat /\ job.pc = "data"
        /\ job.buf \in Nat /\ job.got \in Nat /\ job.dig = job.got
        /\ job.sent + job.buf = job.got
    BY <1>1, ServedFacts
  <2>3. job \in Jobs  BY DEF BridgeInv, BridgeTypes
  <2>4. /\ j \in Jobs /\ j.seq = job.seq /\ j.pc = "data" /\ j.sent = job.sent
        /\ j.got = job.got + 1 /\ j.dig = job.got + 1 /\ j.buf = job.buf + 1
    <3>1. job.dig + 1 \in Nat /\ job.buf + 1 \in Nat /\ job.got + 1 \in Nat  BY <2>2
    <3>2. j = [job EXCEPT !.dig = job.dig + 1, !.buf = job.buf + 1, !.got = job.got + 1]
      OBVIOUS
    <3> HIDE DEF j
    <3>3. j \in Jobs  BY <2>3, <3>1, <3>2 DEF Jobs
    <3>4. /\ j.seq = job.seq /\ j.pc = job.pc /\ j.sent = job.sent
          /\ j.got = job.got + 1 /\ j.dig = job.dig + 1 /\ j.buf = job.buf + 1
      BY <2>3, <3>2 DEF Jobs
    <3> QED  BY <2>2, <3>3, <3>4
  <2> HIDE DEF j
  <2>5. j.got <= FileUnits /\ j.dig = j.got /\ j.sent + j.buf = j.got
    BY <1>1, <2>2, <2>4, BridgeAssumption
  <2>6. CASE j.buf # ChunkUnits
    <3>1. job' = j /\ UNCHANGED ctrl_out  BY <2>1, <2>6
    <3> QED  BY <1>1, <2>2, <2>4, <2>5, <3>1, JobGoesOn
  <2>7. CASE j.buf = ChunkUnits
    <3> DEFINE f == Flush(j, FALSE)
    <3>1. /\ f \in Replies /\ f.seq = job.seq /\ f.off = job.sent /\ f.size = j.buf
          /\ f.res = "continue"
      BY <2>4 DEF Flush, Replies, Jobs, Results
    <3>2. ctrl_out' = Append(ctrl_out, f)  BY <2>1, <2>7
    <3> HIDE DEF f
    <3>3. /\ job' \in Jobs /\ job'.seq = job.seq /\ job'.pc = "data" /\ job'.buf = 0
          /\ job'.sent = job.sent + j.buf /\ job'.got = j.got /\ job'.dig = j.dig
      <4>1. job' = [j EXCEPT !.sent = j.sent + j.buf, !.buf = 0]  BY <2>1, <2>7
      <4>2. j.sent + j.buf \in Nat  BY <2>4 DEF Jobs
      <4>3. job' \in Jobs  BY <2>4, <4>1, <4>2 DEF Jobs
      <4>4. /\ job'.seq = j.seq /\ job'.pc = j.pc /\ job'.buf = 0
            /\ job'.sent = j.sent + j.buf /\ job'.got = j.got /\ job'.dig = j.dig
        BY <2>4, <4>1 DEF Jobs
      <4> QED  BY <2>4, <4>3, <4>4
    <3>4. GoodReply(f) /\ From(f, job.sent)  BY <3>1 DEF GoodReply, From, Counts
    <3>5. <<f>> \in Seq(Replies) /\ Len(<<f>>) = 1 /\ <<f>>[1] = f  BY <3>1
    <3>6. Run(<<f>>, job.seq, job.sent)  BY <3>1, <3>4, <3>5 DEF Run
    <3>7. ctrl_out' = ctrl_out \o <<f>>
      BY <3>1, <3>2, AppendOne DEF BridgeInv, BridgeTypes
    <3>8. /\ RepliesJoin' /\ ctrl_out' \in Seq(Replies) /\ Len(ctrl_out') # 0
          /\ ctrl_out'[Len(ctrl_out')] = f
      <4>1. UNCHANGED <<nreq, ctrl_in, answer>>  BY <1>1
      <4>2. Len(<<f>>) # 0 /\ <<f>>[Len(<<f>>)] = f  BY <3>5
      <4> QED  BY <2>2, <3>5, <3>6, <3>7, <4>1, <4>2, QueueGrows
    <3>9. Taken' = Taken  BY <1>1 DEF Taken
    <3>10. BridgeTypes'  BY <1>1, <3>3, <3>8 DEF BridgeInv, BridgeTypes
    <3>11. InOrder' /\ AnswersSound'
      BY <1>1, <2>2, <3>3, <3>9, ServedFacts DEF BridgeInv, InOrder, AnswersSound
    <3>12. job'.sent = Ends(f) /\ job'.sent + job'.buf = job'.got /\ job'.dig = job'.got
           /\ job'.got <= FileUnits
      BY <2>2, <2>4, <2>5, <3>1, <3>3 DEF Ends
    <3>13. job'.seq = Taken'  BY <2>2, <3>3, <3>9 DEF BridgeInv, JobContinues
    <3>14. JobContinues'
      BY <2>2, <3>1, <3>3, <3>8, <3>12, <3>13 DEF JobContinues
    <3> QED  BY <3>8, <3>10, <3>11, <3>14 DEF BridgeInv
  <2> QED  BY <2>6, <2>7
<1> QED  BY <1>3, <1>4

\* RETR fails: a retry starts over while nothing has been sent or buffered.
LEMMA BridgeRetries ==
  ASSUME BridgeInv, DownloadCut
  PROVE  BridgeInv'
<1>1. Serving({"download"}, "data") /\ UNCHANGED <<nreq, ctrl_in, answer, cw>>
  BY DEF DownloadCut
<1>2. "missing" \in Results  BY DEF Results
<1>3. \/ Finish(<<Reply(job.seq, "missing")>>)
      \/ RetryAllowed(job) /\ job' = Restarted(job) /\ UNCHANGED ctrl_out
  BY DEF DownloadCut
<1>4. CASE Finish(<<Reply(job.seq, "missing")>>)  BY <1>1, <1>2, <1>4, JobAnswered
<1>5. CASE RetryAllowed(job) /\ job' = Restarted(job) /\ UNCHANGED ctrl_out
  <2>1. job \in Jobs  BY DEF BridgeInv, BridgeTypes
  <2>2. job.seq # 0 /\ job.pc = "data" /\ job.sent = 0 /\ job.buf = 0
    BY <1>1, <1>5, ServedFacts DEF RetryAllowed
  <2>3. /\ job' \in Jobs /\ job'.seq = job.seq /\ job'.pc = "data" /\ job'.sent = job.sent
        /\ job'.buf = 0 /\ job'.got = 0 /\ job'.dig = 0
    BY <1>5, <2>1, <2>2 DEF Restarted, Jobs
  <2>4. job'.sent + job'.buf = job'.got /\ job'.got <= FileUnits
    BY <2>2, <2>3, BridgeAssumption
  <2> QED  BY <1>1, <1>5, <2>2, <2>3, <2>4, JobGoesOn
<1> QED  BY <1>3, <1>4, <1>5

\* RETR complete: the last reply ends the file and carries the digest of all of it.
LEMMA BridgeDone ==
  ASSUME BridgeInv, DownloadDone
  PROVE  BridgeInv'
<1> DEFINE j == [job EXCEPT !.total = job.sent + job.buf]
           f == Flush(j, TRUE)
<1>1. /\ Serving({"download"}, "data") /\ UNCHANGED <<nreq, ctrl_in, answer, cw>>
      /\ job.got = FileUnits /\ Finish(<<f>>)
  BY DEF DownloadDone
<1>2. /\ job.seq # 0 /\ job.seq \in Nat /\ job.sent \in Nat /\ job.buf \in Nat
      /\ job.dig = FileUnits /\ job.sent + job.buf = FileUnits
  BY <1>1, ServedFacts
<1>3. job \in Jobs  BY DEF BridgeInv, BridgeTypes
<1>4. /\ j \in Jobs /\ j.seq = job.seq /\ j.sent = job.sent /\ j.buf = job.buf
      /\ j.dig = job.dig
  BY <1>2, <1>3 DEF Jobs
<1> HIDE DEF j
<1>5. /\ f \in Replies /\ f.seq = job.seq /\ f.off = job.sent /\ f.size = job.buf
      /\ f.res = "ok" /\ f.dig = job.dig
  BY <1>4 DEF Flush, Replies, Jobs, Results
<1> HIDE DEF f
<1>6. GoodReply(f) /\ From(f, job.sent)  BY <1>2, <1>5 DEF GoodReply, From, Counts, Ends
<1>7. <<f>> \in Seq(Replies) /\ Len(<<f>>) = 1 /\ <<f>>[1] = f  BY <1>5
<1>8. Run(<<f>>, job.seq, job.sent)  BY <1>5, <1>6, <1>7 DEF Run
<1> QED  BY <1>1, <1>2, <1>7, <1>8, JobEnds DEF Finish

LEMMA BridgeWorks ==
  ASSUME BridgeInv, BWorkerNext \/ FtpIdleDrop
  PROVE  BridgeInv'
<1>0. {"ok", "missing", "unavail"} \subseteq Results  BY DEF Results
<1>1. CASE TakeRequest  BY <1>1, BridgeTakes
<1>2. CASE WorkerLeaves  BY <1>2, BridgeKept DEF WorkerLeaves
<1>3. CASE FtpUnavailable
  <2>1. /\ Serving({"ability", "list", "zip", "download", "del"}, "begin")
        /\ Finish(<<Reply(job.seq, "unavail")>>) /\ UNCHANGED <<nreq, ctrl_in, answer, cw>>
    BY <1>3 DEF FtpUnavailable, Unavailable
  <2> QED  BY <1>0, <2>1, JobAnswered
<1>4. CASE FtpOneShot
  <2>1. /\ Serving({"ability", "list"}, "begin")
        /\ Finish(<<Reply(job.seq, "ok")>>) /\ UNCHANGED <<nreq, ctrl_in, answer, cw>>
    BY <1>4 DEF FtpOneShot
  <2> QED  BY <1>0, <2>1, JobAnswered
<1>5. CASE FtpDelete
  <2>1. /\ Serving({"del"}, "begin") /\ UNCHANGED <<nreq, ctrl_in, answer, cw>>
    BY <1>5 DEF FtpDelete
  <2>2. \/ Finish(<<Reply(job.seq, "ok")>>) \/ Finish(<<Reply(job.seq, "missing")>>)
    BY <1>5 DEF FtpDelete
  <2> QED  BY <1>0, <2>1, <2>2, JobAnswered
<1>6. CASE TaskCancel
  <2>1. /\ Serving({"cancel"}, "begin") /\ UNCHANGED <<nreq, ctrl_in, answer, cw>>
        /\ ctrl_out' = Append(ctrl_out, Reply(job.seq, "ok")) /\ job' = NoJob
    BY <1>6 DEF TaskCancel
  <2>2. job.seq # 0 /\ job.seq \in Nat /\ job.sent = 0  BY <2>1, ServedFacts
  <2>3. /\ Reply(job.seq, "ok") \in Replies /\ <<Reply(job.seq, "ok")>> \in Seq(Replies)
        /\ Run(<<Reply(job.seq, "ok")>>, job.seq, job.sent)
    BY <1>0, <2>2, OneReply
  <2>4. ctrl_out' = ctrl_out \o <<Reply(job.seq, "ok")>>
    BY <2>1, <2>3, AppendOne DEF BridgeInv, BridgeTypes
  <2> QED  BY <2>1, <2>2, <2>3, <2>4, JobEnds
<1>7. CASE SubFileZip  BY <1>7, BridgeZips
<1>8. CASE DownloadSize  BY <1>8, BridgeSizes
<1>9. CASE DownloadData  BY <1>9, BridgeStreams
<1>10. CASE DownloadCut  BY <1>10, BridgeRetries
<1>11. CASE DownloadDone  BY <1>11, BridgeDone
<1>12. CASE NativeSend  BY <1>12, BridgeForwards
<1>13. CASE NativeReceive  BY <1>13, BridgePasses
<1>14. CASE FtpIdleDrop  BY <1>14, BridgeKept DEF FtpIdleDrop
<1> QED  BY <1>1, <1>2, <1>3, <1>4, <1>5, <1>6, <1>7, <1>8, <1>9, <1>10, <1>11, <1>12,
            <1>13, <1>14 DEF BWorkerNext, BWorkerOwn

\* With TUTK there is no worker: the answer to a request is queued as it is sent.
LEMMA BridgeTutk ==
  ASSUME BridgeInv, TunnelInv, TutkCtrl
  PROVE  BridgeInv'
<1>1. cw = "none" /\ UNCHANGED <<ctrl_in, answer, job, cw>> /\ ctrl_out = <<>>
  BY DEF TutkCtrl, TunnelInv, CtrlInv
<1>2. CASE UNCHANGED <<nreq, ctrl_out>>  BY <1>1, <1>2, BridgeKept
<1>3. CASE nreq < Reqs /\ nreq' = nreq + 1 /\ ctrl_out' = <<Reply(nreq + 1, "ok")>>
  <2> DEFINE r == Reply(nreq + 1, "ok")
  <2>1. ctrl_in = <<>> /\ job.seq = 0 /\ nreq \in Nat /\ nreq + 1 \in 1..Reqs
    BY <1>1, <1>3, BridgeAssumption DEF BridgeInv, BridgeTypes, InOrder
  <2>2. Taken = nreq /\ Taken' = nreq + 1  BY <1>1, <1>3, <2>1 DEF Taken
  <2>3. /\ r \in Replies /\ r.seq = nreq + 1 /\ r.off = 0 /\ r.size = 0 /\ r.res = "ok"
    BY <2>1 DEF Reply, Replies, Results
  <2> HIDE DEF r
  <2>4. ctrl_out' = <<r>>  BY <1>3 DEF r
  <2>5. ctrl_out' \in Seq(Replies) /\ Len(ctrl_out') = 1 /\ ctrl_out'[1] = r  BY <2>3, <2>4
  <2>6. BridgeTypes'  BY <1>1, <1>3, <2>1, <2>5 DEF BridgeInv, BridgeTypes
  <2>7. InOrder'  BY <1>1, <1>3, <2>1, <2>2 DEF InOrder
  <2>8. GoodReply(r) /\ From(r, 0)  BY <2>3 DEF GoodReply, Counts, From, Ends
  <2>9. answer[nreq + 1].finals = 0 /\ answer[nreq + 1].bytes = 0
    <3>1. nreq + 1 > Taken  BY <2>1, <2>2
    <3> QED  BY <2>1, <3>1 DEF BridgeInv, AnswersSound
  <2>10. RepliesJoin'
    <3>1. 1..Len(ctrl_out') = {1} /\ nreq + 1 \in 1..nreq + 1  BY <2>1, <2>5
    <3> QED  BY <1>1, <2>1, <2>2, <2>3, <2>5, <2>8, <2>9, <3>1 DEF RepliesJoin
  <2>11. AnswersSound'
    <3>1. \A i \in 1..Reqs : i > Taken' => i > Taken  BY <2>1, <2>2
    <3> QED  BY <1>1, <3>1 DEF BridgeInv, AnswersSound
  <2>12. JobContinues'  BY <1>1, <2>1 DEF BridgeInv, JobContinues
  <2> QED  BY <2>6, <2>7, <2>10, <2>11, <2>12 DEF BridgeInv
<1> QED  BY <1>2, <1>3 DEF TutkCtrl

LEMMA BridgeStep == BridgeInv /\ TunnelInv /\ [Next]_vars => BridgeInv'
<1> SUFFICES ASSUME BridgeInv, TunnelInv, [Next]_vars PROVE BridgeInv'
  OBVIOUS
<1>1. CASE HostCtrl  BY <1>1, BridgeSends, BridgeReads DEF HostCtrl
<1>2. CASE TutkCtrl  BY <1>2, BridgeTutk
<1>3. CASE Worker  BY <1>3, BridgeWorks DEF Worker
<1>4. CASE CtrlHandshake
  <2>1. UNCHANGED <<ctrl_in, nreq, ctrl_out, answer, job>> /\ (cw' = "none" => cw = "none")
    BY <1>4 DEF CtrlHandshake
  <2> QED  BY <2>1, BridgeKept
<1>5. CASE CloseBegins  BY <1>5, BridgeKept DEF CloseBegins
<1>6. CASE CloseJoinsWorker  BY <1>6, BridgeKept DEF CloseJoinsWorker
<1>7. CASE UNCHANGED bvars
  <2>1. UNCHANGED <<ctrl_in, nreq, ctrl_out, answer, job, cw>>  BY <1>7 DEF bvars
  <2> QED  BY <2>1, BridgeKept
<1>8. ASSUME Next, ~HostCtrl, ~TutkCtrl, ~Worker, ~CtrlHandshake, ~CloseBegins,
             ~CloseJoinsWorker
      PROVE  UNCHANGED bvars
  BY <1>8 DEF Next, CloseNext, OpenDeferred, OpenLocal, OpenRtsp, RtspHandshake, RtspUp,
     RtspFailed, StartRedirect, StartOff, StartTutk, StartRtsp, StartMjpeg, StartCtrlTutk,
     CtrlDial, ReadRtsp, RtspRuns, ReadTutk, ReaderEnters, ReaderLocks, ReaderReturns,
     CloseWakesReader, CloseFreesSsl, CloseStopsRtsp, Closed, Over, vars
<1>9. UNCHANGED vars => UNCHANGED bvars  BY DEF vars
<1> QED  BY <1>1, <1>2, <1>3, <1>4, <1>5, <1>6, <1>7, <1>8, <1>9

(* A file the host is told it has is the whole file: every unit once and in order, nothing
   after the final reply, with the digest of exactly these units, for every file and chunk
   size and whatever RETR was repeated on a new connection (BambuSource.cpp
   ftps_handle_file_download, ftps_handle_sub_file). *)
THEOREM FilesAreWhole == Spec => []OkMeansWholeFile
<1>1. BridgeInv => OkMeansWholeFile
  BY DEF BridgeInv, AnswersSound, OkMeansWholeFile
<1>2. Init => BridgeInv  BY BridgeInit DEF Init
<1> QED  BY TunnelInit, TunnelStep, BridgeStep, <1>1, <1>2, PTL DEF Spec

-------------------------------------------------------------------------------
(* Receiver reports.  The statistics are a function of the arrivals by recursion over their
   number; that it exists for every number is shown for the least one for which it would
   not. *)
IsStats(f, a, n) ==
    f = [i \in 0..n |-> IF i = 0 THEN NoStats ELSE UpdateRtpStats(f[i - 1], a[i] % SeqMod)]

LEMMA StatsExist ==
    ASSUME NEW a, NEW n \in Nat
    PROVE  \E f : IsStats(f, a, n)
<1> DEFINE S == {k \in Nat : ~ \E f : IsStats(f, a, k)}
<1> SUFFICES ASSUME S # {} PROVE FALSE
  OBVIOUS
<1>1. S \in SUBSET Nat
  OBVIOUS
<1>2. PICK k \in S : \A m \in S : k <= m
  BY <1>1, LeastIn
<1>3. k \in Nat /\ ~ \E f : IsStats(f, a, k)
  OBVIOUS
<1>4. CASE k = 0
  <2> DEFINE f == [i \in 0..0 |-> NoStats]
  <2>1. IsStats(f, a, 0)
    BY DEF IsStats
  <2> QED
    BY <1>3, <1>4, <2>1
<1>5. CASE k # 0
  <2>1. k - 1 \in Nat /\ k - 1 \notin S
    BY <1>2, <1>3, <1>5
  <2>2. PICK f : IsStats(f, a, k - 1)
    BY <2>1
  <2> DEFINE U(s, i) == UpdateRtpStats(s, a[i] % SeqMod)
             g == [i \in 0..k |-> IF i < k THEN f[i] ELSE U(f[k - 1], k)]
  <2>3. \A i \in 0..k - 1 : f[i] = IF i = 0 THEN NoStats ELSE U(f[i - 1], i)
    BY <2>2 DEF IsStats
  <2> HIDE DEF U
  <2>4. ASSUME NEW i \in 0..k PROVE g[i] = IF i = 0 THEN NoStats ELSE U(g[i - 1], i)
    <3>1. CASE i = 0
      BY <1>3, <1>5, <2>3, <3>1
    <3>2. CASE i # 0
      <4>1. i - 1 \in 0..k - 1 /\ i - 1 \in 0..k /\ i - 1 < k /\ (i < k => i \in 0..k - 1)
        BY <1>3, <3>2
      <4>2. g[i - 1] = f[i - 1]
        BY <4>1
      <4>3. i < k => g[i] = f[i]
        OBVIOUS
      <4>4. ~(i < k) => i = k /\ g[i] = U(f[k - 1], k)
        BY <1>3
      <4> QED
        BY <2>3, <3>2, <4>1, <4>2, <4>3, <4>4
    <3> QED
      BY <3>1, <3>2
  <2>5. IsStats(g, a, k)
    BY <2>4 DEF IsStats, U
  <2> QED
    BY <1>3, <2>5
<1> QED
  BY <1>4, <1>5

LEMMA StatsAre ==
    ASSUME NEW a, NEW n \in Nat, Len(a) = n
    PROVE  \E f : IsStats(f, a, n) /\ StatsAfter(a) = f[n]
<1> DEFINE f == CHOOSE g : IsStats(g, a, n)
<1>1. IsStats(f, a, n)
  BY StatsExist
<1>2. StatsAfter(a) = f[n]
  BY DEF StatsAfter, IsStats
<1> QED
  BY <1>1, <1>2


LEMMA ModIs ==
    ASSUME NEW w \in Nat \ {0}, NEW x \in 0..w - 1
    PROVE  x % w = x /\ (x + w) % w = x
OBVIOUS

\* Numbers less than w apart, by their remainders.
LEMMA Near ==
    ASSUME NEW w \in Nat \ {0}, NEW p \in Nat, NEW q \in Nat, NEW s \in 0..w - 1, NEW r \in 0..w - 1,
           p * w + s <= q * w + r, q * w + r < p * w + s + w
    PROVE  (q = p /\ s <= r) \/ (q = p + 1 /\ r < s)
<1>1. p * w \in Nat /\ q * w \in Nat
  OBVIOUS
<1>2. ~(q < p)
  <2> SUFFICES ASSUME q + 1 <= p PROVE FALSE
    OBVIOUS
  <2>1. (q + 1) * w <= p * w
    OBVIOUS
  <2>2. (q + 1) * w = q * w + w
    OBVIOUS
  <2> QED
    BY <1>1, <2>1, <2>2
<1>3. ~(q > p + 1)
  <2> SUFFICES ASSUME p + 2 <= q PROVE FALSE
    OBVIOUS
  <2>1. (p + 2) * w <= q * w
    OBVIOUS
  <2>2. (p + 2) * w = p * w + w + w
    OBVIOUS
  <2> QED
    BY <1>1, <2>1, <2>2
<1>4. q = p \/ q = p + 1
  BY <1>2, <1>3
<1>5. CASE q = p
  BY <1>1, <1>5
<1>6. CASE q = p + 1
  <2>1. q * w = p * w + w
    BY <1>6
  <2> QED
    BY <1>1, <1>6, <2>1
<1> QED
  BY <1>4, <1>5, <1>6

LEMMA HalfOf ==
    ASSUME NEW w \in Nat \ {0}
    PROVE  w \div 2 \in Nat /\ w \div 2 + w \div 2 <= w
OBVIOUS

\* A number within half the number space of the highest one is told to be later or not by
\* the wrapped difference, and its cycle by the order of the remainders.
LEMMA WrapDistance ==
    ASSUME NEW w \in Nat \ {0}, NEW h \in Nat, NEW b \in Nat,
           h - w \div 2 <= b, b < h + w \div 2
    PROVE  /\ ((b % w) + w - (h % w)) % w < w \div 2 <=> h <= b
           /\ h <= b => (h - (h % w)) + (IF b % w < h % w THEN w ELSE 0) + (b % w) = b
<1>1. /\ h \div w \in Nat /\ h % w \in 0..w - 1 /\ h = (h \div w) * w + (h % w)
      /\ b \div w \in Nat /\ b % w \in 0..w - 1 /\ b = (b \div w) * w + (b % w)
  BY DivMod
<1>2. PICK p \in Nat : p = h \div w
  BY <1>1
<1>3. PICK s \in 0..w - 1 : s = h % w
  BY <1>1
<1>4. PICK q \in Nat : q = b \div w
  BY <1>1
<1>5. PICK r \in 0..w - 1 : r = b % w
  BY <1>1
<1>6. PICK v \in Nat : v = w \div 2
  BY HalfOf
<1>7. v + v <= w
  BY <1>6, HalfOf
<1>8. PICK x \in Nat : x = p * w
  OBVIOUS
<1>9. PICK y \in Nat : y = q * w
  OBVIOUS
<1>10. h = x + s /\ b = y + r /\ h - v <= b /\ b < h + v
  BY <1>1, <1>2, <1>3, <1>4, <1>5, <1>6, <1>8, <1>9
<1> SUFFICES /\ (r + w - s) % w < v <=> h <= b
             /\ h <= b => (h - s) + (IF r < s THEN w ELSE 0) + r = b
  BY <1>3, <1>5, <1>6
<1>11. CASE h <= b
  <2>1. (q = p /\ s <= r) \/ (q = p + 1 /\ r < s)
    <3>1. p * w + s <= q * w + r /\ q * w + r < p * w + s + w
      BY <1>7, <1>8, <1>9, <1>10, <1>11
    <3> QED
      BY <3>1, Near
  <2>2. CASE q = p /\ s <= r
    <3>1. y = x /\ r - s \in 0..w - 1 /\ r + w - s = (r - s) + w
      BY <1>8, <1>9, <2>2
    <3>2. (r + w - s) % w = r - s
      BY <3>1, ModIs
    <3> QED
      BY <1>10, <1>11, <2>2, <3>1, <3>2
  <2>3. CASE q = p + 1 /\ r < s
    <3>1. y = x + w
      BY <1>8, <1>9, <2>3
    <3>2. r + w - s \in 0..w - 1
      BY <2>3
    <3>3. (r + w - s) % w = r + w - s
      BY <3>2, ModIs
    <3> QED
      BY <1>10, <1>11, <2>3, <3>1, <3>3
  <2> QED
    BY <2>1, <2>2, <2>3
<1>12. CASE ~(h <= b)
  <2>1. (p = q /\ r <= s) \/ (p = q + 1 /\ s < r)
    <3>1. q * w + r <= p * w + s /\ p * w + s < q * w + r + w
      BY <1>7, <1>8, <1>9, <1>10, <1>12
    <3> QED
      BY <3>1, Near
  <2>2. CASE p = q /\ r <= s
    <3>1. x = y /\ r < s
      BY <1>8, <1>9, <1>10, <1>12, <2>2
    <3>2. r + w - s \in 0..w - 1
      BY <3>1
    <3>3. (r + w - s) % w = r + w - s
      BY <3>2, ModIs
    <3> QED
      BY <1>7, <1>10, <1>12, <3>1, <3>3
  <2>3. CASE p = q + 1 /\ s < r
    <3>1. x = y + w
      BY <1>8, <1>9, <2>3
    <3>2. r - s \in 0..w - 1 /\ r + w - s = (r - s) + w
      BY <2>3
    <3>3. (r + w - s) % w = r - s
      BY <3>2, ModIs
    <3> QED
      BY <1>7, <1>10, <1>12, <2>3, <3>1, <3>3
  <2> QED
    BY <2>1, <2>2, <2>3
<1> QED
  BY <1>11, <1>12

IsHighest(a, i, x) == (\E j \in 1..i : a[j] = x) /\ \A j \in 1..i : a[j] <= x

LEMMA HighestIs ==
    ASSUME NEW a, NEW i, NEW x, \A j \in 1..i : a[j] \in Nat, IsHighest(a, i, x)
    PROVE  Highest(a, i) = x
<1> DEFINE S == {a[j] : j \in 1..i}
<1>1. x \in S /\ \A j \in 1..i : a[j] <= x
  BY DEF IsHighest
<1>2. \A y \in S : (\A j \in 1..i : a[j] <= y) => y = x
  <2> SUFFICES ASSUME NEW y \in S, \A j \in 1..i : a[j] <= y PROVE y = x
    OBVIOUS
  <2>1. x \in Nat /\ y \in Nat /\ x <= y /\ y <= x
    BY <1>1
  <2> QED
    BY <2>1
<1> QED
  BY <1>1, <1>2 DEF Highest

\* The arrivals of a stream: their true numbers start below the first wrap, and each is within
\* half the number space of the highest so far.
Arriving(a, n) ==
    /\ \A i \in 1..n : a[i] \in Nat
    /\ a[1] \in 0..SeqMod - 1
    /\ \A i \in 2..n : LET h == Highest(a, i - 1) IN
         h - SeqMod \div 2 <= a[i] /\ a[i] < h + SeqMod \div 2

Statistics == [init : BOOLEAN, base : Nat, max : Nat, cycles : Nat, received : Nat]

StatsSound(st, a, i) ==
    /\ st \in Statistics /\ st.init = TRUE /\ st.base = a[1] /\ st.received = i
    /\ IsHighest(a, i, st.cycles + st.max) /\ st.max = (st.cycles + st.max) % SeqMod

LEMMA StatsStep ==
    ASSUME NEW a, NEW n \in Nat, Arriving(a, n), NEW i \in 1..n - 1, NEW st, StatsSound(st, a, i)
    PROVE  StatsSound(UpdateRtpStats(st, a[i + 1] % SeqMod), a, i + 1)
<1>1. /\ i + 1 \in 2..n /\ i + 1 \in 1..n /\ i \in Nat /\ (i + 1) - 1 = i
      /\ \A j \in 1..i : j \in 1..n /\ j \in 1..i + 1
  OBVIOUS
<1>2. SeqMod \in Nat \ {0}
  BY RtspAssumption
<1>3. /\ a[i + 1] \in Nat /\ st.cycles \in Nat /\ st.max \in Nat
      /\ st.cycles + st.max \in Nat /\ \A j \in 1..i : a[j] \in Nat
  BY <1>1 DEF Arriving, StatsSound, Statistics
<1>4. PICK h \in Nat : h = st.cycles + st.max
  BY <1>3
<1>5. PICK b \in Nat : b = a[i + 1]
  BY <1>3
<1>6. PICK r \in 0..SeqMod - 1 : r = b % SeqMod
  <2>1. b % SeqMod \in 0..SeqMod - 1
    BY <1>2, DivMod
  <2> QED
    BY <2>1
<1>7. IsHighest(a, i, h) /\ Highest(a, i) = h
  BY <1>3, <1>4, HighestIs DEF StatsSound
<1>8. h - SeqMod \div 2 <= b /\ b < h + SeqMod \div 2
  BY <1>1, <1>5, <1>7 DEF Arriving
<1>9. st.max = h % SeqMod
  BY <1>4 DEF StatsSound
<1>10. /\ (r + SeqMod - st.max) % SeqMod < SeqMod \div 2 <=> h <= b
       /\ h <= b => (h - st.max) + (IF r < st.max THEN SeqMod ELSE 0) + r = b
  <2>1. /\ ((b % SeqMod) + SeqMod - (h % SeqMod)) % SeqMod < SeqMod \div 2 <=> h <= b
        /\ h <= b => (h - (h % SeqMod)) + (IF b % SeqMod < h % SeqMod THEN SeqMod ELSE 0)
                       + (b % SeqMod) = b
    BY <1>2, <1>8, WrapDistance
  <2> QED
    BY <1>6, <1>9, <2>1
<1>11. h <= b => Cycles(st, r) + r = b /\ Cycles(st, r) \in Nat
  BY <1>2, <1>3, <1>4, <1>10 DEF Cycles
<1> DEFINE new == UpdateRtpStats(st, r)
<1>12. /\ st.init /\ st \in Statistics
       /\ new = [st EXCEPT !.received = @ + 1,
                           !.cycles = IF h <= b THEN Cycles(st, r) ELSE @,
                           !.max = IF h <= b THEN r ELSE @]
  BY <1>10 DEF UpdateRtpStats, StatsSound
<1> HIDE DEF new
<1>13. /\ new \in Statistics /\ new.init = TRUE /\ new.base = a[1] /\ new.received = i + 1
       /\ new.cycles = IF h <= b THEN Cycles(st, r) ELSE st.cycles
       /\ new.max = IF h <= b THEN r ELSE st.max
  <2>1. new.init = st.init /\ new.base = st.base /\ new.received = st.received + 1
    BY <1>12 DEF Statistics
  <2>2. /\ new.cycles = IF h <= b THEN Cycles(st, r) ELSE st.cycles
        /\ new.max = IF h <= b THEN r ELSE st.max
    BY <1>12 DEF Statistics
  <2>3. /\ (IF h <= b THEN Cycles(st, r) ELSE st.cycles) \in Nat
        /\ (IF h <= b THEN r ELSE st.max) \in Nat
        /\ r \in Nat
    BY <1>2, <1>3, <1>11
  <2>4. PICK c \in Nat : c = IF h <= b THEN Cycles(st, r) ELSE st.cycles
    BY <2>3
  <2>5. PICK m \in Nat : m = IF h <= b THEN r ELSE st.max
    BY <2>3
  <2>6. new = [st EXCEPT !.received = @ + 1, !.cycles = c, !.max = m]
    BY <1>12, <2>4, <2>5
  <2>7. new \in Statistics
    <3>1. st.received + 1 \in Nat
      BY <1>12 DEF Statistics
    <3>2. PICK k \in Nat : k = st.received + 1
      BY <3>1
    <3>3. new = [st EXCEPT !.received = k, !.cycles = c, !.max = m]
      BY <2>6, <3>2
    <3> QED
      BY <1>12, <3>3 DEF Statistics
  <2> QED
    BY <2>1, <2>2, <2>7 DEF StatsSound
<1>14. CASE h <= b
  <2>1. new.cycles + new.max = b /\ new.max = b % SeqMod
    BY <1>6, <1>11, <1>13, <1>14
  <2>2. IsHighest(a, i + 1, b)
    <3>1. a[i + 1] = b /\ i + 1 \in 1..i + 1
      BY <1>1, <1>5
    <3>2. ASSUME NEW j \in 1..i + 1 PROVE a[j] <= b
      <4>1. j = i + 1 \/ j \in 1..i
        BY <1>1
      <4>2. j \in 1..i => a[j] <= h /\ a[j] \in Nat
        BY <1>3, <1>7 DEF IsHighest
      <4> QED
        BY <1>5, <1>14, <4>1, <4>2
    <3> QED
      BY <3>1, <3>2 DEF IsHighest
  <2> QED
    BY <1>5, <1>6, <1>13, <2>1, <2>2 DEF StatsSound, new
<1>15. CASE ~(h <= b)
  <2>1. new.cycles + new.max = h /\ new.max = h % SeqMod
    BY <1>4, <1>9, <1>13, <1>15
  <2>2. IsHighest(a, i + 1, h)
    <3>1. \E j \in 1..i + 1 : a[j] = h
      BY <1>1, <1>7 DEF IsHighest
    <3>2. ASSUME NEW j \in 1..i + 1 PROVE a[j] <= h
      <4>1. j = i + 1 \/ j \in 1..i
        BY <1>1
      <4> QED
        BY <1>5, <1>7, <1>15, <4>1 DEF IsHighest
    <3> QED
      BY <3>1, <3>2 DEF IsHighest
  <2> QED
    BY <1>5, <1>6, <1>13, <2>1, <2>2 DEF StatsSound, new
<1> QED
  BY <1>14, <1>15

LEMMA StatsTrue ==
    ASSUME NEW a, NEW n \in Nat, Arriving(a, n), NEW f, IsStats(f, a, n), NEW i \in 1..n
    PROVE  StatsSound(f[i], a, i)
<1> DEFINE S == {k \in 1..n : ~StatsSound(f[k], a, k)}
<1> SUFFICES ASSUME S # {} PROVE FALSE
  OBVIOUS
<1>1. S \in SUBSET Nat
  OBVIOUS
<1>2. PICK k \in S : \A m \in S : k <= m
  BY <1>1, LeastIn
<1>3. k \in 1..n /\ ~StatsSound(f[k], a, k) /\ \A j \in 0..n : j \in Nat
  OBVIOUS
<1>4. \A j \in 0..n : f[j] = IF j = 0 THEN NoStats ELSE UpdateRtpStats(f[j - 1], a[j] % SeqMod)
  BY DEF IsStats
<1>5. CASE k = 1
  <2>1. f[0] = NoStats /\ f[1] = UpdateRtpStats(f[0], a[1] % SeqMod)
    BY <1>3, <1>4, <1>5
  <2>2. a[1] \in 0..SeqMod - 1 /\ SeqMod \in Nat \ {0}
    BY RtspAssumption DEF Arriving
  <2>3. a[1] % SeqMod = a[1] /\ a[1] \in Nat
    BY <2>2, ModIs
  <2>4. f[1] = [init |-> TRUE, base |-> a[1], max |-> a[1], cycles |-> 0, received |-> 1]
    <3>1. ~NoStats.init
      BY DEF NoStats
    <3>2. \A q : UpdateRtpStats(NoStats, q)
                  = [init |-> TRUE, base |-> q, max |-> q, cycles |-> 0, received |-> 1]
      BY <3>1 DEF UpdateRtpStats
    <3> QED
      BY <2>1, <2>3, <3>2
  <2>5. /\ f[1] \in Statistics /\ f[1].init = TRUE /\ f[1].base = a[1] /\ f[1].received = 1
        /\ f[1].cycles + f[1].max = a[1] /\ f[1].max = a[1]
    BY <2>3, <2>4 DEF Statistics
  <2>6. IsHighest(a, 1, a[1])
    BY <2>3 DEF IsHighest
  <2> QED
    BY <1>3, <1>5, <2>3, <2>5, <2>6 DEF StatsSound
<1>6. CASE k # 1
  <2>1. k - 1 \in 1..n /\ k - 1 \in 1..n - 1 /\ k - 1 \notin S /\ (k - 1) + 1 = k /\ k \in 0..n /\ k # 0
    BY <1>2, <1>3, <1>6
  <2>2. StatsSound(f[k - 1], a, k - 1)
    BY <2>1
  <2>3. StatsSound(UpdateRtpStats(f[k - 1], a[(k - 1) + 1] % SeqMod), a, (k - 1) + 1)
    BY <2>1, <2>2, StatsStep
  <2> QED
    BY <1>3, <1>4, <2>1, <2>3
<1> QED
  BY <1>5, <1>6

\* Whatever is lost, repeated or overtaken, and however often the numbers wrap, a receiver
\* report names the highest number and what is missing up to it (rtsp_client.cpp
\* update_rtp_stats, build_receiver_report).
THEOREM ReportsAreExact ==
    ASSUME NEW a, NEW n \in Nat \ {0}, Len(a) = n, Arriving(a, n)
    PROVE  LET r == ReceiverReport(StatsAfter(a))
               h == Highest(a, n)
               missing == h - a[1] + 1
           IN  /\ IsHighest(a, n, h)
               /\ r.highest = h /\ r.lost = IF missing > n THEN missing - n ELSE 0
<1>1. PICK f : IsStats(f, a, n) /\ StatsAfter(a) = f[n]
  BY StatsAre
<1>2. StatsSound(f[n], a, n)
  BY <1>1, StatsTrue
<1>3. PICK st : st = StatsAfter(a)
  OBVIOUS
<1>4. /\ st \in Statistics /\ st.base = a[1] /\ st.received = n
      /\ IsHighest(a, n, st.cycles + st.max)
  BY <1>1, <1>2, <1>3 DEF StatsSound
<1>5. Highest(a, n) = st.cycles + st.max
  BY <1>4, HighestIs DEF Arriving
<1>6. PICK h \in Nat : h = st.cycles + st.max
  BY <1>4 DEF Statistics
<1>7. PICK e \in Int : e = h - a[1] + 1
  BY <1>4 DEF Statistics
<1>8. PICK e2 : e2 = st.cycles + st.max - st.base + 1
  OBVIOUS
<1>9. e2 = e /\ st.received = n
  <2>1. PICK c \in Nat, m \in Nat, b \in Nat : c = st.cycles /\ m = st.max /\ b = st.base
    BY <1>4 DEF Statistics
  <2>2. h = c + m /\ b = a[1] /\ e2 = c + m - b + 1
    BY <1>4, <1>6, <1>8, <2>1
  <2>3. e2 = h - b + 1 /\ e = h - b + 1
    BY <1>7, <2>2
  <2> QED
    BY <1>4, <2>3
<1>10. ReceiverReport(st) = [highest |-> st.cycles + st.max,
                             lost |-> IF e2 > st.received THEN e2 - st.received ELSE 0]
  BY <1>8 DEF ReceiverReport
<1>11. ReceiverReport(st) = [highest |-> h, lost |-> IF e > n THEN e - n ELSE 0]
  BY <1>6, <1>9, <1>10
<1>12. /\ ReceiverReport(st).highest = h
       /\ ReceiverReport(st).lost = IF e > n THEN e - n ELSE 0
  BY <1>11
<1> QED
  BY <1>3, <1>4, <1>5, <1>6, <1>7, <1>12

LEMMA FiveArrivals == ReportsExact
<1> SUFFICES ASSUME NEW a \in Arrivals
             PROVE  LET r == ReceiverReport(StatsAfter(a))
                        h == Highest(a, 5)
                        missing == h - a[1] + 1
                    IN  r.highest = h /\ r.lost = IF missing > 5 THEN missing - 5 ELSE 0
  BY DEF ReportsExact
<1>1. SeqMod \in Nat \ {0}
  BY RtspAssumption
<1>2. /\ a \in [1..5 -> SeqMod - 1..2 * SeqMod + 1] /\ a[1] = SeqMod - 1
      /\ \A i \in 2..5 : LET h == Highest(a, i - 1) IN
           h - SeqMod \div 2 <= a[i] /\ a[i] < h + SeqMod \div 2
  BY DEF Arrivals
<1>3. SeqMod - 1..2 * SeqMod + 1 \subseteq Nat
  BY <1>1
<1>4. a \in [1..5 -> Nat]
  BY <1>2, <1>3
<1>5. Len(a) = 5
  <2>1. 5 \in Nat /\ DOMAIN a = 1..5
    BY <1>4
  <2>2. a \in UNION {[1..n -> Nat] : n \in Nat}
    <3>1. [1..5 -> Nat] \in {[1..n -> Nat] : n \in Nat}
      BY <2>1
    <3> QED
      BY <1>4, <3>1
  <2>3. a \in Seq(Nat)
    BY <2>2, SeqDef
  <2>4. DOMAIN a = 1..Len(a) /\ Len(a) \in Nat
    BY <2>3, LenProperties
  <2>5. 1..5 = 1..Len(a)
    BY <2>1, <2>4
  <2> QED
    BY <2>4, <2>5
<1>6. Arriving(a, 5)
  BY <1>1, <1>2, <1>4 DEF Arriving
<1>7. 5 \in Nat \ {0}
  OBVIOUS
<1> QED
  BY <1>5, <1>6, <1>7, ReportsAreExact

-------------------------------------------------------------------------------
(* The pictures of the RTSP stream.  Client and worker see the printer's packets through two
   queues.  `asm' is the last packet the worker has put into a picture; the NAL units waiting
   in naluq are those of the packets after it, `loc' gives the packet of each.  Nothing of the
   stream is lost between the two, so the picture being built counts all its NAL units so far,
   and one that is cut or ended by the marker bit is whole. *)
NaluSet == [ts : Nat, last : BOOLEAN, ps : BOOLEAN]
SampleSet == [rc : {"ok", "end", "error"}, ts : Nat, nals : Nat]

IsNal(p) == Video[p].kind \in {"nal", "fuE"}
NalsIn(ts, n) == {p \in 1..n : Video[p].ts = ts /\ IsNal(p)}

\* The last packet received starts a fragmented NAL unit: it is being put together.
FragmentHeld ==
    pos # 0 /\ Video[pos].kind = "fuS" => fu = Video[pos].ts

\* naluq holds the NAL units of the packets after `asm', in order.
Waiting(q, from, upto, loc) ==
    /\ q \in Seq(NaluSet) /\ loc \in [1..Len(q) -> 1..upto]
    /\ \A i, j \in 1..Len(q) : i < j => loc[i] < loc[j]
    /\ \A p \in from + 1..upto : Video[p].kind # "fuS" => \E k \in 1..Len(q) : loc[k] = p
    /\ \A k \in 1..Len(q) : /\ from < loc[k]
                            /\ q[k].ts = Video[loc[k]].ts
                            /\ q[k].ps <=> Video[loc[k]].kind = "sps"
                            /\ Video[loc[k]].kind # "fuS"
                            /\ q[k].last => EndsPicture(loc[k])

\* x is later than every picture queued in q and than the picture pulled last.
LaterThan(q, last, x) == last < x /\ \A i \in 1..Len(q) : q[i].ts < x

\* The pictures in the queue are whole, and each is later than those before it.
QueueSound(q, last) ==
    /\ q \in Seq(SampleSet) /\ last \in Nat
    /\ \A i \in 1..Len(q) : q[i].rc = "ok" => q[i].nals = Nals(q[i].ts) /\ last < q[i].ts
    /\ \A i, j \in 1..Len(q) : i < j /\ q[j].rc = "ok" => q[i].ts < q[j].ts

\* Of the packets up to `asm' all NAL units are in the picture being built, a, or in one
\* handed on before.
Assembled(asm, a, q, last) ==
    /\ QueueSound(q, last) /\ a \in [ts : Nat, nals : Nat] /\ asm \in 0..Len(Video)
    /\ \A r \in asm + 1..Len(Video) : IsNal(r) => LaterThan(q, last, Video[r].ts)
    /\ a.ts # 0 => /\ LaterThan(q, last, a.ts)
                   /\ a.nals = Cardinality(NalsIn(a.ts, asm))
                   /\ \E p \in 1..asm : Video[p].ts = a.ts
                   /\ \A p \in 1..asm : IsNal(p) => Video[p].ts <= a.ts
    /\ a.ts = 0 => /\ a.nals = 0
                   /\ \A p \in 1..asm : \A r \in asm + 1..Len(Video) :
                        IsNal(p) /\ IsNal(r) => Video[p].ts < Video[r].ts

\* Until the handshake fails or the worker has ended.
PictureInv ==
    /\ pos \in 0..Len(Video) /\ QueueSound(ready, pulled.ts)
    /\ pulled \in [rc : {"none", "ok", "end", "error", "wait"}, ts : Nat]
    /\ cpc # "failed" /\ wpc # "done" =>
         /\ FragmentHeld
         /\ \E asm \in 0..pos : \E loc \in [1..Len(naluq) -> 1..pos] :
              Waiting(naluq, asm, pos, loc) /\ Assembled(asm, au, ready, pulled.ts)

LEMMA VideoPackets ==
    /\ Len(Video) \in Nat
    /\ \A p \in 1..Len(Video) : /\ p \in Nat /\ Video[p].ts \in Nat /\ Video[p].ts # 0
                                /\ Video[p].kind \in {"sps", "nal", "fuS", "fuE"}
    /\ \A p, q \in 1..Len(Video) : p <= q => Video[p].ts <= Video[q].ts
<1> DEFINE P == [ts : Nat \ {0}, kind : {"sps", "nal", "fuS", "fuE"}]
<1>1. Video \in Seq(P)
  BY RtspAssumption
<1>2. Len(Video) \in Nat
  BY <1>1, LenProperties
<1>3. \A p \in 1..Len(Video) : Video[p] \in P
  BY <1>1, ElementOfSeq
<1> QED
  BY <1>2, <1>3, RtspAssumption

LEMMA NalsFinite ==
    ASSUME NEW ts, NEW n \in Nat
    PROVE  IsFiniteSet(NalsIn(ts, n)) /\ Cardinality(NalsIn(ts, n)) \in Nat
<1>1. NalsIn(ts, n) \in SUBSET (1..n) /\ IsFiniteSet(1..n)
  BY FS_Interval DEF NalsIn
<1> QED
  BY <1>1, FS_Subset, FS_CardinalityType

\* The next NAL unit is one more of its picture.
LEMMA NalsNext ==
    ASSUME NEW ts, NEW n \in Nat, NEW p \in Nat, n < p,
           \A r \in n + 1..p - 1 : ~IsNal(r)
    PROVE  Cardinality(NalsIn(ts, p)) = Cardinality(NalsIn(ts, n))
                                        + (IF IsNal(p) /\ Video[p].ts = ts THEN 1 ELSE 0)
<1>1. \A r \in 1..p : r \in 1..n \/ r \in n + 1..p - 1 \/ r = p
  OBVIOUS
<1>2. 1..n \subseteq 1..p /\ p \in 1..p /\ p \notin 1..n
  OBVIOUS
<1>3. CASE IsNal(p) /\ Video[p].ts = ts
  <2>1. NalsIn(ts, p) = NalsIn(ts, n) \cup {p} /\ p \notin NalsIn(ts, n)
    BY <1>1, <1>2, <1>3 DEF NalsIn
  <2> QED
    BY <1>3, <2>1, NalsFinite, FS_AddElement
<1>4. CASE ~(IsNal(p) /\ Video[p].ts = ts)
  <2>1. NalsIn(ts, p) = NalsIn(ts, n)
    BY <1>1, <1>2, <1>4 DEF NalsIn
  <2> QED
    BY <1>4, <2>1, NalsFinite
<1> QED
  BY <1>3, <1>4

\* No later NAL unit belongs to the picture: it is whole.
LEMMA NalsAll ==
    ASSUME NEW ts, NEW n \in 0..Len(Video),
           \A r \in n + 1..Len(Video) : IsNal(r) => Video[r].ts # ts
    PROVE  Nals(ts) = Cardinality(NalsIn(ts, n))
<1>1. \A r \in 1..Len(Video) : r \in 1..n \/ r \in n + 1..Len(Video)
  BY VideoPackets
<1>2. 1..n \subseteq 1..Len(Video)
  BY VideoPackets
<1>3. {p \in 1..Len(Video) : Video[p].ts = ts /\ Video[p].kind \in {"nal", "fuE"}} = NalsIn(ts, n)
  BY <1>1, <1>2 DEF NalsIn, IsNal
<1> QED
  BY <1>3 DEF Nals

LEMMA Pushed ==
    ASSUME NEW q \in Seq(SampleSet), NEW a \in [ts : Nat, nals : Nat]
    PROVE  LET r == PushSample(q, a)
           IN  /\ r \in Seq(SampleSet)
               /\ \E d \in {0, 1} : /\ Len(r) = Len(q) - d + 1
                                    /\ \A i \in 1..Len(r) - 1 : r[i] = q[i + d] /\ i + d \in 1..Len(q)
               /\ Len(r) \in Nat \ {0} /\ r[Len(r)] = Sample(a)
<1>1. Sample(a) \in SampleSet
  BY DEF Sample, SampleSet
<1>2. Len(q) \in Nat /\ ReadyCap \in Nat \ {0}
  BY LenProperties, RtspAssumption
<1>3. CASE Len(q) >= ReadyCap
  <2>1. q # <<>>
    BY <1>2, <1>3, EmptySeq
  <2>2. /\ Tail(q) \in Seq(SampleSet) /\ Len(Tail(q)) = Len(q) - 1
        /\ \A i \in 1..Len(Tail(q)) : Tail(q)[i] = q[i + 1]
    BY <2>1, HeadTailProperties
  <2>3. PICK r : r = Append(Tail(q), Sample(a))
    OBVIOUS
  <2>4. r \in Seq(SampleSet) /\ Len(r) = Len(q) /\ r[Len(q)] = Sample(a)
        /\ \A i \in 1..Len(q) - 1 : r[i] = Tail(q)[i]
    BY <1>1, <1>2, <2>2, <2>3, AppendProperties
  <2>5. PushSample(q, a) = r
    BY <1>3, <2>3 DEF PushSample
  <2>6. \A i \in 1..Len(r) - 1 : r[i] = q[i + 1] /\ i + 1 \in 1..Len(q)
    BY <1>2, <2>2, <2>4
  <2>7. Len(r) \in Nat \ {0} /\ Len(r) = Len(q) - 1 + 1
    BY <1>2, <1>3, <2>4
  <2> QED
    BY <2>4, <2>5, <2>6, <2>7
<1>4. CASE ~(Len(q) >= ReadyCap)
  <2>1. PICK r : r = Append(q, Sample(a))
    OBVIOUS
  <2>2. r \in Seq(SampleSet) /\ Len(r) = Len(q) + 1 /\ r[Len(q) + 1] = Sample(a)
        /\ \A i \in 1..Len(q) : r[i] = q[i]
    BY <1>1, <1>2, <2>1, AppendProperties
  <2>3. PushSample(q, a) = r
    BY <1>4, <2>1 DEF PushSample
  <2>4. \A i \in 1..Len(r) - 1 : r[i] = q[i + 0] /\ i + 0 \in 1..Len(q)
    BY <1>2, <2>2
  <2>5. Len(r) \in Nat \ {0} /\ Len(r) = Len(q) - 0 + 1
    BY <1>2, <2>2
  <2> QED
    BY <2>2, <2>3, <2>4, <2>5
<1> QED
  BY <1>3, <1>4

\* A picture of which no NAL unit is still to come is whole, and handing it on keeps the order.
LEMMA HandedOn ==
    ASSUME NEW asm, NEW a, NEW q, NEW last, Assembled(asm, a, q, last), a.ts # 0,
           \A r \in asm + 1..Len(Video) : IsNal(r) => a.ts < Video[r].ts
    PROVE  Assembled(asm, NoAu, PushSample(q, a), last)
<1>1. /\ q \in Seq(SampleSet) /\ last \in Nat /\ a \in [ts : Nat, nals : Nat]
      /\ asm \in 0..Len(Video) /\ Len(Video) \in Nat /\ Len(q) \in Nat
  BY LenProperties, VideoPackets DEF Assembled, QueueSound
<1>2. a.nals = Nals(a.ts) /\ a.ts \in Nat
  BY <1>1, NalsAll DEF Assembled
<1> DEFINE r == PushSample(q, a)
<1>14. /\ r \in Seq(SampleSet) /\ Len(r) \in Nat \ {0} /\ r[Len(r)] = Sample(a)
       /\ \E d \in {0, 1} : /\ Len(r) = Len(q) - d + 1
                            /\ \A i \in 1..Len(r) - 1 : r[i] = q[i + d] /\ i + d \in 1..Len(q)
  BY <1>1, Pushed
<1> HIDE DEF r
<1>3. PICK d \in {0, 1} :
        /\ r \in Seq(SampleSet)
        /\ Len(r) \in Nat \ {0} /\ r[Len(r)] = Sample(a)
        /\ \A i \in 1..Len(r) - 1 : r[i] = q[i + d] /\ i + d \in 1..Len(q)
  BY <1>14
<1>4. Sample(a).rc = "ok" /\ Sample(a).ts = a.ts /\ Sample(a).nals = a.nals
  BY DEF Sample
<1>5. \A i \in 1..Len(r) : i \in 1..Len(r) - 1 \/ i = Len(r)
  BY <1>3
<1>6. \A i \in 1..Len(q) : q[i].ts \in Nat /\ q[i].ts < a.ts
  <2>1. \A i \in 1..Len(q) : q[i] \in SampleSet
    BY <1>1, ElementOfSeq
  <2>2. \A i \in 1..Len(q) : q[i].ts < a.ts
    BY DEF Assembled, LaterThan
  <2> QED
    BY <2>1, <2>2 DEF SampleSet
<1>7. last < a.ts
  BY DEF Assembled, LaterThan
<1>8. \A i \in 1..Len(r) : r[i].rc = "ok" => r[i].nals = Nals(r[i].ts) /\ last < r[i].ts
  <2>1. \A i \in 1..Len(q) : q[i].rc = "ok" => q[i].nals = Nals(q[i].ts) /\ last < q[i].ts
    BY DEF Assembled, QueueSound
  <2>2. \A i \in 1..Len(r) - 1 : r[i].rc = "ok" => r[i].nals = Nals(r[i].ts) /\ last < r[i].ts
    BY <1>3, <2>1
  <2>3. r[Len(r)].nals = Nals(r[Len(r)].ts) /\ last < r[Len(r)].ts
    BY <1>2, <1>3, <1>4, <1>7
  <2> QED
    BY <1>5, <2>2, <2>3
<1>9. ASSUME NEW i \in 1..Len(r), NEW j \in 1..Len(r), i < j, r[j].rc = "ok"
      PROVE  r[i].ts < r[j].ts
  <2>1. i \in 1..Len(r) - 1 /\ r[i] = q[i + d] /\ i + d \in 1..Len(q)
    BY <1>3, <1>9
  <2>2. CASE j = Len(r)
    BY <1>3, <1>4, <1>6, <2>1, <2>2
  <2>3. CASE j # Len(r)
    <3>1. r[j] = q[j + d] /\ j + d \in 1..Len(q) /\ i + d < j + d
      <4>1. i \in Int /\ j \in Int /\ d \in Int /\ j \in 1..Len(r) - 1
        BY <1>3, <1>5, <2>3
      <4> QED
        BY <1>3, <1>9, <4>1
    <3> QED
      BY <1>9, <2>1, <3>1 DEF Assembled, QueueSound
  <2> QED
    BY <2>2, <2>3
<1>10. QueueSound(r, last)
  BY <1>1, <1>3, <1>8, <1>9 DEF QueueSound
<1>11. ASSUME NEW x \in asm + 1..Len(Video), IsNal(x)
       PROVE  LaterThan(r, last, Video[x].ts)
  <2>1. a.ts < Video[x].ts /\ LaterThan(q, last, Video[x].ts)
    BY <1>11 DEF Assembled
  <2>2. \A i \in 1..Len(r) : r[i].ts < Video[x].ts
    BY <1>3, <1>4, <1>5, <2>1 DEF LaterThan
  <2> QED
    BY <2>1, <2>2 DEF LaterThan
<1>12. ASSUME NEW p \in 1..asm, NEW x \in asm + 1..Len(Video), IsNal(p), IsNal(x)
       PROVE  Video[p].ts < Video[x].ts
  <2>1. Video[p].ts <= a.ts /\ a.ts < Video[x].ts
    BY <1>12 DEF Assembled
  <2>2. p \in 1..Len(Video) /\ x \in 1..Len(Video)
    BY <1>1
  <2>3. Video[p].ts \in Nat /\ Video[x].ts \in Nat
    BY <2>2, VideoPackets
  <2> QED
    BY <1>2, <2>1, <2>3
<1>13. NoAu \in [ts : Nat, nals : Nat] /\ NoAu.ts = 0 /\ NoAu.nals = 0
  BY DEF NoAu
<1> QED
  BY <1>1, <1>3, <1>10, <1>11, <1>12, <1>13 DEF Assembled, r

\* VideoPackets that carry no NAL unit of a picture change nothing of what is assembled.
LEMMA PassedOver ==
    ASSUME NEW asm, NEW a, NEW q, NEW last, Assembled(asm, a, q, last),
           NEW p \in asm..Len(Video), \A r \in asm + 1..p : ~IsNal(r)
    PROVE  Assembled(p, a, q, last)
<1>1. asm \in Nat /\ p \in Nat /\ asm <= p /\ p \in 0..Len(Video) /\ Len(Video) \in Nat
  BY VideoPackets DEF Assembled
<1>2. \A r \in p + 1..Len(Video) : r \in asm + 1..Len(Video)
  BY <1>1
<1>3. \A r \in 1..p : IsNal(r) => r \in 1..asm
  BY <1>1
<1>4. \A ts : NalsIn(ts, p) = NalsIn(ts, asm)
  <2>1. \A r \in 1..asm : r \in 1..p
    BY <1>1
  <2> QED
    BY <1>3, <2>1 DEF NalsIn
<1>5. \A r \in p + 1..Len(Video) : IsNal(r) => LaterThan(q, last, Video[r].ts)
  BY <1>2 DEF Assembled
<1>6. a.ts # 0 => /\ LaterThan(q, last, a.ts)
                  /\ a.nals = Cardinality(NalsIn(a.ts, p))
                  /\ \E r \in 1..p : Video[r].ts = a.ts
                  /\ \A r \in 1..p : IsNal(r) => Video[r].ts <= a.ts
  <2>1. \A r \in 1..asm : r \in 1..p
    BY <1>1
  <2> QED
    BY <1>3, <1>4, <2>1 DEF Assembled
<1>7. a.ts = 0 => /\ a.nals = 0
                  /\ \A x \in 1..p : \A r \in p + 1..Len(Video) :
                       IsNal(x) /\ IsNal(r) => Video[x].ts < Video[r].ts
  BY <1>2, <1>3 DEF Assembled
<1> QED
  BY <1>1, <1>5, <1>6, <1>7 DEF Assembled

\* The next NAL unit goes into its picture.
LEMMA PutIn ==
    ASSUME NEW asm, NEW a, NEW q, NEW last, Assembled(asm, a, q, last),
           NEW p \in asm + 1..Len(Video), \A r \in asm + 1..p - 1 : ~IsNal(r), IsNal(p),
           a.ts \in {0, Video[p].ts},
           NEW b, b = [ts |-> Video[p].ts, nals |-> a.nals + 1]
    PROVE  Assembled(p, b, q, last)
<1>1. /\ asm \in Nat /\ p \in Nat /\ asm < p /\ p \in 0..Len(Video) /\ p \in 1..Len(Video)
      /\ Len(Video) \in Nat /\ a \in [ts : Nat, nals : Nat]
  BY VideoPackets DEF Assembled
<1>2. Video[p].ts \in Nat /\ Video[p].ts # 0 /\ a.nals \in Nat
  BY <1>1, VideoPackets
<1>3. b \in [ts : Nat, nals : Nat] /\ b.ts = Video[p].ts /\ b.nals = a.nals + 1
  BY <1>2
<1>4. \A r \in 1..p : IsNal(r) => r \in 1..asm \/ r = p
  BY <1>1
<1>5. \A r \in p + 1..Len(Video) : r \in asm + 1..Len(Video)
  BY <1>1
<1>6. \A r \in 1..asm : r \in 1..p /\ r \in 1..Len(Video) /\ r <= p
  BY <1>1
<1>7. \A r \in p + 1..Len(Video) : IsNal(r) => LaterThan(q, last, Video[r].ts)
  BY <1>5 DEF Assembled
<1>8. LaterThan(q, last, Video[p].ts)
  BY DEF Assembled
<1>9. Cardinality(NalsIn(b.ts, p)) = Cardinality(NalsIn(b.ts, asm)) + 1
  BY <1>1, <1>3, NalsNext
<1>10. a.nals = Cardinality(NalsIn(b.ts, asm))
  <2>1. CASE a.ts # 0
    BY <1>3, <2>1 DEF Assembled
  <2>2. CASE a.ts = 0
    <3>1. \A r \in 1..asm : IsNal(r) => Video[r].ts < Video[p].ts
      BY <2>2 DEF Assembled
    <3>2. \A r \in 1..asm : Video[r].ts \in Nat
      BY <1>6, VideoPackets
    <3>3. \A r \in 1..asm : IsNal(r) => Video[r].ts # Video[p].ts
      BY <1>2, <3>1, <3>2
    <3>4. NalsIn(b.ts, asm) = {}
      BY <1>3, <3>3 DEF NalsIn
    <3> QED
      BY <2>2, <3>4, FS_EmptySet DEF Assembled
  <2> QED
    BY <2>1, <2>2
<1>11. \A r \in 1..p : IsNal(r) => Video[r].ts <= b.ts
  <2>1. \A r \in 1..asm : Video[r].ts <= Video[p].ts
    BY <1>1, <1>6, VideoPackets
  <2> QED
    BY <1>2, <1>3, <1>4, <2>1
<1>12. \E r \in 1..p : Video[r].ts = b.ts
  <2>1. p \in 1..p
    BY <1>1
  <2> QED
    BY <1>3, <2>1
<1> QED
  BY <1>1, <1>2, <1>3, <1>7, <1>8, <1>9, <1>10, <1>11, <1>12 DEF Assembled

\* The worker takes the next NAL unit.
LEMMA Assembles ==
    ASSUME WorkerAssembles, NEW asm, NEW loc, NEW last,
           Waiting(naluq, asm, pos, loc), Assembled(asm, au, ready, last),
           pos \in 0..Len(Video)
    PROVE  \E b \in 0..pos : \E l \in [1..Len(naluq') -> 1..pos] :
              Waiting(naluq', b, pos, l) /\ Assembled(b, au', ready', last)
<1>1. /\ naluq \in Seq(NaluSet) /\ naluq # <<>> /\ naluq' = Tail(naluq)
      /\ Len(Video) \in Nat /\ asm \in 0..Len(Video)
  BY VideoPackets DEF WorkerAssembles, Waiting, Assembled
<1>2. /\ Len(naluq) \in Nat \ {0} /\ naluq' \in Seq(NaluSet) /\ Len(naluq') = Len(naluq) - 1
      /\ \A i \in 1..Len(naluq') : naluq'[i] = naluq[i + 1]
  BY <1>1, HeadTailProperties, EmptySeq
<1>3. Head(naluq) = naluq[1] /\ 1 \in 1..Len(naluq)
  BY <1>2
<1>4. PICK n \in NaluSet : n = Head(naluq)
  BY <1>1, HeadTailProperties
<1>5. PICK p \in 1..pos : p = loc[1]
  BY <1>3 DEF Waiting
<1>6. /\ asm < p /\ p \in 1..Len(Video) /\ p \in asm + 1..Len(Video) /\ p \in 0..pos
      /\ n.ts = Video[p].ts /\ (n.ps <=> Video[p].kind = "sps") /\ Video[p].kind # "fuS"
      /\ (n.last => EndsPicture(p))
  BY <1>1, <1>3, <1>4, <1>5 DEF Waiting
<1>7. \A r \in asm + 1..p - 1 : ~IsNal(r)
  <2> SUFFICES ASSUME NEW r \in asm + 1..p - 1, IsNal(r) PROVE FALSE
    OBVIOUS
  <2>1. r \in asm + 1..pos /\ r < p /\ Video[r].kind # "fuS"
    BY <1>1, <1>5 DEF IsNal
  <2>2. PICK k \in 1..Len(naluq) : loc[k] = r
    BY <2>1 DEF Waiting
  <2>3. k = 1 \/ 1 < k
    BY <1>2
  <2>4. 1 < k => loc[1] < loc[k]
    BY <1>3 DEF Waiting
  <2> QED
    BY <1>1, <1>5, <2>1, <2>2, <2>3, <2>4
<1> DEFINE l == [i \in 1..Len(naluq') |-> loc[i + 1]]
<1>8. \A i \in 1..Len(naluq') : i + 1 \in 1..Len(naluq) /\ 1 < i + 1 /\ i \in Nat
  BY <1>2
<1>9. l \in [1..Len(naluq') -> 1..pos]
  BY <1>8 DEF Waiting
<1>10. Waiting(naluq', p, pos, l)
  <2>1. \A i, j \in 1..Len(naluq') : i < j => l[i] < l[j]
    BY <1>8 DEF Waiting
  <2>2. ASSUME NEW r \in p + 1..pos, Video[r].kind # "fuS" PROVE \E k \in 1..Len(naluq') : l[k] = r
    <3>1. r \in asm + 1..pos /\ r # p
      BY <1>1, <1>5, <1>6
    <3>2. PICK k \in 1..Len(naluq) : loc[k] = r
      BY <2>2, <3>1 DEF Waiting
    <3>3. k # 1 /\ k - 1 \in 1..Len(naluq') /\ (k - 1) + 1 = k
      BY <1>2, <1>5, <3>1, <3>2
    <3> QED
      BY <3>2, <3>3
  <2>3. ASSUME NEW k \in 1..Len(naluq')
        PROVE  /\ p < l[k]
               /\ naluq'[k].ts = Video[l[k]].ts
               /\ naluq'[k].ps <=> Video[l[k]].kind = "sps"
               /\ Video[l[k]].kind # "fuS"
               /\ naluq'[k].last => EndsPicture(l[k])
    <3>1. l[k] = loc[k + 1] /\ naluq'[k] = naluq[k + 1] /\ k + 1 \in 1..Len(naluq) /\ 1 < k + 1
      BY <1>2, <1>8
    <3> QED
      BY <1>3, <1>5, <3>1 DEF Waiting
  <2> QED
    BY <1>2, <1>9, <2>1, <2>2, <2>3 DEF Waiting
<1>11. Assembled(p, au', ready', last)
  <2>1. CASE n.ps
    <3>1. UNCHANGED <<au, ready>>
      BY <1>4, <2>1 DEF WorkerAssembles
    <3>2. \A r \in asm + 1..p : ~IsNal(r)
      BY <1>1, <1>6, <1>7, <2>1 DEF IsNal
    <3>3. p \in asm..Len(Video)
      BY <1>1, <1>6
    <3>4. Assembled(p, au, ready, last)
      BY <3>2, <3>3, PassedOver
    <3> QED
      BY <3>1, <3>4
  <2>2. CASE ~n.ps
    <3>1. IsNal(p)
      BY <1>6, <2>2, VideoPackets DEF IsNal
    <3> DEFINE cut == NewPicture(n)
               q1  == IF cut THEN PushSample(ready, au) ELSE ready
               a0  == IF cut \/ au.ts = 0 THEN [ts |-> n.ts, nals |-> 0] ELSE au
               a1  == [a0 EXCEPT !.nals = @ + 1]
    <3>2. /\ ready' = IF n.last THEN PushSample(q1, a1) ELSE q1
          /\ au'    = IF n.last THEN NoAu ELSE a1
      BY <1>4, <2>2 DEF WorkerAssembles
    <3>3. /\ au \in [ts : Nat, nals : Nat] /\ (au.ts = 0 => au.nals = 0)
          /\ Video[p].ts \in Nat /\ Video[p].ts # 0
      BY <1>6, VideoPackets DEF Assembled
    <3>4. \A r \in p..Len(Video) : r \in 1..Len(Video) /\ Video[r].ts \in Nat /\ Video[p].ts <= Video[r].ts
      BY <1>1, <1>6, VideoPackets
    <3> DEFINE b == IF cut THEN NoAu ELSE au
    <3>5. Assembled(asm, b, q1, last)
      <4>1. CASE cut
        <5>1. au.ts # 0 /\ Video[p].ts # au.ts
          BY <1>6, <4>1 DEF NewPicture
        <5>2. PICK x \in 1..asm : Video[x].ts = au.ts
          BY <5>1 DEF Assembled
        <5>3. x \in 1..Len(Video) /\ x <= p
          BY <1>1, <1>6, <5>2
        <5>4. au.ts < Video[p].ts
          BY <1>6, <3>3, <5>1, <5>2, <5>3, VideoPackets
        <5>5. ASSUME NEW r \in asm + 1..Len(Video), IsNal(r) PROVE au.ts < Video[r].ts
          <6>1. r \in p..Len(Video)
            BY <1>1, <1>6, <1>7, <5>5
          <6> QED
            BY <3>3, <3>4, <5>4, <6>1
        <5>6. Assembled(asm, NoAu, PushSample(ready, au), last)
          BY <5>1, <5>5, HandedOn
        <5> QED
          BY <4>1, <5>6
      <4>2. CASE ~cut
        BY <4>2
      <4> QED
        BY <4>1, <4>2
    <3>6. b.ts \in {0, Video[p].ts} /\ a1 = [ts |-> Video[p].ts, nals |-> b.nals + 1]
      <4>1. CASE cut \/ au.ts = 0
        <5>1. b.ts = 0 /\ b.nals = 0
          BY <3>3, <4>1 DEF NoAu
        <5>2. a0 = [ts |-> Video[p].ts, nals |-> 0]
          BY <1>6, <4>1
        <5>3. a1 = [ts |-> Video[p].ts, nals |-> 0 + 1]
          BY <5>2
        <5> QED
          BY <5>1, <5>3
      <4>2. CASE ~(cut \/ au.ts = 0)
        <5>1. b = au /\ a0 = au /\ au.ts = Video[p].ts
          BY <1>6, <4>2 DEF NewPicture
        <5>2. a1 = [ts |-> au.ts, nals |-> au.nals + 1]
          BY <3>3, <5>1
        <5> QED
          BY <5>1, <5>2
      <4> QED
        BY <4>1, <4>2
    <3> HIDE DEF cut, q1, a0, b
    <3>7. Assembled(p, a1, q1, last)
      BY <1>6, <1>7, <3>1, <3>5, <3>6, PutIn
    <3>8. n.last => Assembled(p, NoAu, PushSample(q1, a1), last)
      <4> SUFFICES ASSUME n.last PROVE Assembled(p, NoAu, PushSample(q1, a1), last)
        OBVIOUS
      <4>1. a1.ts = Video[p].ts
        BY <3>6
      <4>2. ASSUME NEW r \in p + 1..Len(Video), IsNal(r) PROVE a1.ts < Video[r].ts
        <5>1. Video[r].ts # Video[p].ts
          BY <1>6, <4>2 DEF EndsPicture
        <5>2. r \in p..Len(Video)
          BY <1>6
        <5> QED
          BY <3>3, <3>4, <4>1, <5>1, <5>2
      <4> QED
        BY <3>3, <3>7, <4>1, <4>2, HandedOn
    <3> QED
      BY <3>2, <3>7, <3>8
  <2> QED
    BY <2>1, <2>2
<1> QED
  BY <1>6, <1>9, <1>10, <1>11

\* A packet arrives, and its NAL unit, if it makes one, joins the queue.
LEMMA Arrives ==
    ASSUME \E m \in BOOLEAN : ReceivePacket(m), PictureInv, cpc # "failed", wpc # "done",
           UNCHANGED <<au, ready, pulled>>
    PROVE  /\ pos' \in 0..Len(Video) /\ (FragmentHeld)'
           /\ \E asm \in 0..pos' : \E loc \in [1..Len(naluq') -> 1..pos'] :
                Waiting(naluq', asm, pos', loc) /\ Assembled(asm, au', ready', pulled'.ts)
<1>1. PICK m \in BOOLEAN, p \in 1..Len(Video) :
        /\ p = pos + 1 /\ (m => EndsPicture(p))
        /\ pos' = p
        /\ naluq' = naluq \o Decode(p, m)
        /\ fu' = CASE Video[p].kind = "fuS" -> Video[p].ts
                   [] Video[p].kind = "fuE" -> 0
                   [] OTHER -> fu
  BY DEF ReceivePacket
<1>2. /\ pos \in Nat /\ p \in Nat /\ Len(Video) \in Nat /\ p \in 0..Len(Video)
      /\ Video[p].ts \in Nat /\ Video[p].ts # 0 /\ Video[p].kind \in {"sps", "nal", "fuS", "fuE"}
  BY <1>1, VideoPackets DEF PictureInv
<1>3. FragmentHeld
  BY DEF PictureInv
<1>4. (FragmentHeld)'
  BY <1>1 DEF FragmentHeld
<1>5. Video[p].kind = "fuE" => fu = Video[p].ts
  <2> SUFFICES ASSUME Video[p].kind = "fuE" PROVE fu = Video[p].ts
    OBVIOUS
  <2>1. p > 1 /\ Video[p - 1].kind = "fuS" /\ Video[p - 1].ts = Video[p].ts
    BY RtspAssumption
  <2>2. p - 1 = pos /\ pos # 0
    BY <1>1, <1>2, <2>1
  <2> QED
    BY <1>3, <2>1, <2>2 DEF FragmentHeld
<1>6. PICK asm \in 0..pos, loc \in [1..Len(naluq) -> 1..pos] :
        Waiting(naluq, asm, pos, loc) /\ Assembled(asm, au, ready, pulled.ts)
  BY DEF PictureInv
<1>7. naluq \in Seq(NaluSet) /\ Len(naluq) \in Nat /\ asm \in 0..p
  BY <1>1, <1>2, <1>6, LenProperties DEF Waiting
<1>8. \A r \in asm + 1..p : r \in asm + 1..pos \/ r = p
  BY <1>1, <1>2
<1>9. CASE Video[p].kind = "fuS"
  <2>1. Decode(p, m) = <<>>
    BY <1>9 DEF Decode
  <2>2. naluq' = naluq
    BY <1>1, <1>7, <2>1, ConcatEmptySeq
  <2>3. loc \in [1..Len(naluq) -> 1..p]
    <3>1. 1..pos \subseteq 1..p
      BY <1>1, <1>2
    <3> QED
      BY <1>6, <3>1
  <2>4. Waiting(naluq, asm, p, loc)
    BY <1>6, <1>8, <1>9, <2>3 DEF Waiting
  <2> QED
    BY <1>1, <1>2, <1>4, <1>6, <1>7, <2>2, <2>3, <2>4
<1>10. CASE Video[p].kind # "fuS"
  <2>15. PICK n : n = [ts |-> Video[p].ts, last |-> m, ps |-> (Video[p].kind = "sps")]
    OBVIOUS
  <2>1. n \in NaluSet
    <3>1. (Video[p].kind = "sps") \in BOOLEAN /\ m \in BOOLEAN /\ Video[p].ts \in Nat
      BY <1>1, <1>2
    <3> QED
      BY <2>15, <3>1 DEF NaluSet
  <2>16. n.ts = Video[p].ts /\ n.last = m /\ n.ps = (Video[p].kind = "sps")
    BY <2>15
  <2>2. Decode(p, m) = <<n>>
    <3>1. CASE Video[p].kind = "sps"
      BY <2>15, <3>1 DEF Decode, Nalu
    <3>2. CASE Video[p].kind = "nal"
      BY <2>15, <3>2 DEF Decode, Nalu
    <3>3. CASE Video[p].kind = "fuE"
      BY <1>2, <1>5, <2>15, <3>3 DEF Decode, Nalu
    <3> QED
      BY <1>2, <1>10, <3>1, <3>2, <3>3
  <2>3. <<n>> \in Seq(NaluSet) /\ Len(<<n>>) = 1 /\ <<n>>[1] = n
    BY <2>1
  <2>4. /\ naluq' \in Seq(NaluSet) /\ Len(naluq') = Len(naluq) + 1
        /\ \A i \in 1..Len(naluq) : naluq'[i] = naluq[i]
        /\ naluq'[Len(naluq) + 1] = n
    <3>1. /\ naluq \o <<n>> \in Seq(NaluSet) /\ Len(naluq \o <<n>>) = Len(naluq) + Len(<<n>>)
          /\ \A i \in 1..Len(naluq) + Len(<<n>>) :
               (naluq \o <<n>>)[i] = IF i <= Len(naluq) THEN naluq[i] ELSE <<n>>[i - Len(naluq)]
      BY <1>7, <2>3, ConcatProperties
    <3>2. naluq' = naluq \o <<n>>
      BY <1>1, <2>2
    <3> QED
      BY <1>7, <2>3, <3>1, <3>2
  <2> DEFINE k == Len(naluq) + 1
             l == [i \in 1..Len(naluq') |-> IF i = k THEN p ELSE loc[i]]
  <2>5. \A i \in 1..Len(naluq') : i \in 1..Len(naluq) \/ i = k
    BY <1>7, <2>4
  <2>6. \A i \in 1..Len(naluq) : loc[i] \in 1..pos /\ i # k /\ loc[i] < p /\ loc[i] \in 1..p /\ i < k
                                 /\ i \in 1..Len(naluq')
    BY <1>1, <1>2, <1>6, <1>7, <2>4
  <2>7. k \in 1..Len(naluq') /\ p \in 1..p /\ asm < p
    BY <1>1, <1>2, <1>7, <2>4
  <2>8. l \in [1..Len(naluq') -> 1..p] /\ l[k] = p /\ \A i \in 1..Len(naluq) : l[i] = loc[i]
    BY <2>5, <2>6, <2>7
  <2> HIDE DEF l, k
  <2>9. \A i, j \in 1..Len(naluq') : i < j => l[i] < l[j]
    <3>1. \A i, j \in 1..Len(naluq) : i < j => l[i] < l[j]
      BY <1>6, <2>8 DEF Waiting
    <3>2. \A i \in 1..Len(naluq) : l[i] < l[k] /\ ~(k < i)
      BY <1>7, <2>6, <2>8 DEF k
    <3>3. ~(k < k)
      BY <1>7 DEF k
    <3> QED
      BY <2>5, <3>1, <3>2, <3>3
  <2>10. ASSUME NEW r \in asm + 1..p, Video[r].kind # "fuS" PROVE \E i \in 1..Len(naluq') : l[i] = r
    <3>1. CASE r = p
      BY <2>7, <2>8, <3>1
    <3>2. CASE r \in asm + 1..pos
      <4>1. PICK i \in 1..Len(naluq) : loc[i] = r
        BY <1>6, <2>10, <3>2 DEF Waiting
      <4> QED
        BY <2>6, <2>8, <4>1
    <3> QED
      BY <1>8, <3>1, <3>2
  <2>11. ASSUME NEW i \in 1..Len(naluq')
         PROVE  /\ asm < l[i]
                /\ naluq'[i].ts = Video[l[i]].ts
                /\ naluq'[i].ps <=> Video[l[i]].kind = "sps"
                /\ Video[l[i]].kind # "fuS"
                /\ naluq'[i].last => EndsPicture(l[i])
    <3>1. CASE i = k
      <4>1. l[i] = p /\ naluq'[i] = n /\ asm < p
        BY <2>4, <2>7, <2>8, <3>1 DEF k
      <4> QED
        BY <1>1, <1>10, <2>16, <4>1
    <3>2. CASE i \in 1..Len(naluq)
      BY <1>6, <2>4, <2>8, <3>2 DEF Waiting
    <3> QED
      BY <2>5, <3>1, <3>2
  <2>12. Waiting(naluq', asm, p, l)
    BY <2>4, <2>8, <2>9, <2>10, <2>11 DEF Waiting
  <2> QED
    BY <1>1, <1>2, <1>4, <1>6, <1>7, <2>8, <2>12
<1> QED
  BY <1>9, <1>10

\* The host takes the front of the queue, and the picture it took is earlier than the rest.
LEMMA PulledOff ==
    ASSUME NEW q, NEW last, QueueSound(q, last), q # <<>>, NEW now,
           now = IF Head(q).rc = "ok" THEN Head(q).ts ELSE last
    PROVE  /\ QueueSound(Tail(q), now)
           /\ \A x : LaterThan(q, last, x) => LaterThan(Tail(q), now, x)
<1>1. q \in Seq(SampleSet) /\ last \in Nat
  BY DEF QueueSound
<1>2. /\ Len(q) \in Nat \ {0} /\ Tail(q) \in Seq(SampleSet) /\ Len(Tail(q)) = Len(q) - 1
      /\ \A i \in 1..Len(Tail(q)) : Tail(q)[i] = q[i + 1]
      /\ Head(q) \in SampleSet
  BY <1>1, HeadTailProperties, EmptySeq
<1>3. Head(q) = q[1] /\ 1 \in 1..Len(q) /\ q[1] \in SampleSet
  BY <1>2
<1>4. now \in Nat
  BY <1>1, <1>3 DEF SampleSet
<1>5. PICK t : t = Tail(q)
  OBVIOUS
<1>6. \A i \in 1..Len(t) : i + 1 \in 1..Len(q) /\ 1 < i + 1 /\ t[i] = q[i + 1] /\ i \in Int
  BY <1>2, <1>5
<1>7. \A i \in 1..Len(t) : t[i].rc = "ok" => t[i].nals = Nals(t[i].ts) /\ now < t[i].ts
  BY <1>3, <1>6 DEF QueueSound
<1>8. \A i, j \in 1..Len(t) : i < j /\ t[j].rc = "ok" => t[i].ts < t[j].ts
  <2>1. \A i, j \in 1..Len(t) : i < j => i + 1 < j + 1
    BY <1>6
  <2> QED
    BY <1>6, <2>1 DEF QueueSound
<1>9. ASSUME NEW x, LaterThan(q, last, x) PROVE LaterThan(t, now, x)
  BY <1>3, <1>6, <1>9 DEF LaterThan
<1> QED
  BY <1>2, <1>4, <1>5, <1>7, <1>8, <1>9 DEF QueueSound

\* A reason for the end of the stream is no picture.
LEMMA MarkerQueued ==
    ASSUME NEW q, NEW last, QueueSound(q, last), NEW k \in {"end", "error"}
    PROVE  QueueSound(PushMarker(q, k), last)
<1>1. q \in Seq(SampleSet) /\ last \in Nat /\ Len(q) \in Nat
  BY LenProperties DEF QueueSound
<1>2. Marker(k) \in SampleSet /\ Marker(k).rc # "ok"
  BY DEF Marker, SampleSet
<1>3. PICK r : r = Append(q, Marker(k))
  OBVIOUS
<1>4. /\ r \in Seq(SampleSet) /\ Len(r) = Len(q) + 1 /\ r[Len(q) + 1] = Marker(k)
      /\ \A i \in 1..Len(q) : r[i] = q[i]
  BY <1>1, <1>2, <1>3, AppendProperties
<1>5. \A i \in 1..Len(r) : i \in 1..Len(q) \/ i = Len(q) + 1
  BY <1>1, <1>4
<1>6. \A i \in 1..Len(r) : r[i].rc = "ok" => r[i].nals = Nals(r[i].ts) /\ last < r[i].ts
  BY <1>2, <1>4, <1>5 DEF QueueSound
<1>7. ASSUME NEW i \in 1..Len(r), NEW j \in 1..Len(r), i < j, r[j].rc = "ok" PROVE r[i].ts < r[j].ts
  <2>1. j \in 1..Len(q)
    BY <1>2, <1>4, <1>5, <1>7
  <2>2. i \in 1..Len(q)
    BY <1>1, <1>4, <1>7, <2>1
  <2> QED
    BY <1>4, <1>7, <2>1, <2>2 DEF QueueSound
<1> QED
  BY <1>1, <1>3, <1>4, <1>6, <1>7 DEF QueueSound, PushMarker

\* Steps of the others leave the stream alone.
LEMMA StreamAlone ==
    ASSUME PictureInv, UNCHANGED <<pos, naluq, fu, au, ready, pulled>>,
           (cpc' # "failed" /\ wpc' # "done") => (cpc # "failed" /\ wpc # "done")
    PROVE  PictureInv'
<1>1. /\ pos' \in 0..Len(Video) /\ QueueSound(ready', pulled'.ts)
      /\ pulled' \in [rc : {"none", "ok", "end", "error", "wait"}, ts : Nat]
  BY DEF PictureInv
<1>2. ASSUME cpc' # "failed", wpc' # "done"
      PROVE  /\ (FragmentHeld)'
             /\ \E asm \in 0..pos' : \E loc \in [1..Len(naluq') -> 1..pos'] :
                  Waiting(naluq', asm, pos', loc) /\ Assembled(asm, au', ready', pulled'.ts)
  BY <1>2 DEF PictureInv, FragmentHeld
<1> QED
  BY <1>1, <1>2 DEF PictureInv

\* The handshake: only frames that overtake an answer touch the stream.
LEMMA StreamStarts ==
    ASSUME PictureInv, RtspInv, RStartNext
    PROVE  PictureInv'
<1>1. CASE \E ok \in BOOLEAN : Dial(ok)
  BY <1>1, StreamAlone DEF Dial
<1>2. CASE Answered
  <2>1. cpc \in Handshaking
    BY <1>2, StepNames DEF Answered
  <2>2. cpc # "failed" /\ wpc # "done"
    BY <2>1 DEF Handshaking, RtspInv
  <2> QED
    BY <1>2, <2>2, StreamAlone DEF Answered
<1>3. CASE Unauthorized
  BY <1>3, StreamAlone DEF Unauthorized
<1>4. CASE Refused
  BY <1>4 DEF Refused, PictureInv
<1>5. CASE \E m \in BOOLEAN : EarlyFrame(m)
  <2>1. /\ cpc = "PLAY" /\ UNCHANGED <<cpc, wpc, au, ready, pulled>>
        /\ \E m \in BOOLEAN : ReceivePacket(m)
    BY <1>5 DEF EarlyFrame
  <2>2. wpc # "done"
    BY <2>1 DEF RtspInv
  <2>3. /\ pos' \in 0..Len(Video) /\ (FragmentHeld)'
        /\ \E asm \in 0..pos' : \E loc \in [1..Len(naluq') -> 1..pos'] :
             Waiting(naluq', asm, pos', loc) /\ Assembled(asm, au', ready', pulled'.ts)
    BY <2>1, <2>2, Arrives
  <2> QED
    BY <2>1, <2>3 DEF PictureInv
<1> QED
  BY <1>1, <1>2, <1>3, <1>4, <1>5 DEF RStartNext

\* The worker.
LEMMA StreamRuns ==
    ASSUME PictureInv, RtspInv, RRunNext
    PROVE  PictureInv'
<1>1. wpc = "run" => cpc # "failed" /\ wpc # "done"
  BY DEF RtspInv
<1>2. CASE \E m \in BOOLEAN : WorkerReceives(m)
  <2>1. /\ wpc = "run" /\ UNCHANGED <<cpc, wpc, au, ready, pulled>>
        /\ \E m \in BOOLEAN : ReceivePacket(m)
    BY <1>2 DEF WorkerReceives, Reading
  <2>2. /\ pos' \in 0..Len(Video) /\ (FragmentHeld)'
        /\ \E asm \in 0..pos' : \E loc \in [1..Len(naluq') -> 1..pos'] :
             Waiting(naluq', asm, pos', loc) /\ Assembled(asm, au', ready', pulled'.ts)
    BY <1>1, <2>1, Arrives
  <2> QED
    BY <2>1, <2>2 DEF PictureInv
<1>3. CASE WorkerAssembles
  <2>1. wpc = "run" /\ UNCHANGED <<cpc, wpc, pos, fu, pulled>>
    BY <1>3 DEF WorkerAssembles, Reading
  <2>2. pos \in 0..Len(Video) /\ FragmentHeld
    BY <1>1, <2>1 DEF PictureInv
  <2>3. PICK asm \in 0..pos, loc \in [1..Len(naluq) -> 1..pos] :
          Waiting(naluq, asm, pos, loc) /\ Assembled(asm, au, ready, pulled.ts)
    BY <1>1, <2>1 DEF PictureInv
  <2>4. \E b \in 0..pos : \E l \in [1..Len(naluq') -> 1..pos] :
          Waiting(naluq', b, pos, l) /\ Assembled(b, au', ready', pulled.ts)
    BY <1>3, <2>2, <2>3, Assembles
  <2>5. QueueSound(ready', pulled.ts)
    BY <2>4 DEF Assembled
  <2>6. (FragmentHeld)'
    BY <2>1, <2>2 DEF FragmentHeld
  <2> QED
    BY <2>1, <2>2, <2>4, <2>5, <2>6 DEF PictureInv
<1>4. CASE \E rc \in {"end", "error"} : WorkerEnds(rc)
  <2>1. /\ wpc' = "done" /\ UNCHANGED <<pos, pulled>>
        /\ \E k \in {"end", "error"} : ready' = PushMarker(ready, k)
    BY <1>4 DEF WorkerEnds
  <2>2. QueueSound(ready', pulled.ts)
    BY <2>1, MarkerQueued DEF PictureInv
  <2> QED
    BY <2>1, <2>2 DEF PictureInv
<1>5. CASE WorkerStops
  BY <1>5 DEF WorkerStops, PictureInv
<1>6. CASE PingEnds
  BY <1>6, StreamAlone DEF PingEnds
<1>7. CASE TimePasses
  BY <1>7, StreamAlone DEF TimePasses
<1> QED
  BY <1>2, <1>3, <1>4, <1>5, <1>6, <1>7 DEF RRunNext

\* The host's reads.
LEMMA StreamPulled ==
    ASSUME PictureInv, Pull
    PROVE  PictureInv'
<1>1. UNCHANGED <<cpc, wpc, pos, naluq, fu, au>>
  BY DEF Pull
<1>2. /\ pulled \in [rc : {"none", "ok", "end", "error", "wait"}, ts : Nat]
      /\ QueueSound(ready, pulled.ts) /\ pos \in 0..Len(Video)
  BY DEF PictureInv
<1>3. CASE ready = <<>>
  <2>1. /\ pulled'.ts = pulled.ts /\ ready' = ready
        /\ pulled' \in [rc : {"none", "ok", "end", "error", "wait"}, ts : Nat]
    BY <1>2, <1>3 DEF Pull
  <2> QED
    BY <1>1, <1>2, <2>1 DEF PictureInv, FragmentHeld
<1>4. CASE ready # <<>>
  <2>1. /\ pulled' = [rc |-> Head(ready).rc,
                      ts |-> IF Head(ready).rc = "ok" THEN Head(ready).ts ELSE pulled.ts]
        /\ ready' = Tail(ready)
    BY <1>4 DEF Pull, Popped
  <2>2. Head(ready) \in SampleSet
    BY <1>2, <1>4, HeadTailProperties DEF QueueSound
  <2>3. /\ pulled'.ts = IF Head(ready).rc = "ok" THEN Head(ready).ts ELSE pulled.ts
        /\ pulled'.rc = Head(ready).rc
        /\ pulled' \in [rc : {"none", "ok", "end", "error", "wait"}, ts : Nat]
    BY <1>2, <2>1, <2>2 DEF SampleSet
  <2>4. /\ QueueSound(ready', pulled'.ts)
        /\ \A x : LaterThan(ready, pulled.ts, x) => LaterThan(ready', pulled'.ts, x)
    BY <1>2, <1>4, <2>1, <2>3, PulledOff
  <2>5. \A asm : Assembled(asm, au, ready, pulled.ts) => Assembled(asm, au, ready', pulled'.ts)
    BY <2>4 DEF Assembled
  <2> QED
    BY <1>1, <1>2, <2>3, <2>4, <2>5 DEF PictureInv, FragmentHeld
<1> QED
  BY <1>3, <1>4

LEMMA PictureInit == Init => PictureInv
<1> SUFFICES ASSUME Init PROVE PictureInv
  OBVIOUS
<1>1. /\ pos = 0 /\ naluq = <<>> /\ ready = <<>> /\ au = NoAu
      /\ pulled = [rc |-> "none", ts |-> 0]
  BY DEF Init, RInit
<1>2. Len(Video) \in Nat /\ \A p \in 1..Len(Video) : Video[p].ts \in Nat /\ Video[p].ts # 0
  BY VideoPackets
<1>3. ready \in Seq(SampleSet) /\ Len(ready) = 0 /\ naluq \in Seq(NaluSet) /\ Len(naluq) = 0
  BY <1>1, EmptySeq
<1>4. /\ pulled \in [rc : {"none", "ok", "end", "error", "wait"}, ts : Nat] /\ pulled.ts = 0
  BY <1>1
<1>5. QueueSound(ready, pulled.ts)
  BY <1>3, <1>4 DEF QueueSound
<1>6. au \in [ts : Nat, nals : Nat] /\ au.ts = 0 /\ au.nals = 0
  BY <1>1 DEF NoAu
<1>7. \A r \in 0 + 1..Len(Video) : LaterThan(ready, pulled.ts, Video[r].ts)
  BY <1>2, <1>3, <1>4 DEF LaterThan
<1>8. 0 \in 0..Len(Video) /\ 0 \in 0..pos
  BY <1>1, <1>2
<1>9. Assembled(0, au, ready, pulled.ts)
  BY <1>5, <1>6, <1>7, <1>8 DEF Assembled
<1> DEFINE loc == [i \in 1..Len(naluq) |-> 1]
<1>10. \A i \in 1..Len(naluq) : FALSE
  BY <1>3
<1>11. loc \in [1..Len(naluq) -> 1..pos]
  BY <1>10
<1>12. Waiting(naluq, 0, pos, loc)
  <2>1. \A p \in 0 + 1..pos : FALSE
    BY <1>1
  <2> QED
    BY <1>3, <1>10, <1>11, <2>1 DEF Waiting
<1> QED
  BY <1>1, <1>4, <1>5, <1>8, <1>9, <1>11, <1>12 DEF PictureInv, FragmentHeld

LEMMA PictureStep == PictureInv /\ TunnelInv /\ [Next]_vars => PictureInv'
<1> SUFFICES ASSUME PictureInv, TunnelInv, [Next]_vars PROVE PictureInv'
  OBVIOUS
<1>1. RtspInv
  BY DEF TunnelInv
<1>2. CASE RtspHandshake
  BY <1>1, <1>2, StreamStarts DEF RtspHandshake
<1>3. CASE RtspRuns
  BY <1>1, <1>3, StreamRuns DEF RtspRuns
<1>4. CASE ReadRtsp
  BY <1>4, StreamPulled DEF ReadRtsp
<1>5. CASE CloseStopsRtsp
  <2>1. UNCHANGED <<cpc, pos, naluq, fu, au, ready, wpc, pulled>>
    BY <1>5 DEF CloseStopsRtsp, RStopNext, StopBegins, StopJoins, ClientStops
  <2> QED
    BY <2>1, StreamAlone
<1>6. CASE UNCHANGED rvars
  BY <1>6, StreamAlone DEF rvars
<1>7. \/ RtspHandshake \/ RtspRuns \/ ReadRtsp \/ CloseStopsRtsp \/ UNCHANGED rvars
  BY DEF Next, CloseNext, Over, vars, OpenDeferred, OpenLocal, OpenRtsp, RtspUp, RtspFailed,
         StartRedirect, StartOff, StartTutk, StartRtsp, StartMjpeg, StartCtrlTutk, CtrlDial,
         CtrlHandshake, HostCtrl, TutkCtrl, Worker, ReadTutk, ReaderEnters, ReaderLocks,
         ReaderReturns, CloseBegins, CloseJoinsWorker, CloseWakesReader, CloseFreesSsl, Closed
<1> QED
  BY <1>2, <1>3, <1>4, <1>5, <1>6, <1>7

(* Every picture the host can read is whole, though its boundaries are known only from the
   timestamps, some frames overtake the answer to PLAY and the queue drops its oldest; the
   pictures come in the printer's order; and the receiver reports are exact (rtsp_passthrough.cpp
   flush_au, try_pull; rtsp_client.cpp await_response, decode_rtp_h264, update_rtp_stats). *)
THEOREM StreamHolds == Spec => []StreamSound
<1>1. PictureInv => WholePictures /\ PicturesInOrder
  BY DEF PictureInv, QueueSound, WholePictures, PicturesInOrder
<1>2. PictureInv => StreamSound
  BY <1>1, FiveArrivals DEF StreamSound
<1> QED
  BY PictureInit, PictureStep, TunnelInit, TunnelStep, <1>2, PTL DEF Spec

-------------------------------------------------------------------------------
(* The frames of a stream.  A slice has been brought when its block came or its group was
   repaired; the frame queue holds exactly what was brought and is not behind it. *)
Indexes == 0..K + M - 1
GroupOf(s) == (s - 1) \div K
IndexOf(s) == (s - 1) % K
Full(g) == Cardinality(have[g]) >= K
Brought(s) == Full(GroupOf(s)) \/ IndexOf(s) \in have[GroupOf(s)]

HoldsBrought ==
    /\ \A f \in Frames : pending[f] = IF Behind(f) THEN {} ELSE {s \in SlicesOf(f) : Brought(s)}
    /\ \A g \in Groups : Full(g) => g \in closed

ShownInOrder ==
    /\ emitted # <<>> => next # 0
    /\ \A n \in 1..Len(emitted) : emitted[n] < next
    /\ \A n \in 1..Len(emitted) - 1 : emitted[n] < emitted[n + 1]
    /\ ~needKey => emitted # <<>> /\ emitted[Len(emitted)] + 1 = next
    /\ joinMode = "Video" =>
         \A n \in 1..Len(emitted) :
           emitted[n] \notin Keys => n > 1 /\ emitted[n - 1] + 1 = emitted[n]

Settled == ~flushing => ReadyFrames = {} \/ pending[First] # SlicesOf(First) \/ (next # 0 /\ First # next)

(* While no packet overtook another, no wait ran out and no group lost more packets than it
   has parity: what was sent is lost, under way or handled, in this order; an older group has
   been repaired when a newer one begins; and no frame was skipped. *)
Before(p, q) == p[1] < q[1] \/ (p[1] = q[1] /\ p[2] < q[2])
Sent == {PacketNo(n) : n \in 0..at - 1}
Lost(g) == {p \in gone : p[1] = g}
Repairable == \A g \in Groups : Cardinality(Lost(g)) <= M
Handled(p) == p[2] \in have[p[1]] \/ Full(p[1])

NetworkInOrder ==
    /\ gone \subseteq Sent
    /\ \A n \in 1..Len(air) : air[n] \in Sent
    /\ \A m, n \in 1..Len(air) : m < n => Before(air[m], air[n])
    /\ \A p \in Sent : p \in gone \/ Handled(p) \/ \E n \in 1..Len(air) : air[n] = p
    /\ \A g \in Groups : \A i \in have[g] :
         <<g, i>> \in Sent /\ \A n \in 1..Len(air) : ~Before(air[n], <<g, i>>)

GroupsInOrder ==
    /\ \A g \in Groups : have[g] # {} => newest # NoGroup /\ g <= newest
    /\ newest # NoGroup => have[newest] # {}
    /\ \A g \in Groups : g \in closed <=> \/ have[g] # {} /\ g < newest
                                          \/ Full(g) \/ K + M - 1 \in have[g]

NoneSkipped ==
    /\ next # 0 => ~needKey
    /\ \A f \in Frames : next # 0 /\ f < next => \E n \in 1..Len(emitted) : emitted[n] = f

StreamInv ==
    framed => /\ HoldsBrought /\ ShownInOrder /\ Settled
              /\ calm /\ Repairable => NetworkInOrder /\ GroupsInOrder /\ NoneSkipped

(* The connection. *)
LinkInv ==
    /\ pc # "paths" => lan = "off" /\ relay = "off" /\ NoSocketLeak
    /\ user = "idle" => pc = "off"
    /\ pc \in {"off", "run", "connect", "paths"} => conn = "none"
    /\ linkReady => accepted

(* Numbers.  Packets are sent group by group, and slices are numbered the same way. *)
Width == K + M
LastGroup == (Len(FrameOf) - 1) \div K



LEMMA DivOf ==
    ASSUME NEW w \in Nat \ {0}, NEW g \in Nat, NEW i \in 0..w - 1
    PROVE  g * w + i \in Nat /\ (g * w + i) \div w = g /\ (g * w + i) % w = i
OBVIOUS

LEMMA DivBound ==
    ASSUME NEW w \in Nat \ {0}, NEW l \in Nat, NEW n \in Nat, n < (l + 1) * w
    PROVE  n \div w \in 0..l
OBVIOUS

LEMMA TimesBound ==
    ASSUME NEW w \in Nat \ {0}, NEW l \in Nat, NEW g \in 0..l, NEW i \in 0..w - 1
    PROVE  g * w + i < (l + 1) * w
OBVIOUS

LEMMA DivOrder ==
    ASSUME NEW w \in Nat \ {0}, NEW m \in Nat, NEW n \in Nat, m < n
    PROVE  m \div w < n \div w \/ (m \div w = n \div w /\ m % w < n % w)
OBVIOUS

LEMMA Sizes ==
    /\ K \in Nat \ {0} /\ M \in Nat /\ Width \in Nat \ {0} /\ Len(FrameOf) \in Nat \ {0}
    /\ FrameOf \in Seq(Nat) /\ LastGroup \in Nat /\ Groups = 0..LastGroup
    /\ Len(FrameOf) = (LastGroup + 1) * K
    /\ Packets = Groups \X Indexes /\ Indexes = 0..Width - 1
<1>1. K \in Nat \ {0} /\ M \in Nat /\ FrameOf \in Seq(Nat) /\ Len(FrameOf) % K = 0
  BY TutkAssumption
<1>2. Len(FrameOf) \in Nat \ {0}
  BY <1>1, StreamAssumption, LenProperties
<1> DEFINE n == Len(FrameOf)
           q == n \div K
<1>a. q \in Nat /\ n = q * K + (n % K)
  BY <1>1, <1>2, DivMod
<1>3. q \in Nat /\ n = q * K
  BY <1>1, <1>2, <1>a
<1>4. q \in Nat \ {0} /\ q - 1 \in Nat /\ K - 1 \in 0..K - 1
  BY <1>1, <1>2, <1>3
<1> HIDE DEF q, n
<1>5. PICK h \in Nat, i \in 0..K - 1 : h = q - 1 /\ i = K - 1
  BY <1>4
<1>6. (h * K + i) \div K = h
  BY <1>1, DivOf
<1>7. LastGroup = q - 1
  <2>1. h * K + i = n - 1
    BY <1>1, <1>3, <1>4, <1>5
  <2> QED
    BY <1>5, <1>6, <2>1 DEF LastGroup, n
<1>8. LastGroup \in Nat /\ n = (LastGroup + 1) * K
  BY <1>3, <1>4, <1>7
<1>9. K + M - 1 = Width - 1 /\ Width \in Nat \ {0}
  BY <1>1 DEF Width
<1> USE DEF n
<1> QED
  BY <1>1, <1>2, <1>8, <1>9 DEF LastGroup, Groups, Packets, Indexes

LEMMA PacketSets ==
    /\ IsFiniteSet(Groups) /\ Cardinality(Groups) = LastGroup + 1
    /\ IsFiniteSet(Indexes) /\ Cardinality(Indexes) = Width
    /\ IsFiniteSet(Packets) /\ Cardinality(Packets) = (LastGroup + 1) * Width
<1>1. IsFiniteSet(Groups) /\ Cardinality(Groups) = LastGroup + 1
  BY Sizes, FS_Interval
<1>2. IsFiniteSet(Indexes) /\ Cardinality(Indexes) = Width
  BY Sizes, FS_Interval
<1> QED
  BY <1>1, <1>2, Sizes, FS_Product

LEMMA PacketInSet ==
    \A n \in 0..Cardinality(Packets) - 1 : PacketNo(n) \in Packets
<1> SUFFICES ASSUME NEW n \in 0..Cardinality(Packets) - 1 PROVE PacketNo(n) \in Packets
  OBVIOUS
<1>1. n \in Nat /\ n < (LastGroup + 1) * Width
  BY PacketSets, Sizes
<1>2. n \div Width \in Groups /\ n % Width \in Indexes
  BY <1>1, Sizes, DivMod, DivBound
<1> QED
  BY <1>2, Sizes DEF PacketNo, Width

LEMMA PacketHasNo ==
    ASSUME NEW g \in Groups, NEW i \in Indexes
    PROVE  \E n \in 0..Cardinality(Packets) - 1 : <<g, i>> = PacketNo(n)
<1>1. g \in 0..LastGroup /\ i \in 0..Width - 1
  BY Sizes
<1>a. Width \in Nat \ {0} /\ LastGroup \in Nat /\ g \in Nat
  BY <1>1, Sizes
<1>b. g * Width + i < (LastGroup + 1) * Width
  BY <1>1, <1>a, TimesBound
<1>c. g * Width + i \in Nat /\ (g * Width + i) \div Width = g /\ (g * Width + i) % Width = i
  BY <1>1, <1>a, DivOf
<1>2. /\ g * Width + i \in Nat /\ g * Width + i < (LastGroup + 1) * Width
      /\ (g * Width + i) \div Width = g /\ (g * Width + i) % Width = i
  BY <1>b, <1>c
<1>3. g * Width + i \in 0..Cardinality(Packets) - 1
  BY <1>2, PacketSets, Sizes
<1> QED
  BY <1>2, <1>3 DEF PacketNo, Width

LEMMA PacketsInOrder ==
    \A m, n \in Nat : m < n => Before(PacketNo(m), PacketNo(n))
BY Sizes, DivOrder DEF PacketNo, Before, Width


LEMMA SliceFacts ==
    /\ \A s \in Slices : /\ GroupOf(s) \in Groups /\ IndexOf(s) \in 0..K - 1 /\ IndexOf(s) \in Indexes
                         /\ SliceOf(GroupOf(s), IndexOf(s)) = s
    /\ \A g \in Groups, i \in 0..K - 1 : /\ SliceOf(g, i) \in Slices
                                         /\ GroupOf(SliceOf(g, i)) = g /\ IndexOf(SliceOf(g, i)) = i
    /\ \A s, t \in Slices : s < t => GroupOf(s) < GroupOf(t)
                                       \/ (GroupOf(s) = GroupOf(t) /\ IndexOf(s) < IndexOf(t))
<1>4. Slices = 1..(LastGroup + 1) * K
  BY Sizes DEF Slices
<1>5. \A s \in Slices : s \in Nat \ {0} /\ s <= (LastGroup + 1) * K /\ s - 1 \in Nat
  BY <1>4, Sizes
<1>6. ASSUME NEW s \in Slices
      PROVE  /\ GroupOf(s) \in Groups /\ IndexOf(s) \in 0..K - 1
             /\ SliceOf(GroupOf(s), IndexOf(s)) = s
  <2>1. s - 1 \in Nat /\ s - 1 < (LastGroup + 1) * K
    BY <1>5, Sizes
  <2>2. (s - 1) \div K \in 0..LastGroup /\ (s - 1) % K \in 0..K - 1
    BY <2>1, Sizes, DivMod, DivBound
  <2>3. s - 1 = ((s - 1) \div K) * K + ((s - 1) % K)
    BY <2>1, Sizes, DivMod
  <2>4. ((s - 1) \div K) * K + ((s - 1) % K) + 1 = s
    BY <1>5, <2>3
  <2> QED
    BY <2>2, <2>4, Sizes DEF GroupOf, IndexOf, SliceOf
<1>7. ASSUME NEW g \in Groups, NEW i \in 0..K - 1
      PROVE  /\ SliceOf(g, i) \in Slices
             /\ GroupOf(SliceOf(g, i)) = g /\ IndexOf(SliceOf(g, i)) = i
  <2>1. g \in 0..LastGroup
    BY Sizes
  <2>a. K \in Nat \ {0} /\ LastGroup \in Nat /\ g \in Nat
    BY <2>1, Sizes
  <2>b. g * K + i < (LastGroup + 1) * K
    BY <2>1, <2>a, TimesBound
  <2>2. g * K + i \in Nat /\ (g * K + i) \div K = g /\ (g * K + i) % K = i
    BY <2>1, <2>a, DivOf
  <2>3. (g * K + i + 1) - 1 = g * K + i /\ g * K + i + 1 \in 1..(LastGroup + 1) * K
    BY <2>2, <2>b, Sizes
  <2> QED
    BY <1>4, <2>2, <2>3 DEF GroupOf, IndexOf, SliceOf
<1>8. \A s, t \in Slices : s < t => GroupOf(s) < GroupOf(t)
                                      \/ (GroupOf(s) = GroupOf(t) /\ IndexOf(s) < IndexOf(t))
  <2> TAKE s, t \in Slices
  <2>1. s < t => s - 1 < t - 1
    BY <1>5
  <2> QED
    BY <1>5, <2>1, Sizes, DivOrder DEF GroupOf, IndexOf
<1>9. \A i \in 0..K - 1 : i \in Indexes
  BY Sizes DEF Width
<1> QED
  BY <1>6, <1>7, <1>8, <1>9

(* Types. *)
Quiet == UNCHANGED <<streamVars, queue>>

LEMMA QuietSteps ==
    ASSUME TypeOK, LinkInv, TutkNext \/ UNCHANGED tutkVars
    PROVE  \/ /\ Quiet /\ (framed' => framed) /\ UNCHANGED joinMode
              /\ pc' = "recv" => pc \in {"recv", "login"}
           \/ NextFrame \/ LeaveReturns \/ PrinterSends \/ ReceiveStream \/ FlushFrames
           \/ RoundOver \/ End
<1> USE DEF Quiet, Goto, streamVars, netVars, fecVars, frameVars, pathVars, tryVars, linkVars
<1>1. CASE Join \/ OpenReturns \/ SendCtrl \/ Leave \/ RunRound \/ ConnectAttempt
  BY <1>1 DEF Join, OpenReturns, SendCtrl, Leave, RunRound, ConnectAttempt
<1>2. CASE LanSearch \/ HeadStartOver \/ RelayJoin \/ Rendezvous \/ OpenPath
  BY <1>2 DEF LanSearch, HeadStartOver, RelayJoin, Rendezvous, OpenPath
<1>3. CASE ServerHello \/ ServerFinished \/ Login
  BY <1>3 DEF ServerHello, ServerFinished, Login, HandshakeFails
<1>4. CASE ReceiveStops \/ LateAccept \/ DrainCtrl \/ ReceiveFails
  BY <1>4 DEF ReceiveStops, LateAccept, DrainCtrl, ReceiveFails
<1>5. CASE UNCHANGED tutkVars
  BY <1>5 DEF tutkVars
<1> QED
  BY <1>1, <1>2, <1>3, <1>4, <1>5 DEF TutkNext, TutkWorker

PlaceTypes ==
    /\ user \in {"idle", "opening", "open", "browsing", "leaving", "done"}
    /\ pc \in {"off", "run", "connect", "paths", "hello", "finish", "login",
               "recv", "roundover", "end"}

PathTypes ==
    /\ lan \in {"off", "search", "ok", "failed"}
    /\ relay \in {"off", "join", "rdv", "ok", "failed", "skipped"}
    /\ conn \in {"none", "lan", "relay"} /\ via \in {"none", "lan", "p2p", "relay"}

SockTypes == socks \subseteq {"lan", "relay"}

CountTypes ==
    /\ rounds \in 0..MaxRounds /\ tries \in 0..MaxTries /\ logins \in 0..MaxLogins
    /\ ctrlOut \in 0..1 /\ asked \in 0..1 /\ faults \in 0..MaxFaults

FlagTypes ==
    /\ joinMode \in Modes /\ speaks \in Printers
    /\ joined \in BOOLEAN /\ framed \in BOOLEAN /\ linkReady \in BOOLEAN /\ accepted \in BOOLEAN

LinkTypes == PlaceTypes /\ PathTypes /\ SockTypes /\ CountTypes /\ FlagTypes

StreamTypes ==
    /\ needKey \in BOOLEAN /\ flushing \in BOOLEAN /\ calm \in BOOLEAN
    /\ air \in Seq(Packets) /\ at \in 0..Cardinality(Packets) /\ gone \subseteq Packets
    /\ have \in [Groups -> SUBSET (0..K + M - 1)] /\ closed \subseteq Groups
    /\ newest \in Groups \cup {Cardinality(Groups)}
    /\ pending \in [Frames -> SUBSET Slices]
    /\ next \in {0} \cup Frames \cup {f + 1 : f \in Frames}
    /\ emitted \in Seq(Frames) /\ queue \in Seq(Frames) /\ Len(queue) <= MaxQueued

LEMMA TypeParts == TypeOK <=> LinkTypes /\ StreamTypes
BY DEF TypeOK, LinkTypes, PlaceTypes, PathTypes, SockTypes, CountTypes, FlagTypes, StreamTypes

LEMMA Bounds ==
    /\ MaxTries \in Nat /\ MaxRounds \in Nat /\ MaxLogins \in Nat /\ MaxFaults \in Nat
    /\ MaxQueued \in Nat \ {0} /\ KeepGroups \in Nat
BY TutkAssumption

LEMMA AdoptedFacts ==
    ASSUME LinkTypes
    PROVE  /\ Adopted[2] \in {"none", "lan", "relay"} /\ Adopted[3] \in {"none", "lan", "p2p", "relay"}
           /\ Adopted[1] = {Adopted[2]} \ {"none"} /\ Adopted[1] \subseteq {"lan", "relay"}
<1>1. CASE lan = "ok"
  BY <1>1 DEF Adopted
<1>2. CASE lan # "ok" /\ relay = "ok"
  BY <1>2 DEF Adopted, LinkTypes, PathTypes
<1>3. CASE lan # "ok" /\ relay # "ok"
  BY <1>3 DEF Adopted
<1> QED
  BY <1>1, <1>2, <1>3

LEMMA PlaceTypesStep ==
    ASSUME LinkTypes, TutkNext \/ UNCHANGED tutkVars
    PROVE  PlaceTypes'
<1> USE Bounds DEF Goto, IotcClose, Fault, LinkTypes, pathVars, tryVars, linkVars, PlaceTypes
<1>1. CASE Join
  BY <1>1 DEF Join
<1>2. CASE OpenReturns
  BY <1>2 DEF OpenReturns
<1>3. CASE NextFrame \/ SendCtrl
  BY <1>3 DEF NextFrame, SendCtrl
<1>4. CASE Leave \/ LeaveReturns
  BY <1>4 DEF Leave, LeaveReturns
<1>5. CASE RunRound
  BY <1>5 DEF RunRound
<1>6. CASE ConnectAttempt
  BY <1>6 DEF ConnectAttempt, ReadyOnConnect
<1>7. CASE LanSearch
  BY <1>7 DEF LanSearch
<1>8. CASE HeadStartOver
  BY <1>8 DEF HeadStartOver
<1>9. CASE RelayJoin
  BY <1>9 DEF RelayJoin, RelayGivesUp
<1>10. CASE Rendezvous
  BY <1>10 DEF Rendezvous, RelayGivesUp
<1>11. CASE OpenPath
  BY <1>11, AdoptedFacts DEF OpenPath
<1>12. CASE ServerHello \/ ServerFinished
  BY <1>12 DEF ServerHello, ServerFinished, HandshakeFails
<1>13. CASE Login
  BY <1>13 DEF Login
<1>14. CASE FlushFrames
  BY <1>14 DEF FlushFrames
<1>15. CASE ReceiveStops
  BY <1>15 DEF ReceiveStops
<1>16. CASE RoundOver
  BY <1>16 DEF RoundOver
<1>17. CASE End
  BY <1>17 DEF End
<1>18. CASE PrinterSends
  BY <1>18 DEF PrinterSends
<1>19. CASE LateAccept \/ DrainCtrl
  BY <1>19 DEF LateAccept, DrainCtrl
<1>20. CASE ReceiveStream
  BY <1>20 DEF ReceiveStream
<1>21. CASE ReceiveFails
  BY <1>21 DEF ReceiveFails
<1>22. CASE UNCHANGED tutkVars
  BY <1>22 DEF tutkVars
<1> QED
  BY <1>1, <1>2, <1>3, <1>4, <1>5, <1>6, <1>7, <1>8, <1>9, <1>10, <1>11, <1>12, <1>13, <1>14, <1>15, <1>16, <1>17, <1>18, <1>19, <1>20, <1>21, <1>22 DEF TutkNext, TutkWorker

LEMMA SockTypesStep ==
    ASSUME LinkTypes, TutkNext \/ UNCHANGED tutkVars
    PROVE  SockTypes'
<1> USE Bounds DEF Goto, IotcClose, Fault, LinkTypes, pathVars, tryVars, linkVars, SockTypes
<1>1. CASE Join
  BY <1>1 DEF Join
<1>2. CASE OpenReturns
  BY <1>2 DEF OpenReturns
<1>3. CASE NextFrame \/ SendCtrl
  BY <1>3 DEF NextFrame, SendCtrl
<1>4. CASE Leave \/ LeaveReturns
  BY <1>4 DEF Leave, LeaveReturns
<1>5. CASE RunRound
  BY <1>5 DEF RunRound
<1>6. CASE ConnectAttempt
  BY <1>6 DEF ConnectAttempt, ReadyOnConnect
<1>7. CASE LanSearch
  BY <1>7 DEF LanSearch
<1>8. CASE HeadStartOver
  BY <1>8 DEF HeadStartOver
<1>9. CASE RelayJoin
  BY <1>9 DEF RelayJoin, RelayGivesUp
<1>10. CASE Rendezvous
  BY <1>10 DEF Rendezvous, RelayGivesUp
<1>11. CASE OpenPath
  BY <1>11, AdoptedFacts DEF OpenPath
<1>12. CASE ServerHello \/ ServerFinished
  BY <1>12 DEF ServerHello, ServerFinished, HandshakeFails
<1>13. CASE Login
  BY <1>13 DEF Login
<1>14. CASE FlushFrames
  BY <1>14 DEF FlushFrames
<1>15. CASE ReceiveStops
  BY <1>15 DEF ReceiveStops
<1>16. CASE RoundOver
  BY <1>16 DEF RoundOver
<1>17. CASE End
  BY <1>17 DEF End
<1>18. CASE PrinterSends
  BY <1>18 DEF PrinterSends
<1>19. CASE LateAccept \/ DrainCtrl
  BY <1>19 DEF LateAccept, DrainCtrl
<1>20. CASE ReceiveStream
  BY <1>20 DEF ReceiveStream
<1>21. CASE ReceiveFails
  BY <1>21 DEF ReceiveFails
<1>22. CASE UNCHANGED tutkVars
  BY <1>22 DEF tutkVars
<1> QED
  BY <1>1, <1>2, <1>3, <1>4, <1>5, <1>6, <1>7, <1>8, <1>9, <1>10, <1>11, <1>12, <1>13, <1>14, <1>15, <1>16, <1>17, <1>18, <1>19, <1>20, <1>21, <1>22 DEF TutkNext, TutkWorker

LEMMA PathTypesStep ==
    ASSUME LinkTypes, TutkNext \/ UNCHANGED tutkVars
    PROVE  PathTypes'
<1> USE Bounds DEF Goto, IotcClose, Fault, LinkTypes, pathVars, tryVars, linkVars, PathTypes
<1>1. CASE Join
  BY <1>1 DEF Join
<1>2. CASE OpenReturns
  BY <1>2 DEF OpenReturns
<1>3. CASE NextFrame \/ SendCtrl
  BY <1>3 DEF NextFrame, SendCtrl
<1>4. CASE Leave \/ LeaveReturns
  BY <1>4 DEF Leave, LeaveReturns
<1>5. CASE RunRound
  BY <1>5 DEF RunRound
<1>6. CASE ConnectAttempt
  BY <1>6 DEF ConnectAttempt, ReadyOnConnect
<1>7. CASE LanSearch
  BY <1>7 DEF LanSearch
<1>8. CASE HeadStartOver
  BY <1>8 DEF HeadStartOver
<1>9. CASE RelayJoin
  BY <1>9 DEF RelayJoin, RelayGivesUp
<1>10. CASE Rendezvous
  BY <1>10 DEF Rendezvous, RelayGivesUp
<1>11. CASE OpenPath
  BY <1>11, AdoptedFacts DEF OpenPath
<1>12. CASE ServerHello \/ ServerFinished
  BY <1>12 DEF ServerHello, ServerFinished, HandshakeFails
<1>13. CASE Login
  BY <1>13 DEF Login
<1>14. CASE FlushFrames
  BY <1>14 DEF FlushFrames
<1>15. CASE ReceiveStops
  BY <1>15 DEF ReceiveStops
<1>16. CASE RoundOver
  BY <1>16 DEF RoundOver
<1>17. CASE End
  BY <1>17 DEF End
<1>18. CASE PrinterSends
  BY <1>18 DEF PrinterSends
<1>19. CASE LateAccept \/ DrainCtrl
  BY <1>19 DEF LateAccept, DrainCtrl
<1>20. CASE ReceiveStream
  BY <1>20 DEF ReceiveStream
<1>21. CASE ReceiveFails
  BY <1>21 DEF ReceiveFails
<1>22. CASE UNCHANGED tutkVars
  BY <1>22 DEF tutkVars
<1> QED
  BY <1>1, <1>2, <1>3, <1>4, <1>5, <1>6, <1>7, <1>8, <1>9, <1>10, <1>11, <1>12, <1>13, <1>14, <1>15, <1>16, <1>17, <1>18, <1>19, <1>20, <1>21, <1>22 DEF TutkNext, TutkWorker

LEMMA CountTypesStep ==
    ASSUME LinkTypes, TutkNext \/ UNCHANGED tutkVars
    PROVE  CountTypes'
<1> USE Bounds DEF Goto, IotcClose, Fault, LinkTypes, pathVars, tryVars, linkVars, CountTypes
<1>1. CASE Join
  BY <1>1 DEF Join
<1>2. CASE OpenReturns
  BY <1>2 DEF OpenReturns
<1>3. CASE NextFrame \/ SendCtrl
  BY <1>3 DEF NextFrame, SendCtrl
<1>4. CASE Leave \/ LeaveReturns
  BY <1>4 DEF Leave, LeaveReturns
<1>5. CASE RunRound
  BY <1>5 DEF RunRound
<1>6. CASE ConnectAttempt
  BY <1>6 DEF ConnectAttempt, ReadyOnConnect
<1>7. CASE LanSearch
  BY <1>7 DEF LanSearch
<1>8. CASE HeadStartOver
  BY <1>8 DEF HeadStartOver
<1>9. CASE RelayJoin
  BY <1>9 DEF RelayJoin, RelayGivesUp
<1>10. CASE Rendezvous
  BY <1>10 DEF Rendezvous, RelayGivesUp
<1>11. CASE OpenPath
  BY <1>11, AdoptedFacts DEF OpenPath
<1>12. CASE ServerHello \/ ServerFinished
  BY <1>12 DEF ServerHello, ServerFinished, HandshakeFails
<1>13. CASE Login
  BY <1>13 DEF Login
<1>14. CASE FlushFrames
  BY <1>14 DEF FlushFrames
<1>15. CASE ReceiveStops
  BY <1>15 DEF ReceiveStops
<1>16. CASE RoundOver
  BY <1>16 DEF RoundOver
<1>17. CASE End
  BY <1>17 DEF End
<1>18. CASE PrinterSends
  BY <1>18 DEF PrinterSends
<1>19. CASE LateAccept \/ DrainCtrl
  BY <1>19 DEF LateAccept, DrainCtrl
<1>20. CASE ReceiveStream
  BY <1>20 DEF ReceiveStream
<1>21. CASE ReceiveFails
  BY <1>21 DEF ReceiveFails
<1>22. CASE UNCHANGED tutkVars
  BY <1>22 DEF tutkVars
<1> QED
  BY <1>1, <1>2, <1>3, <1>4, <1>5, <1>6, <1>7, <1>8, <1>9, <1>10, <1>11, <1>12, <1>13, <1>14, <1>15, <1>16, <1>17, <1>18, <1>19, <1>20, <1>21, <1>22 DEF TutkNext, TutkWorker

LEMMA FlagTypesStep ==
    ASSUME LinkTypes, TutkNext \/ UNCHANGED tutkVars
    PROVE  FlagTypes'
<1> USE Bounds DEF Goto, IotcClose, Fault, LinkTypes, pathVars, tryVars, linkVars, FlagTypes
<1>1. CASE Join
  BY <1>1 DEF Join
<1>2. CASE OpenReturns
  BY <1>2 DEF OpenReturns
<1>3. CASE NextFrame \/ SendCtrl
  BY <1>3 DEF NextFrame, SendCtrl
<1>4. CASE Leave \/ LeaveReturns
  BY <1>4 DEF Leave, LeaveReturns
<1>5. CASE RunRound
  BY <1>5 DEF RunRound
<1>6. CASE ConnectAttempt
  BY <1>6 DEF ConnectAttempt, ReadyOnConnect
<1>7. CASE LanSearch
  BY <1>7 DEF LanSearch
<1>8. CASE HeadStartOver
  BY <1>8 DEF HeadStartOver
<1>9. CASE RelayJoin
  BY <1>9 DEF RelayJoin, RelayGivesUp
<1>10. CASE Rendezvous
  BY <1>10 DEF Rendezvous, RelayGivesUp
<1>11. CASE OpenPath
  BY <1>11, AdoptedFacts DEF OpenPath
<1>12. CASE ServerHello \/ ServerFinished
  BY <1>12 DEF ServerHello, ServerFinished, HandshakeFails
<1>13. CASE Login
  BY <1>13 DEF Login
<1>14. CASE FlushFrames
  BY <1>14 DEF FlushFrames
<1>15. CASE ReceiveStops
  BY <1>15 DEF ReceiveStops
<1>16. CASE RoundOver
  BY <1>16 DEF RoundOver
<1>17. CASE End
  BY <1>17 DEF End
<1>18. CASE PrinterSends
  BY <1>18 DEF PrinterSends
<1>19. CASE LateAccept \/ DrainCtrl
  BY <1>19 DEF LateAccept, DrainCtrl
<1>20. CASE ReceiveStream
  BY <1>20 DEF ReceiveStream
<1>21. CASE ReceiveFails
  BY <1>21 DEF ReceiveFails
<1>22. CASE UNCHANGED tutkVars
  BY <1>22 DEF tutkVars
<1> QED
  BY <1>1, <1>2, <1>3, <1>4, <1>5, <1>6, <1>7, <1>8, <1>9, <1>10, <1>11, <1>12, <1>13, <1>14, <1>15, <1>16, <1>17, <1>18, <1>19, <1>20, <1>21, <1>22 DEF TutkNext, TutkWorker

LEMMA LinkInvStep ==
    ASSUME LinkTypes, LinkInv, TutkNext \/ UNCHANGED tutkVars
    PROVE  LinkInv'
<1> USE Bounds DEF Goto, IotcClose, LinkInv, NoSocketLeak,
           pathVars, tryVars, linkVars
<1>1. CASE Join
  BY <1>1 DEF Join
<1>2. CASE OpenReturns
  BY <1>2 DEF OpenReturns
<1>3. CASE NextFrame \/ SendCtrl
  BY <1>3 DEF NextFrame, SendCtrl
<1>4. CASE Leave \/ LeaveReturns
  BY <1>4 DEF Leave, LeaveReturns
<1>5. CASE RunRound
  BY <1>5 DEF RunRound
<1>6. CASE ConnectAttempt
  BY <1>6 DEF ConnectAttempt, ReadyOnConnect
<1>7. CASE LanSearch
  BY <1>7 DEF LanSearch
<1>8. CASE HeadStartOver
  BY <1>8 DEF HeadStartOver
<1>9. CASE RelayJoin
  BY <1>9 DEF RelayJoin, RelayGivesUp
<1>10. CASE Rendezvous
  BY <1>10 DEF Rendezvous, RelayGivesUp
<1>11. CASE OpenPath
  BY <1>11, AdoptedFacts DEF OpenPath
<1>12. CASE ServerHello \/ ServerFinished
  BY <1>12 DEF ServerHello, ServerFinished, HandshakeFails
<1>13. CASE Login
  BY <1>13 DEF Login
<1>14. CASE FlushFrames
  BY <1>14 DEF FlushFrames
<1>15. CASE ReceiveStops
  BY <1>15 DEF ReceiveStops
<1>16. CASE RoundOver
  BY <1>16 DEF RoundOver
<1>17. CASE End
  BY <1>17 DEF End
<1>18. CASE PrinterSends
  BY <1>18 DEF PrinterSends
<1>19. CASE LateAccept \/ DrainCtrl
  BY <1>19 DEF LateAccept, DrainCtrl
<1>20. CASE ReceiveStream
  BY <1>20 DEF ReceiveStream
<1>21. CASE ReceiveFails
  BY <1>21 DEF ReceiveFails
<1>22. CASE UNCHANGED tutkVars
  BY <1>22 DEF tutkVars
<1> QED
  BY <1>1, <1>2, <1>3, <1>4, <1>5, <1>6, <1>7, <1>8, <1>9, <1>10, <1>11, <1>12, <1>13, <1>14, <1>15, <1>16, <1>17, <1>18, <1>19, <1>20, <1>21, <1>22 DEF TutkNext, TutkWorker

LEMMA AskedStep ==
    ASSUME LinkTypes, LinkInv, asked' > asked, TutkNext \/ UNCHANGED tutkVars
    PROVE  accepted
<1> USE Bounds DEF Goto, LinkTypes, CountTypes, LinkInv, pathVars, tryVars, linkVars
<1>1. CASE Join
  BY <1>1 DEF Join
<1>2. CASE OpenReturns
  BY <1>2 DEF OpenReturns
<1>3. CASE NextFrame \/ SendCtrl
  BY <1>3 DEF NextFrame, SendCtrl
<1>4. CASE Leave \/ LeaveReturns
  BY <1>4 DEF Leave, LeaveReturns
<1>5. CASE RunRound
  BY <1>5 DEF RunRound
<1>6. CASE ConnectAttempt
  BY <1>6 DEF ConnectAttempt, ReadyOnConnect
<1>7. CASE LanSearch
  BY <1>7 DEF LanSearch
<1>8. CASE HeadStartOver
  BY <1>8 DEF HeadStartOver
<1>9. CASE RelayJoin
  BY <1>9 DEF RelayJoin, RelayGivesUp
<1>10. CASE Rendezvous
  BY <1>10 DEF Rendezvous, RelayGivesUp
<1>11. CASE OpenPath
  BY <1>11, AdoptedFacts DEF OpenPath
<1>12. CASE ServerHello \/ ServerFinished
  BY <1>12 DEF ServerHello, ServerFinished, HandshakeFails
<1>13. CASE Login
  BY <1>13 DEF Login
<1>14. CASE FlushFrames
  BY <1>14 DEF FlushFrames
<1>15. CASE ReceiveStops
  BY <1>15 DEF ReceiveStops
<1>16. CASE RoundOver
  BY <1>16 DEF RoundOver
<1>17. CASE End
  BY <1>17 DEF End
<1>18. CASE PrinterSends
  BY <1>18 DEF PrinterSends
<1>19. CASE LateAccept \/ DrainCtrl
  BY <1>19 DEF LateAccept, DrainCtrl
<1>20. CASE ReceiveStream
  BY <1>20 DEF ReceiveStream
<1>21. CASE ReceiveFails
  BY <1>21 DEF ReceiveFails
<1>22. CASE UNCHANGED tutkVars
  BY <1>22 DEF tutkVars
<1> QED
  BY <1>1, <1>2, <1>3, <1>4, <1>5, <1>6, <1>7, <1>8, <1>9, <1>10, <1>11, <1>12, <1>13, <1>14, <1>15, <1>16, <1>17, <1>18, <1>19, <1>20, <1>21, <1>22 DEF TutkNext, TutkWorker

LEMMA FramesFacts ==
    /\ FrameOf \in [Slices -> Frames] /\ Frames \subseteq Nat \ {0} /\ 1 \in Frames
    /\ \A f \in Frames : SlicesOf(f) # {} /\ SlicesOf(f) \subseteq Slices
    /\ \A s \in Slices : s \in SlicesOf(FrameOf[s])
    /\ \A f \in Frames : 1..f \subseteq Frames
    /\ \A s, t \in Slices : FrameOf[s] < FrameOf[t] => s < t
    /\ Slices \subseteq Nat \ {0}
<1>1. Slices = 1..Len(FrameOf) /\ Len(FrameOf) \in Nat \ {0}
  BY Sizes DEF Slices
<1>2. FrameOf \in [Slices -> Nat]
  BY <1>1, Sizes, LenProperties
<1>3. FrameOf \in [Slices -> Frames] /\ Frames \subseteq Nat \ {0}
  BY <1>2, StreamAssumption DEF Frames
<1>4. \A f \in Frames : SlicesOf(f) # {} /\ SlicesOf(f) \subseteq Slices
  BY DEF Frames, SlicesOf
<1>5. \A s \in Slices : s \in SlicesOf(FrameOf[s])
  BY DEF SlicesOf
<1>6. \A f \in Frames : 1..f \subseteq Frames
  BY StreamAssumption DEF Frames
<1>7. 1 \in Frames
  BY StreamAssumption, TutkAssumption
<1>8. \A s, t \in Slices : FrameOf[s] < FrameOf[t] => s < t
  <2> TAKE s, t \in Slices
  <2>1. s \in Nat /\ t \in Nat /\ FrameOf[s] \in Nat /\ FrameOf[t] \in Nat
    BY <1>1, <1>2
  <2>2. t <= s => FrameOf[t] <= FrameOf[s]
    BY StreamAssumption
  <2> QED
    BY <2>1, <2>2
<1> QED
  BY <1>1, <1>3, <1>4, <1>5, <1>6, <1>7, <1>8

(* Counting: a group of which no more than M packets are lost and all others are handled is
   full. *)
LEMMA HaveFinite ==
    ASSUME StreamTypes
    PROVE  /\ \A g \in Groups : have[g] \subseteq Indexes /\ IsFiniteSet(have[g])
                                /\ Cardinality(have[g]) \in Nat
           /\ \A g : IsFiniteSet(Lost(g)) /\ Cardinality(Lost(g)) \in Nat
           /\ \A g : Lost(g) \subseteq Packets
<1>1. \A g \in Groups : have[g] \subseteq Indexes
  BY DEF StreamTypes, Indexes
<1>2. \A g : Lost(g) \subseteq Packets
  BY DEF Lost, StreamTypes
<1>3. \A g \in Groups : IsFiniteSet(have[g])
  BY <1>1, PacketSets, FS_Subset
<1>4. \A g : IsFiniteSet(Lost(g))
  BY <1>2, PacketSets, FS_Subset
<1> QED
  BY <1>1, <1>2, <1>3, <1>4, FS_CardinalityType

LEMMA Counted ==
    ASSUME StreamTypes, NEW g \in Groups, Cardinality(Lost(g)) <= M,
           \A i \in Indexes : <<g, i>> \in gone \/ Handled(<<g, i>>)
    PROVE  Full(g)
<1> SUFFICES ASSUME ~Full(g) PROVE FALSE
  OBVIOUS
<1> DEFINE L == {i \in Indexes : <<g, i>> \in gone}
           number == [i \in L |-> <<g, i>>]
<1>1. IsFiniteSet(Lost(g)) /\ IsFiniteSet(have[g]) /\ Cardinality(have[g]) \in Nat
      /\ Cardinality(Lost(g)) \in Nat
  BY HaveFinite
<1>2. number \in Injection(L, Lost(g))
  <2>1. number \in [L -> Lost(g)]
    BY DEF Lost
  <2>2. \A i, j \in L : number[i] = number[j] => i = j
    OBVIOUS
  <2> QED
    BY <2>1, <2>2, Fun_IsInj
<1>3. IsFiniteSet(L) /\ Cardinality(L) <= Cardinality(Lost(g)) /\ Cardinality(L) \in Nat
  BY <1>1, <1>2, FS_Injection, FS_CardinalityType
<1>4. Indexes \subseteq have[g] \cup L
  BY DEF Handled
<1> HIDE DEF L
<1>5. /\ IsFiniteSet(have[g] \cup L)
      /\ Cardinality(have[g] \cup L) <= Cardinality(have[g]) + Cardinality(L)
  <2>1. Cardinality(have[g] \cap L) \in Nat
    BY <1>1, FS_Intersection, FS_CardinalityType
  <2>2. /\ IsFiniteSet(have[g] \cup L)
        /\ Cardinality(have[g] \cup L)
             = Cardinality(have[g]) + Cardinality(L) - Cardinality(have[g] \cap L)
    BY <1>1, <1>3, FS_Union
  <2> QED
    BY <1>1, <1>3, <2>1, <2>2
<1>6. Cardinality(Indexes) <= Cardinality(have[g] \cup L)
  BY <1>4, <1>5, FS_Subset
<1>7. Cardinality(have[g]) < K /\ Cardinality(Indexes) = K + M
  BY <1>1, PacketSets, Sizes DEF Full, Width
<1>8. Cardinality(have[g] \cup L) \in Nat
  BY <1>5, FS_CardinalityType
<1> QED
  BY <1>1, <1>3, <1>5, <1>6, <1>7, <1>8, Sizes

LEMMA SentBefore ==
    ASSUME NetworkInOrder, StreamTypes, NEW g \in Groups, NEW h \in Groups,
           NEW i \in Indexes, NEW j \in have[h], g < h \/ (g = h /\ i <= j)
    PROVE  <<g, i>> \in gone \/ Handled(<<g, i>>)
<1>1. j \in Indexes /\ Groups \subseteq Nat /\ Indexes \subseteq Nat
  BY HaveFinite, Sizes
<1>2. CASE g = h /\ i = j
  BY <1>2 DEF Handled
<1>3. CASE Before(<<g, i>>, <<h, j>>)
  <2>1. <<h, j>> \in Sent /\ \A n \in 1..Len(air) : ~Before(air[n], <<h, j>>)
    BY DEF NetworkInOrder
  <2>2. PICK m \in 0..at - 1 : <<h, j>> = PacketNo(m)
    BY <2>1 DEF Sent
  <2>3. PICK n \in 0..Cardinality(Packets) - 1 : <<g, i>> = PacketNo(n)
    BY PacketHasNo
  <2>4. at \in Nat /\ m \in Nat /\ n \in Nat
    BY PacketSets, Sizes, FS_CardinalityType DEF StreamTypes
  <2>5. ~Before(<<h, j>>, <<g, i>>)
    BY <1>1, <1>3 DEF Before
  <2>6. n <= m
    BY <2>2, <2>3, <2>4, <2>5, PacketsInOrder
  <2>7. <<g, i>> \in Sent
    BY <2>3, <2>4, <2>6 DEF Sent
  <2>8. ~ \E k \in 1..Len(air) : air[k] = <<g, i>>
    BY <1>3, <2>1
  <2> QED
    BY <2>7, <2>8 DEF NetworkInOrder
<1> QED
  BY <1>1, <1>2, <1>3 DEF Before

LEMMA PassedIsFull ==
    ASSUME NetworkInOrder, Repairable, StreamTypes, NEW g \in Groups,
           (\E h \in Groups : g < h /\ have[h] # {}) \/ K + M - 1 \in have[g]
    PROVE  Full(g)
<1>1. \A i \in Indexes : i <= K + M - 1
  BY Sizes DEF Indexes
<1>2. ASSUME NEW i \in Indexes PROVE <<g, i>> \in gone \/ Handled(<<g, i>>)
  BY <1>1, SentBefore
<1> QED
  BY <1>2, Counted DEF Repairable

LEMMA HoleFound ==
    ASSUME NetworkInOrder, GroupsInOrder, Repairable, StreamTypes,
           NEW s \in Slices, NEW t \in Slices, s < t, Brought(t), ~Brought(s)
    PROVE  /\ GroupOf(s) = GroupOf(t) /\ ~Full(GroupOf(s)) /\ IndexOf(s) < IndexOf(t)
           /\ IndexOf(t) \in have[GroupOf(t)] /\ HasHoles
<1> DEFINE g == GroupOf(s)
           h == GroupOf(t)
<1>1. /\ g \in Groups /\ h \in Groups /\ IndexOf(s) \in 0..K - 1 /\ IndexOf(t) \in 0..K - 1
      /\ g < h \/ (g = h /\ IndexOf(s) < IndexOf(t))
      /\ Groups \subseteq Nat
  BY SliceFacts, Sizes
<1>2. ~Full(g) /\ IndexOf(s) \notin have[g]
  BY DEF Brought
<1>3. have[h] # {}
  <2>1. Full(h) => have[h] # {}
    <3>1. have[h] = {} => Cardinality(have[h]) = 0
      BY FS_EmptySet
    <3> QED
      BY <3>1, Sizes DEF Full
  <2> QED
    BY <2>1 DEF Brought
<1>4. ~(g < h)
  BY <1>1, <1>2, <1>3, PassedIsFull
<1>5. g = h /\ IndexOf(s) < IndexOf(t)
  BY <1>1, <1>4
<1>6. IndexOf(t) \in have[g]
  BY <1>2, <1>5 DEF Brought
<1>7. g \notin closed
  <2>1. K + M - 1 \notin have[g]
    BY <1>1, <1>2, PassedIsFull
  <2>2. ~(have[g] # {} /\ g < newest)
    <3> SUFFICES ASSUME have[g] # {}, g < newest PROVE FALSE
      OBVIOUS
    <3>1. newest # NoGroup
      BY <1>1 DEF GroupsInOrder
    <3>2. newest \in Groups /\ have[newest] # {}
      BY <3>1 DEF GroupsInOrder, StreamTypes, NoGroup
    <3> QED
      BY <1>1, <1>2, <3>2, PassedIsFull
  <2> QED
    BY <1>1, <1>2, <2>1, <2>2 DEF GroupsInOrder
<1>8. HasHoles
  <2>1. IndexOf(t) \in DataOf(have[g]) /\ IndexOf(s) \in 0..IndexOf(t)
    BY <1>1, <1>5, <1>6, Sizes DEF DataOf
  <2> QED
    BY <1>1, <1>2, <1>7, <2>1 DEF HasHoles
<1> QED
  BY <1>2, <1>5, <1>6, <1>8

LEMMA AllThere ==
    ASSUME NetworkInOrder, Repairable, StreamTypes, at = Cardinality(Packets), air = <<>>
    PROVE  \A s \in Slices : Brought(s)
<1>1. ASSUME NEW g \in Groups PROVE Full(g)
  <2>1. ASSUME NEW i \in Indexes PROVE <<g, i>> \in gone \/ Handled(<<g, i>>)
    <3>1. <<g, i>> \in Sent
      BY PacketHasNo DEF Sent
    <3> QED
      BY <3>1 DEF NetworkInOrder
  <2> QED
    BY <2>1, Counted DEF Repairable
<1> QED
  BY <1>1, SliceFacts DEF Brought

(* The first frame has more slices than a group may lose, so one of them arrives before
   any slice of a later frame does. *)
LEMMA FirstFound ==
    ASSUME NetworkInOrder, GroupsInOrder, Repairable, StreamTypes,
           \A s \in SlicesOf(1) : ~Brought(s),
           NEW t \in Slices, Brought(t)
    PROVE  Cardinality(SlicesOf(1)) <= M
<1>0. FrameOf[t] # 1 /\ FrameOf[t] \in Nat \ {0}
  BY FramesFacts
<1>1. \A s \in SlicesOf(1) : s \in Slices /\ s < t
  BY <1>0, FramesFacts DEF SlicesOf
<1>2. \A s \in SlicesOf(1) : /\ GroupOf(s) = GroupOf(t) /\ ~Full(GroupOf(s))
                             /\ IndexOf(s) < IndexOf(t) /\ IndexOf(t) \in have[GroupOf(t)]
  BY <1>1, HoleFound
<1> DEFINE g == GroupOf(t)
           number == [s \in SlicesOf(1) |-> <<g, IndexOf(s)>>]
<1>3. ASSUME NEW s \in SlicesOf(1) PROVE <<g, IndexOf(s)>> \in gone
  <2>1. g \in Groups /\ IndexOf(s) \in Indexes /\ IndexOf(t) \in Indexes /\ Indexes \subseteq Nat
    BY <1>1, SliceFacts, Sizes
  <2>b. IndexOf(s) < IndexOf(t) /\ IndexOf(t) \in have[g]
    BY <1>2
  <2>c. IndexOf(s) \in Nat /\ IndexOf(t) \in Nat
    BY <2>1
  <2>a. IndexOf(s) <= IndexOf(t) /\ IndexOf(t) \in have[g]
    BY <2>b, <2>c
  <2>2. <<g, IndexOf(s)>> \in gone \/ Handled(<<g, IndexOf(s)>>)
    BY <2>1, <2>a, SentBefore
  <2>3. ~Handled(<<g, IndexOf(s)>>)
    BY <1>2 DEF Handled, Brought
  <2> QED
    BY <2>2, <2>3
<1>4. number \in Injection(SlicesOf(1), Lost(g))
  <2>1. number \in [SlicesOf(1) -> Lost(g)]
    BY <1>3 DEF Lost
  <2>2. ASSUME NEW r \in SlicesOf(1), NEW s \in SlicesOf(1), number[r] = number[s]
        PROVE  r = s
    <3>1. IndexOf(r) = IndexOf(s) /\ GroupOf(r) = GroupOf(s)
      BY <1>2, <2>2
    <3>2. SliceOf(GroupOf(r), IndexOf(r)) = r /\ SliceOf(GroupOf(s), IndexOf(s)) = s
      BY <1>1, SliceFacts
    <3> QED
      BY <3>1, <3>2
  <2> QED
    BY <2>1, <2>2, Fun_IsInj
<1>5. g \in Groups /\ IsFiniteSet(Lost(g)) /\ Cardinality(Lost(g)) <= M
      /\ Cardinality(Lost(g)) \in Nat
  BY SliceFacts, HaveFinite DEF Repairable
<1>6. Cardinality(SlicesOf(1)) <= Cardinality(Lost(g)) /\ IsFiniteSet(SlicesOf(1))
  BY <1>4, <1>5, FS_Injection
<1> QED
  BY <1>5, <1>6, FS_CardinalityType, Sizes

(* The types of the stream. *)
LEMMA Without ==
    ASSUME NEW S, NEW s \in Seq(S), NEW n \in 1..Len(s), NEW w,
           w = SubSeq(s, 1, n - 1) \o SubSeq(s, n + 1, Len(s))
    PROVE  /\ w \in Seq(S)
           /\ n = 1 => Len(w) = Len(s) - 1 /\ \A i \in 1..Len(w) : w[i] = s[i + 1]
<1> DEFINE u == SubSeq(s, 1, n - 1)
           v == SubSeq(s, n + 1, Len(s))
<1>1. Len(s) \in Nat /\ \A i \in 1..Len(s) : s[i] \in S
  BY LenProperties, ElementOfSeq
<1>2. u \in Seq(S) /\ Len(u) = n - 1
  <2>1. 1 \in Int /\ n - 1 \in Int /\ \A i \in 1..n - 1 : s[i] \in S
    BY <1>1
  <2>2. u \in Seq(S) /\ Len(u) = IF 1 <= n - 1 THEN (n - 1) - 1 + 1 ELSE 0
    BY <2>1, SubSeqProperties
  <2> QED
    BY <2>2
<1>3. v \in Seq(S) /\ Len(v) = Len(s) - n /\ \A i \in 1..Len(v) : v[i] = s[n + i]
  <2>1. n + 1 \in Int /\ Len(s) \in Int /\ \A i \in n + 1..Len(s) : s[i] \in S
    BY <1>1
  <2>2. /\ v \in Seq(S) /\ Len(v) = IF n + 1 <= Len(s) THEN Len(s) - (n + 1) + 1 ELSE 0
        /\ \A i \in 1..Len(s) - (n + 1) + 1 : v[i] = s[(n + 1) + i - 1]
    BY <2>1, SubSeqProperties
  <2>3. Len(v) = Len(s) - n
    BY <1>1, <2>2
  <2>4. ASSUME NEW i \in 1..Len(v) PROVE v[i] = s[n + i]
    <3>1. i \in 1..Len(s) - (n + 1) + 1 /\ (n + 1) + i - 1 = n + i
      BY <1>1, <2>3
    <3> QED
      BY <2>2, <3>1
  <2> QED
    BY <2>2, <2>3, <2>4
<1> HIDE DEF u, v
<1>4. /\ w \in Seq(S) /\ Len(w) = Len(u) + Len(v)
      /\ \A i \in 1..Len(u) + Len(v) : w[i] = IF i <= Len(u) THEN u[i] ELSE v[i - Len(u)]
  BY <1>2, <1>3, ConcatProperties DEF u, v
<1>5. ASSUME n = 1 PROVE Len(w) = Len(s) - 1 /\ \A i \in 1..Len(w) : w[i] = s[i + 1]
  <2>1. Len(u) = 0 /\ Len(v) = Len(s) - 1 /\ Len(w) = Len(v)
    BY <1>1, <1>2, <1>3, <1>4, <1>5
  <2>2. ASSUME NEW i \in 1..Len(w) PROVE w[i] = s[i + 1]
    <3>0. i \in Int /\ 1 <= i
      OBVIOUS
    <3>a. Len(u) + Len(v) = Len(w)
      BY <1>4
    <3>b. w[i] = IF i <= Len(u) THEN u[i] ELSE v[i - Len(u)]
      BY <1>4, <3>a
    <3>c. ~(i <= Len(u)) /\ i - Len(u) = i
      BY <2>1, <3>0
    <3>1. w[i] = v[i]
      BY <3>b, <3>c
    <3> QED
      BY <1>3, <1>5, <2>1, <3>1
  <2> QED
    BY <2>1, <2>2
<1> QED
  BY <1>4, <1>5

Follows(rest) ==
    \/ rest = air
    \/ Len(rest) = Len(air) - 1 /\ \A i \in 1..Len(rest) : rest[i] = air[i + 1]

LEMMA Received ==
    ASSUME StreamTypes, ReceiveStream
    PROVE  /\ UNCHANGED <<at, gone, framed, joinMode>>
           /\ \E n \in 1..Len(air) : \E rest \in Seq(Packets) :
                /\ IF framed THEN Framed(air[n], rest) ELSE Legacy(air[n], rest)
                /\ calm' = (calm /\ n = 1)
                /\ n = 1 => Follows(rest)
<1>1. UNCHANGED <<at, gone, framed, joinMode>>
  BY DEF ReceiveStream, linkVars
<1>2. PICK n \in 1..Len(air) :
        LET without == SubSeq(air, 1, n - 1) \o SubSeq(air, n + 1, Len(air)) IN
        /\ \/ (IF framed THEN Framed(air[n], without) ELSE Legacy(air[n], without))
              /\ UNCHANGED faults
           \/ (IF framed THEN Framed(air[n], air) ELSE Legacy(air[n], air)) /\ Fault
        /\ calm' = (calm /\ n = 1)
  BY DEF ReceiveStream
<1> DEFINE w == SubSeq(air, 1, n - 1) \o SubSeq(air, n + 1, Len(air))
<1> HIDE DEF w
<1>3. air \in Seq(Packets)
  BY DEF StreamTypes
<1>4. w \in Seq(Packets) /\ (n = 1 => Len(w) = Len(air) - 1 /\ \A i \in 1..Len(w) : w[i] = air[i + 1])
  BY <1>3, Without DEF w
<1>5. CASE IF framed THEN Framed(air[n], w) ELSE Legacy(air[n], w)
  BY <1>1, <1>2, <1>4, <1>5 DEF Follows
<1>6. CASE IF framed THEN Framed(air[n], air) ELSE Legacy(air[n], air)
  BY <1>1, <1>2, <1>3, <1>6 DEF Follows
<1> QED
  BY <1>2, <1>5, <1>6 DEF w

LEMMA PushTypes ==
    ASSUME StreamTypes, NEW f \in Frames, Push(f)
    PROVE  emitted' \in Seq(Frames) /\ queue' \in Seq(Frames) /\ Len(queue') <= MaxQueued
<1>1. emitted' = Append(emitted, f) /\ emitted' \in Seq(Frames)
  BY AppendProperties DEF Push, StreamTypes
<1>2. queue \in Seq(Frames) /\ Len(queue) \in Nat /\ Len(queue) <= MaxQueued /\ MaxQueued \in Nat \ {0}
  BY Bounds, LenProperties DEF StreamTypes
<1>3. CASE joinMode = "Ctrl"
  BY <1>1, <1>2, <1>3 DEF Push
<1>4. CASE joinMode # "Ctrl"
  <2> DEFINE q == IF Len(queue) >= MaxQueued THEN Tail(queue) ELSE queue
  <2>1. q \in Seq(Frames) /\ Len(q) + 1 <= MaxQueued /\ Len(q) \in Nat
    <3>1. CASE Len(queue) >= MaxQueued
      <4>1. queue # <<>>
        BY <1>2, <3>1, EmptySeq
      <4>2. Tail(queue) \in Seq(Frames) /\ Len(Tail(queue)) = Len(queue) - 1
        BY <1>2, <4>1, HeadTailProperties
      <4> QED
        BY <1>2, <3>1, <4>2, LenProperties
    <3>2. CASE ~(Len(queue) >= MaxQueued)
      BY <1>2, <3>2
    <3> QED
      BY <3>1, <3>2
  <2>2. queue' = Append(q, f)
    BY <1>4 DEF Push
  <2> HIDE DEF q
  <2>3. queue' \in Seq(Frames) /\ Len(queue') = Len(q) + 1
    BY <2>1, <2>2, AppendProperties
  <2> QED
    BY <1>1, <2>1, <2>3
<1> QED
  BY <1>3, <1>4

LEMMA FirstFacts ==
    ASSUME ReadyFrames # {}
    PROVE  First \in ReadyFrames /\ First \in Frames /\ \A h \in ReadyFrames : First <= h
<1>1. ReadyFrames \in SUBSET Nat /\ ReadyFrames \subseteq Frames
  BY FramesFacts DEF ReadyFrames
<1>2. \E f \in ReadyFrames : \A h \in ReadyFrames : f <= h
  BY <1>1, LeastIn
<1> QED
  BY <1>1, <1>2 DEF First

LEMMA FramedTypes ==
    ASSUME StreamTypes, NEW p \in Packets, NEW rest \in Seq(Packets), Framed(p, rest),
           calm' \in BOOLEAN, UNCHANGED <<at, gone>>
    PROVE  StreamTypes'
<1> DEFINE g == p[1]
           i == p[2]
           blocks == have[g] \cup {i}
<1>1. g \in Groups /\ i \in 0..K + M - 1
  BY DEF Packets
<1>2. /\ air' = rest /\ flushing' = TRUE /\ UNCHANGED <<next, needKey, emitted, queue>>
      /\ \/ UNCHANGED <<have, closed, newest, pending>>
         \/ /\ newest' = IF newest = NoGroup \/ g > newest THEN g ELSE newest
            /\ IF Takes(g, i)
               THEN /\ have' = [have EXCEPT ![g] = blocks]
                    /\ closed' = ClosedBy(g) \cup (IF Closes(g, i) THEN {g} ELSE {})
                    /\ pending' = Queued(Brings(blocks, i, g))
               ELSE closed' = ClosedBy(g) /\ UNCHANGED <<have, pending>>
  BY DEF Framed, fecVars
<1>3. newest' \in Groups \cup {Cardinality(Groups)}
  BY <1>1, <1>2 DEF StreamTypes
<1>4. have' \in [Groups -> SUBSET (0..K + M - 1)]
  BY <1>1, <1>2 DEF StreamTypes
<1>5. closed' \subseteq Groups
  <2>1. ClosedBy(g) \subseteq Groups
    BY DEF ClosedBy, StreamTypes
  <2> QED
    BY <1>1, <1>2, <2>1 DEF StreamTypes
<1>6. \A new : Queued(new) \in [Frames -> SUBSET Slices]
  BY FramesFacts DEF Queued, StreamTypes
<1>7. pending' \in [Frames -> SUBSET Slices]
  BY <1>2, <1>6 DEF StreamTypes
<1> QED
  BY <1>2, <1>3, <1>4, <1>5, <1>7 DEF StreamTypes

LEMMA LegacyTypes ==
    ASSUME StreamTypes, NEW p \in Packets, NEW rest \in Seq(Packets), Legacy(p, rest),
           calm' \in BOOLEAN, UNCHANGED <<at, gone>>
    PROVE  StreamTypes'
<1> DEFINE s == SliceOf(p[1], p[2])
           f == FrameOf[s]
           all == pending[f] \cup {s}
<1>1. p[1] \in Groups /\ p[2] \in Indexes /\ p[2] \in Nat
  BY Sizes DEF Packets, Indexes
<1>2. air' = rest /\ UNCHANGED <<have, closed, newest, next, needKey, flushing>>
  BY DEF Legacy, fecVars
<1>3. CASE p[2] >= K
  <2>1. UNCHANGED <<pending, emitted, queue>>
    BY <1>3 DEF Legacy
  <2> QED
    BY <1>2, <2>1 DEF StreamTypes
<1>4. CASE ~(p[2] >= K)
  <2>1. p[2] \in 0..K - 1
    BY <1>1, <1>4, Sizes
  <2>2. s \in Slices /\ f \in Frames
    BY <1>1, <2>1, SliceFacts, FramesFacts
  <2>3. /\ pending' = [h \in Frames |-> IF h = f /\ all # SlicesOf(f) THEN all ELSE {}]
        /\ IF all = SlicesOf(f) THEN Push(f) ELSE UNCHANGED <<emitted, queue>>
    BY <1>4 DEF Legacy
  <2>4. all \subseteq Slices
    BY <2>2 DEF StreamTypes
  <2> HIDE DEF all, f, s
  <2>5. pending' \in [Frames -> SUBSET Slices]
    BY <2>2, <2>3, <2>4
  <2>6. emitted' \in Seq(Frames) /\ queue' \in Seq(Frames) /\ Len(queue') <= MaxQueued
    BY <2>2, <2>3, PushTypes DEF StreamTypes
  <2> QED
    BY <1>2, <2>5, <2>6 DEF StreamTypes
<1> QED
  BY <1>3, <1>4

(* What a pass of flush does. *)
Gap == next # 0 /\ First # next
Whole == pending[First] = SlicesOf(First)

Delivers ==
    /\ ReadyFrames # {} /\ Whole /\ ~Gap
    /\ next' = First + 1 /\ pending' = [pending EXCEPT ![First] = {}]
    /\ IF Shows(First) THEN needKey' = FALSE /\ Push(First)
                       ELSE UNCHANGED <<needKey, emitted, queue>>
    /\ UNCHANGED <<flushing, calm>>

Stops ==
    /\ ReadyFrames = {} \/ ~(Whole /\ ~Gap)
    /\ flushing' = FALSE /\ UNCHANGED <<pending, next, needKey, emitted, queue, calm>>

Skips ==
    /\ ReadyFrames # {} /\ ~(Whole /\ ~Gap) /\ (Gap \/ Cardinality(ReadyFrames) > 1)
    /\ needKey' = TRUE /\ (calm' => calm /\ ~HasHoles) /\ calm' \in BOOLEAN
    /\ next' = IF Gap THEN First ELSE First + 1
    /\ pending' = IF Gap THEN pending ELSE [pending EXCEPT ![First] = {}]
    /\ UNCHANGED <<flushing, emitted, queue>>

LEMMA Flushed ==
    ASSUME FlushFrames, StreamTypes
    PROVE  /\ UNCHANGED <<netVars, fecVars, framed, joinMode>>
           /\ Delivers \/ Stops \/ Skips
<1>1. UNCHANGED <<netVars, fecVars, framed, joinMode>>
  BY DEF FlushFrames, linkVars
<1>2. ASSUME ReadyFrames = {},
             flushing' = FALSE /\ UNCHANGED <<pending, next, needKey, emitted, queue, calm>>
      PROVE  Delivers \/ Stops \/ Skips
  BY <1>2 DEF Stops
<1>3. ASSUME ReadyFrames # {}, NEW expired \in BOOLEAN,
             CASE Whole /\ ~Gap ->
                      /\ next' = First + 1 /\ pending' = [pending EXCEPT ![First] = {}]
                      /\ IF Shows(First) THEN needKey' = FALSE /\ Push(First)
                                         ELSE UNCHANGED <<needKey, emitted, queue>>
                      /\ UNCHANGED <<flushing, calm>>
               [] ~(Whole /\ ~Gap) /\ (~(Gap \/ Cardinality(ReadyFrames) > 1)
                                         \/ (HasHoles /\ ~expired)) ->
                      /\ flushing' = FALSE
                      /\ UNCHANGED <<pending, next, needKey, emitted, queue, calm>>
               [] OTHER ->
                      /\ needKey' = TRUE /\ calm' = (calm /\ ~(HasHoles /\ expired))
                      /\ next' = IF Gap THEN First ELSE First + 1
                      /\ pending' = IF Gap THEN pending
                                    ELSE [pending EXCEPT ![First] = {}]
                      /\ UNCHANGED <<flushing, emitted, queue>>
      PROVE  Delivers \/ Stops \/ Skips
  <2>1. CASE Whole /\ ~Gap
    BY <1>3, <2>1 DEF Delivers
  <2>2. CASE ~(Whole /\ ~Gap) /\ (~(Gap \/ Cardinality(ReadyFrames) > 1) \/ (HasHoles /\ ~expired))
    BY <1>3, <2>2 DEF Stops
  <2>3. CASE ~(Whole /\ ~Gap) /\ ~(~(Gap \/ Cardinality(ReadyFrames) > 1) \/ (HasHoles /\ ~expired))
    BY <1>3, <2>3 DEF Skips, StreamTypes
  <2> QED
    BY <2>1, <2>2, <2>3
<1> QED
  BY <1>1, <1>2, <1>3 DEF FlushFrames, Whole, Gap

LEMMA FlushTypes ==
    ASSUME StreamTypes, FlushFrames
    PROVE  StreamTypes'
<1>1. UNCHANGED <<air, at, gone, have, closed, newest>> /\ (Delivers \/ Stops \/ Skips)
  BY Flushed DEF netVars, fecVars
<1>2. CASE Stops
  BY <1>1, <1>2 DEF Stops, StreamTypes
<1>3. CASE Delivers
  <2>1. First \in Frames
    BY <1>3, FirstFacts DEF Delivers
  <2>2. emitted' \in Seq(Frames) /\ queue' \in Seq(Frames) /\ Len(queue') <= MaxQueued
        /\ needKey' \in BOOLEAN
    BY <1>3, <2>1, PushTypes DEF Delivers, StreamTypes
  <2> QED
    BY <1>1, <1>3, <2>1, <2>2 DEF Delivers, StreamTypes
<1>4. CASE Skips
  <2>1. First \in Frames
    BY <1>4, FirstFacts DEF Skips
  <2> QED
    BY <1>1, <1>4, <2>1 DEF Skips, StreamTypes
<1> QED
  BY <1>1, <1>2, <1>3, <1>4

LEMMA FreshTypes ==
    ASSUME StreamTypes, FreshReceive, queue' = queue
    PROVE  StreamTypes'
<1>1. Cardinality(Packets) \in Nat
  BY PacketSets, FS_CardinalityType
<1> QED
  <2>1. needKey' \in BOOLEAN /\ flushing' \in BOOLEAN /\ calm' \in BOOLEAN
    BY DEF FreshReceive
  <2>2. air' \in Seq(Packets) /\ emitted' \in Seq(Frames)
    BY DEF FreshReceive
  <2>3. at' \in 0..Cardinality(Packets) /\ gone' \subseteq Packets
    BY <1>1 DEF FreshReceive
  <2>4. /\ have' \in [Groups -> SUBSET (0..K + M - 1)] /\ closed' \subseteq Groups
        /\ newest' \in Groups \cup {Cardinality(Groups)}
    BY DEF FreshReceive, NoGroup
  <2>5. pending' \in [Frames -> SUBSET Slices] /\ next' = 0
    BY DEF FreshReceive
  <2> QED
    BY <2>1, <2>2, <2>3, <2>4, <2>5 DEF StreamTypes

LEMMA PrinterFacts ==
    ASSUME PrinterSends, StreamTypes
    PROVE  /\ UNCHANGED <<fecVars, frameVars, queue, framed, joinMode>> /\ at' = at + 1 /\ at' \in 0..Cardinality(Packets)
           /\ at \in Nat
           /\ PacketNo(at) \in Packets
           /\ \/ air' = Append(air, PacketNo(at)) /\ gone' = gone
              \/ gone' = gone \cup {PacketNo(at)} /\ air' = air
<1>1. Cardinality(Packets) \in Nat
  BY PacketSets, FS_CardinalityType
<1>2. at \in 0..Cardinality(Packets) - 1 /\ at \in Nat
  BY <1>1 DEF PrinterSends, StreamTypes
<1> QED
  BY <1>1, <1>2, PacketInSet DEF PrinterSends, linkVars

LEMMA StreamTypesStep ==
    ASSUME StreamTypes, LinkTypes, LinkInv, TypeOK, TutkNext \/ UNCHANGED tutkVars
    PROVE  StreamTypes'
<1>1. CASE Quiet
  BY <1>1 DEF Quiet, StreamTypes, streamVars, netVars, fecVars, frameVars
<1>2. CASE NextFrame
  <2>1. queue' \in Seq(Frames) /\ Len(queue') <= MaxQueued
    BY <1>2, HeadTailProperties, LenProperties, Bounds DEF NextFrame, StreamTypes
  <2> QED
    BY <1>2, <2>1 DEF NextFrame, StreamTypes, streamVars, netVars, fecVars, frameVars
<1>3. CASE LeaveReturns
  BY <1>3, Bounds DEF LeaveReturns, StreamTypes, streamVars, netVars, fecVars, frameVars
<1>4. CASE PrinterSends
  <2>0. air \in Seq(Packets) /\ PacketNo(at) \in Packets /\ gone \subseteq Packets
    BY <1>4, PrinterFacts DEF StreamTypes
  <2>1. air' \in Seq(Packets) /\ gone' \subseteq Packets
    <3>1. Append(air, PacketNo(at)) \in Seq(Packets)
      BY <2>0, AppendProperties
    <3>2. gone \cup {PacketNo(at)} \subseteq Packets
      BY <2>0
    <3>3. \/ air' = Append(air, PacketNo(at)) /\ gone' = gone
          \/ gone' = gone \cup {PacketNo(at)} /\ air' = air
      BY <1>4, PrinterFacts
    <3> QED
      BY <2>0, <3>1, <3>2, <3>3
  <2> QED
    BY <1>4, <2>1, PrinterFacts DEF StreamTypes, fecVars, frameVars
<1>5. CASE ReceiveStream
  <2>1. PICK n \in 1..Len(air), rest \in Seq(Packets) :
          /\ IF framed THEN Framed(air[n], rest) ELSE Legacy(air[n], rest)
          /\ calm' = (calm /\ n = 1)
    BY <1>5, Received
  <2>2. air[n] \in Packets /\ calm' \in BOOLEAN
    BY <2>1, ElementOfSeq DEF StreamTypes
  <2> QED
    BY <1>5, <2>1, <2>2, Received, FramedTypes, LegacyTypes
<1>6. CASE FlushFrames
  BY <1>6, FlushTypes
<1>7. CASE RoundOver \/ End
  BY <1>7, FreshTypes DEF RoundOver, End
<1> QED
  BY <1>1, <1>2, <1>3, <1>4, <1>5, <1>6, <1>7, QuietSteps

(* The frame queue holds what was brought. *)
LEMMA BringsAll ==
    ASSUME StreamTypes, HoldsBrought, NEW g \in Groups, NEW i \in Indexes, Takes(g, i),
           have' = [have EXCEPT ![g] = have[g] \cup {i}], NEW s \in Slices
    PROVE  Brought(s)' <=> Brought(s) \/ s \in Brings(have[g] \cup {i}, i, g)
<1> DEFINE blocks == have[g] \cup {i}
           h == GroupOf(s)
           j == IndexOf(s)
<1>1. h \in Groups /\ j \in 0..K - 1 /\ SliceOf(h, j) = s /\ K \in Nat \ {0} /\ i \in Nat
  BY SliceFacts, Sizes
<1>2. have' \in [Groups -> SUBSET Indexes] /\ have'[g] = blocks /\ \A k \in Groups : k # g => have'[k] = have[k]
  BY DEF StreamTypes, Indexes
<1>3. i \notin have[g] /\ ~Full(g)
  BY DEF Takes, ClosedBy, HoldsBrought
<1>4. /\ IsFiniteSet(have[g]) /\ Cardinality(have[g]) \in Nat /\ have[g] \subseteq Indexes
      /\ IsFiniteSet(blocks) /\ Cardinality(blocks) \in Nat
  BY HaveFinite, FS_AddElement, FS_CardinalityType
<1>5. \A k \in 0..K - 1 : GroupOf(SliceOf(g, k)) = g /\ IndexOf(SliceOf(g, k)) = k
  BY SliceFacts
<1>6. Brings(blocks, i, g) = IF Repairs(blocks) THEN {SliceOf(g, k) : k \in (0..K - 1) \ (blocks \ {i})}
                             ELSE IF i < K THEN {SliceOf(g, i)} ELSE {}
  BY DEF Brings
<1>7. Brought(s)' <=> Cardinality(have'[h]) >= K \/ j \in have'[h]
  BY DEF Brought, Full, GroupOf, IndexOf
<1>8. Brought(s) <=> Cardinality(have[h]) >= K \/ j \in have[h]
  BY DEF Brought, Full
<1>9. blocks \ {i} = have[g]
  BY <1>3
<1> HIDE DEF h, j, blocks
<1>10. CASE h # g
  <2>1. s \notin Brings(blocks, i, g)
    BY <1>1, <1>5, <1>6, <1>10 DEF h
  <2> QED
    BY <1>1, <1>2, <1>7, <1>8, <1>10, <2>1 DEF blocks
<1>11. CASE h = g /\ Repairs(blocks)
  <2>1. Cardinality(blocks) >= K
    BY <1>11 DEF Repairs
  <2>2. Brought(s)'
    BY <1>2, <1>7, <1>11, <2>1
  <2>3. j \in have[g] \/ s \in Brings(blocks, i, g)
    BY <1>1, <1>6, <1>9, <1>11
  <2> QED
    BY <1>8, <1>11, <2>2, <2>3 DEF blocks
<1>12. CASE h = g /\ ~Repairs(blocks)
  <2>1. s \in Brings(blocks, i, g) <=> i = j
    <3>1. s \in Brings(blocks, i, g) <=> i < K /\ s = SliceOf(g, i)
      BY <1>6, <1>12
    <3>2. i < K => i \in 0..K - 1
      BY <1>1
    <3>3. i < K /\ s = SliceOf(g, i) => i = j
      BY <1>5, <3>2 DEF j
    <3>4. i = j => i < K /\ s = SliceOf(g, i)
      BY <1>1, <1>12
    <3> QED
      BY <3>1, <3>3, <3>4
  <2>2. Cardinality(have[h]) < K
    BY <1>3, <1>4, <1>1, <1>12 DEF Full
  <2>3. CASE Cardinality(blocks) >= K
    <3>1. Cardinality(DataOf(blocks)) >= K
      <4>1. DataOf(blocks) \subseteq blocks
        BY DEF DataOf
      <4>2. Cardinality(DataOf(blocks)) \in Nat
        BY <1>4, <4>1, FS_Subset, FS_CardinalityType
      <4> QED
        BY <1>1, <1>12, <2>3, <4>2 DEF Repairs
    <3>2. DataOf(blocks) = 0..K - 1
      <4>1. \A k \in Indexes : k < K => k \in 0..K - 1
        BY Sizes
      <4>2. DataOf(blocks) \subseteq 0..K - 1
        BY <1>4, <4>1 DEF DataOf, blocks
      <4>3. IsFiniteSet(0..K - 1) /\ Cardinality(0..K - 1) = K
        BY <1>1, FS_Interval
      <4>4. Cardinality(DataOf(blocks)) <= K /\ Cardinality(DataOf(blocks)) \in Nat
        BY <4>2, <4>3, FS_Subset, FS_CardinalityType
      <4>5. Cardinality(DataOf(blocks)) = K
        BY <1>1, <3>1, <4>4
      <4> QED
        BY <4>2, <4>3, <4>5, FS_Subset
    <3>3. j \in blocks
      BY <1>1, <3>2 DEF DataOf
    <3>4. Brought(s)'
      BY <1>2, <1>7, <1>12, <2>3
    <3> QED
      BY <1>8, <1>12, <2>1, <3>3, <3>4 DEF blocks
  <2>4. CASE ~(Cardinality(blocks) >= K)
    <3>1. Brought(s)' <=> j \in blocks
      BY <1>2, <1>7, <1>12, <2>4
    <3>2. Brought(s) <=> j \in have[g]
      BY <1>8, <1>12, <1>3 DEF Full
    <3> QED
      BY <2>1, <3>1, <3>2 DEF blocks
  <2> QED
    BY <2>3, <2>4
<1> QED
  BY <1>10, <1>11, <1>12

LEMMA FramedBrought ==
    ASSUME StreamTypes, HoldsBrought, NEW p \in Packets, NEW rest, Framed(p, rest)
    PROVE  HoldsBrought'
<1> DEFINE g == p[1]
           i == p[2]
           new == Brings(have[g] \cup {i}, i, g)
<1>1. g \in Groups /\ i \in Indexes /\ next' = next
  BY DEF Packets, Indexes, Framed
<1>2. CASE UNCHANGED <<have, pending>> /\ closed \subseteq closed'
  BY <1>1, <1>2 DEF HoldsBrought, Brought, Full, Behind
<1>3. CASE /\ Takes(g, i) /\ have' = [have EXCEPT ![g] = have[g] \cup {i}]
           /\ closed' = ClosedBy(g) \cup (IF Closes(g, i) THEN {g} ELSE {})
           /\ pending' = Queued(new)
  <2>1. ASSUME NEW f \in Frames
        PROVE  pending'[f] = IF Behind(f)' THEN {} ELSE {s \in SlicesOf(f) : Brought(s)'}
    <3>1. Behind(f)' <=> Behind(f)
      BY <1>1 DEF Behind
    <3>2. pending'[f] = IF Behind(f) THEN pending[f] ELSE pending[f] \cup (new \cap SlicesOf(f))
      BY <1>3 DEF Queued
    <3>3. pending[f] = IF Behind(f) THEN {} ELSE {s \in SlicesOf(f) : Brought(s)}
      BY DEF HoldsBrought
    <3>4. \A s \in SlicesOf(f) : Brought(s)' <=> Brought(s) \/ s \in new
      BY <1>1, <1>3, BringsAll DEF SlicesOf
    <3> HIDE DEF new
    <3> QED
      BY <3>1, <3>2, <3>3, <3>4
  <2>2. ASSUME NEW h \in Groups, Full(h)' PROVE h \in closed'
    <3>1. closed \subseteq closed'
      BY <1>3 DEF ClosedBy
    <3>2. CASE h = g
      <4>1. have'[g] = have[g] \cup {i}
        BY <1>1, <1>3 DEF StreamTypes
      <4>2. Cardinality(have[g] \cup {i}) >= K
        BY <2>2, <3>2, <4>1 DEF Full
      <4> QED
        BY <1>3, <3>2, <4>2 DEF Closes
    <3>3. CASE h # g
      <4>1. have'[h] = have[h]
        BY <1>1, <1>3, <3>3 DEF StreamTypes
      <4> QED
        BY <2>2, <3>1, <4>1 DEF Full, HoldsBrought
    <3> QED
      BY <3>2, <3>3
  <2> HIDE DEF new
  <2> QED
    BY <2>1, <2>2 DEF HoldsBrought
<1> QED
  BY <1>2, <1>3 DEF Framed, fecVars, ClosedBy

LEMMA QueuePast ==
    ASSUME StreamTypes, HoldsBrought, ReadyFrames # {},
           \/ Gap /\ next' = First /\ pending' = pending
           \/ ~Gap /\ next' = First + 1 /\ pending' = [pending EXCEPT ![First] = {}],
           UNCHANGED <<have, closed>>
    PROVE  HoldsBrought'
<1>1. First \in Frames /\ pending[First] # {} /\ \A h \in ReadyFrames : First <= h
  BY FirstFacts DEF ReadyFrames
<1>2. Frames \subseteq Nat \ {0} /\ next \in Nat
  BY FramesFacts DEF StreamTypes
<1>3. ~Behind(First)
  BY <1>1 DEF HoldsBrought
<1>4. ASSUME NEW f \in Frames
      PROVE  pending'[f] = IF Behind(f)' THEN {} ELSE {s \in SlicesOf(f) : Brought(s)'}
  <2>1. {s \in SlicesOf(f) : Brought(s)'} = {s \in SlicesOf(f) : Brought(s)}
    BY DEF Brought, Full
  <2>2. pending[f] = IF Behind(f) THEN {} ELSE {s \in SlicesOf(f) : Brought(s)}
    BY DEF HoldsBrought
  <2>3. f < First => pending[f] = {}
    BY <1>1, <1>2 DEF ReadyFrames
  <2>4. First <= f => ~Behind(f)
    BY <1>1, <1>2, <1>3 DEF Behind
  <2>5. First \in Nat \ {0} /\ f \in Nat \ {0}
    BY <1>1, <1>2
  <2>6. CASE Gap
    <3>1. (Behind(f)' <=> f < First) /\ pending'[f] = pending[f]
      BY <1>2, <2>5, <2>6 DEF Behind
    <3> QED
      BY <2>1, <2>2, <2>3, <2>4, <2>5, <3>1
  <2>7. CASE ~Gap
    <3>1. Behind(f)' <=> f <= First
      BY <1>2, <2>5, <2>7 DEF Behind
    <3>2. pending'[f] = IF f = First THEN {} ELSE pending[f]
      BY <1>1, <2>7 DEF StreamTypes
    <3> QED
      BY <2>1, <2>2, <2>3, <2>4, <2>5, <3>1, <3>2
  <2> QED
    BY <2>6, <2>7
<1>5. \A g \in Groups : Full(g)' => g \in closed'
  BY DEF HoldsBrought, Full
<1> QED
  BY <1>4, <1>5 DEF HoldsBrought

LEMMA FlushBrought ==
    ASSUME StreamTypes, HoldsBrought, FlushFrames
    PROVE  HoldsBrought'
<1>1. UNCHANGED <<have, closed>> /\ (Delivers \/ Stops \/ Skips)
  BY Flushed DEF fecVars
<1>2. CASE Stops
  BY <1>1, <1>2 DEF Stops, HoldsBrought, Brought, Full, Behind
<1>3. CASE Delivers
  BY <1>1, <1>3, QueuePast DEF Delivers
<1>4. CASE Skips
  BY <1>1, <1>4, QueuePast DEF Skips
<1> QED
  BY <1>1, <1>2, <1>3, <1>4

LEMMA NothingFull ==
    ASSUME NEW g \in Groups, have' = [h \in Groups |-> {}]
    PROVE  ~Full(g)'
<1>1. Cardinality(have'[g]) = 0 /\ K \in Nat \ {0}
  BY FS_EmptySet, Sizes
<1> QED
  BY <1>1 DEF Full

LEMMA FreshBrought ==
    ASSUME FreshReceive
    PROVE  HoldsBrought'
<1>1. have' = [h \in Groups |-> {}] /\ pending' = [f \in Frames |-> {}]
  BY DEF FreshReceive
<1>2. \A s \in Slices : ~Brought(s)'
  BY <1>1, NothingFull, SliceFacts DEF Brought
<1> QED
  BY <1>1, <1>2, NothingFull DEF HoldsBrought, SlicesOf

(* What is shown: only flush changes it. *)
LEMMA PushInOrder ==
    ASSUME StreamTypes, ShownInOrder, NEW f \in Frames, Push(f), Shows(f),
           next = 0 \/ f = next, next' = f + 1, needKey' = FALSE, joinMode' = joinMode
    PROVE  ShownInOrder'
<1> DEFINE n == Len(emitted)
<1>1. emitted \in Seq(Frames) /\ n \in Nat /\ Frames \subseteq Nat \ {0} /\ next \in Nat
      /\ f \in Nat \ {0} /\ \A k \in 1..n : emitted[k] \in Nat
  BY FramesFacts, LenProperties, ElementOfSeq DEF StreamTypes
<1>2. emitted' = Append(emitted, f)
  BY DEF Push
<1>3. /\ emitted' \in Seq(Frames) /\ Len(emitted') = n + 1 /\ emitted'[n + 1] = f
      /\ \A k \in 1..n : emitted'[k] = emitted[k]
  BY <1>1, <1>2, AppendProperties
<1>4. next = 0 => n = 0
  BY <1>1, EmptySeq DEF ShownInOrder
<1>5. \A k \in 1..n : emitted[k] < f
  BY <1>1, <1>4 DEF ShownInOrder
<1>6. ~needKey => n # 0 /\ emitted[n] + 1 = f
  BY <1>1, <1>4, EmptySeq DEF ShownInOrder
<1> HIDE DEF n
<1>7. emitted' # <<>> /\ next' # 0
  BY <1>1, <1>3, EmptySeq
<1>8. \A k \in 1..Len(emitted') : emitted'[k] < next'
  <2> SUFFICES ASSUME NEW k \in 1..n + 1 PROVE emitted'[k] < f + 1
    BY <1>3
  <2>1. CASE k = n + 1
    BY <1>1, <1>3, <2>1
  <2>2. CASE k # n + 1
    <3>1. k \in 1..n
      BY <1>1, <2>2
    <3> QED
      BY <1>1, <1>3, <1>5, <3>1
  <2> QED
    BY <2>1, <2>2
<1>9. \A k \in 1..Len(emitted') - 1 : emitted'[k] < emitted'[k + 1]
  <2> SUFFICES ASSUME NEW k \in 1..n PROVE emitted'[k] < emitted'[k + 1]
    BY <1>1, <1>3
  <2>1. emitted'[k] = emitted[k]
    BY <1>3
  <2>2. CASE k = n
    BY <1>3, <1>5, <2>1, <2>2
  <2>3. CASE k # n
    <3>1. k \in 1..n - 1 /\ k + 1 \in 1..n
      BY <1>1, <2>3
    <3>2. emitted[k] < emitted[k + 1]
      BY <3>1 DEF ShownInOrder, n
    <3> QED
      BY <1>3, <2>1, <3>1, <3>2
  <2> QED
    BY <2>2, <2>3
<1>10. emitted'[Len(emitted')] + 1 = next'
  BY <1>3
<1>11. ASSUME joinMode = "Video", NEW k \in 1..n + 1, emitted'[k] \notin Keys
       PROVE  k > 1 /\ emitted'[k - 1] + 1 = emitted'[k]
  <2>1. CASE k = n + 1
    <3>1. ~needKey
      BY <1>3, <1>11, <2>1 DEF Shows
    <3>2. n \in 1..n /\ k - 1 = n /\ k > 1
      BY <1>1, <1>6, <2>1, <3>1
    <3> QED
      BY <1>3, <1>6, <2>1, <3>1, <3>2
  <2>2. CASE k # n + 1
    <3>1. k \in 1..n
      BY <1>1, <2>2
    <3>2. k > 1 /\ emitted[k - 1] + 1 = emitted[k]
      BY <1>3, <1>11, <3>1 DEF ShownInOrder, n
    <3>3. k - 1 \in 1..n
      BY <1>1, <3>1, <3>2
    <3> QED
      BY <1>3, <3>1, <3>2, <3>3
  <2> QED
    BY <2>1, <2>2
<1> QED
  BY <1>3, <1>7, <1>8, <1>9, <1>10, <1>11 DEF ShownInOrder

LEMMA FlushShown ==
    ASSUME StreamTypes, HoldsBrought, ShownInOrder, FlushFrames
    PROVE  ShownInOrder'
<1>1. UNCHANGED joinMode /\ (Delivers \/ Stops \/ Skips)
  BY Flushed
<1>2. CASE Stops
  BY <1>1, <1>2 DEF Stops, ShownInOrder
<1> DEFINE n == Len(emitted)
<1>3. /\ Frames \subseteq Nat \ {0} /\ next \in Nat /\ n \in Nat
      /\ \A k \in 1..n : emitted[k] \in Nat
  <2>1. emitted \in Seq(Frames) /\ Frames \subseteq Nat \ {0}
    BY FramesFacts DEF StreamTypes
  <2>2. n \in Nat /\ \A k \in 1..n : emitted[k] \in Frames
    BY <2>1, LenProperties, ElementOfSeq
  <2>3. next \in Nat
    BY <2>1 DEF StreamTypes
  <2> QED
    BY <2>1, <2>2, <2>3
<1>4. ASSUME ReadyFrames # {}
      PROVE  First \in Frames /\ (next # 0 => next <= First)
  <2>1. First \in Frames /\ pending[First] # {}
    BY <1>4, FirstFacts DEF ReadyFrames
  <2>2. ~(next # 0 /\ First < next)
    BY <2>1 DEF HoldsBrought, Behind
  <2>3. First \in Nat /\ next \in Nat
    BY <1>3, <2>1
  <2> QED
    BY <2>1, <2>2, <2>3
<1>5. ASSUME emitted' = emitted, needKey' \in BOOLEAN, needKey', next' \in Nat \ {0},
             emitted # <<>> => next <= next'
      PROVE  ShownInOrder'
  <2>1. \A k \in 1..n : emitted[k] < next'
    <3> SUFFICES ASSUME NEW k \in 1..n PROVE emitted[k] < next'
      OBVIOUS
    <3>1. emitted # <<>>
      BY <1>3, EmptySeq
    <3>2. emitted[k] < next
      BY DEF ShownInOrder
    <3> QED
      BY <1>3, <1>5, <3>1, <3>2
  <2> QED
    BY <1>1, <1>5, <2>1 DEF ShownInOrder
<1>6. CASE Skips
  <2>1. First \in Frames /\ (next # 0 => next <= First)
    BY <1>4, <1>6 DEF Skips
  <2>2. next' \in Nat \ {0} /\ next <= next'
    BY <1>3, <1>6, <2>1 DEF Skips
  <2> QED
    BY <1>5, <1>6, <2>2 DEF Skips
<1>7. CASE Delivers
  <2>1. First \in Frames /\ (next # 0 => next <= First)
    BY <1>4, <1>7 DEF Delivers
  <2>2. (next = 0 \/ First = next) /\ next' = First + 1
    BY <1>7 DEF Delivers, Gap
  <2>3. CASE Shows(First)
    BY <1>1, <1>7, <2>1, <2>2, <2>3, PushInOrder DEF Delivers
  <2>4. CASE ~Shows(First)
    <3>1. next' \in Nat \ {0} /\ next <= next'
      BY <1>3, <2>1, <2>2
    <3>2. needKey' = needKey /\ needKey /\ emitted' = emitted
      BY <1>7, <2>4 DEF Delivers, Shows
    <3> QED
      BY <1>5, <3>1, <3>2
  <2> QED
    BY <2>3, <2>4
<1> QED
  BY <1>1, <1>2, <1>6, <1>7

LEMMA FlushSettled ==
    ASSUME Settled, FlushFrames, StreamTypes
    PROVE  Settled'
<1>1. Delivers \/ Stops \/ Skips
  BY Flushed
<1>2. CASE Stops
  <2>1. UNCHANGED <<pending, next>>
    BY <1>2 DEF Stops
  <2>2. ReadyFrames' = ReadyFrames /\ First' = First
    BY <2>1 DEF ReadyFrames, First
  <2> QED
    BY <1>2, <2>1, <2>2 DEF Stops, Settled, Whole, Gap
<1>3. CASE Delivers \/ Skips
  <2>1. flushing
    BY DEF FlushFrames
  <2> QED
    BY <1>3, <2>1 DEF Delivers, Skips, Settled
<1> QED
  BY <1>1, <1>2, <1>3

(* The network in order. *)
LEMMA BeforeFacts ==
    /\ \A p, q \in Packets : Before(p, q) => ~Before(q, p) /\ p # q
    /\ \A p \in Packets : p[1] \in Groups /\ p[2] \in Indexes /\ p = <<p[1], p[2]>>
    /\ \A g \in Groups, i \in Indexes : <<g, i>> \in Packets
    /\ Groups \subseteq Nat /\ Indexes \subseteq Nat /\ \A i \in Indexes : i <= K + M - 1
<1>1. Packets = Groups \X Indexes /\ Groups \subseteq Nat /\ Indexes \subseteq Nat
  BY Sizes
<1>2. \A i \in Indexes : i <= K + M - 1
  BY Sizes DEF Indexes
<1>3. \A p \in Packets : p[1] \in Groups /\ p[2] \in Indexes /\ p = <<p[1], p[2]>>
  BY <1>1
<1>4. \A p, q \in Packets : Before(p, q) => ~Before(q, p) /\ p # q
  <2> SUFFICES ASSUME NEW p \in Packets, NEW q \in Packets, Before(p, q)
               PROVE  ~Before(q, p) /\ p # q
    OBVIOUS
  <2>1. p[1] \in Nat /\ p[2] \in Nat /\ q[1] \in Nat /\ q[2] \in Nat
    BY <1>1, <1>3
  <2>2. p[1] < q[1] \/ (p[1] = q[1] /\ p[2] < q[2])
    BY DEF Before
  <2> QED
    BY <2>1, <2>2 DEF Before
<1> QED
  BY <1>1, <1>2, <1>3, <1>4

LEMMA SentNext ==
    ASSUME StreamTypes, PrinterSends
    PROVE  /\ Sent' = Sent \cup {PacketNo(at)}
           /\ \A p \in Sent : p \in Packets /\ Before(p, PacketNo(at))
           /\ PacketNo(at) \in Packets
<1>1. at' = at + 1 /\ at \in Nat /\ PacketNo(at) \in Packets
  BY PrinterFacts
<1>2. 0..at' - 1 = (0..at - 1) \cup {at}
  BY <1>1
<1>3. Sent' = Sent \cup {PacketNo(at)}
  BY <1>2 DEF Sent, PacketNo
<1>4. ASSUME NEW n \in 0..at - 1 PROVE PacketNo(n) \in Packets /\ Before(PacketNo(n), PacketNo(at))
  <2>1. n \in Nat /\ n < at
    BY <1>1
  <2>2. Cardinality(Packets) \in Nat /\ at <= Cardinality(Packets)
    BY PacketSets, FS_CardinalityType DEF StreamTypes
  <2>3. n \in 0..Cardinality(Packets) - 1
    BY <1>1, <2>1, <2>2
  <2> QED
    BY <1>1, <2>1, <2>3, PacketInSet, PacketsInOrder
<1> QED
  BY <1>1, <1>3, <1>4 DEF Sent

LEMMA SendInOrder ==
    ASSUME StreamTypes, NetworkInOrder, PrinterSends
    PROVE  NetworkInOrder'
<1> DEFINE p == PacketNo(at)
<1>1. /\ Sent' = Sent \cup {p} /\ p \in Packets
      /\ \A q \in Sent : q \in Packets /\ Before(q, p) /\ ~Before(p, q)
  BY SentNext, BeforeFacts
<1>2. have' = have
  BY PrinterFacts DEF fecVars
<1>3. (air' = Append(air, p) /\ gone' = gone) \/ (gone' = gone \cup {p} /\ air' = air)
  BY PrinterFacts
<1> HIDE DEF p
<1>4. \A q : Handled(q)' <=> Handled(q)
  BY <1>2 DEF Handled, Full
<1>5. CASE air' = Append(air, p) /\ gone' = gone
  <2>1. air \in Seq(Packets) /\ Len(air) \in Nat
    BY LenProperties DEF StreamTypes
  <2>2. Len(air') = Len(air) + 1 /\ air'[Len(air) + 1] = p /\ \A n \in 1..Len(air) : air'[n] = air[n]
    BY <1>1, <1>5, <2>1, AppendProperties
  <2>3. \A n \in 1..Len(air') : n = Len(air) + 1 \/ n \in 1..Len(air)
    BY <2>1, <2>2
  <2>4. \A n \in 1..Len(air') : air'[n] \in Sent'
    BY <1>1, <2>2, <2>3 DEF NetworkInOrder
  <2>5. ASSUME NEW m \in 1..Len(air'), NEW n \in 1..Len(air'), m < n
        PROVE  Before(air'[m], air'[n])
    <3>1. m \in 1..Len(air)
      BY <2>1, <2>2, <2>5
    <3>2. CASE n = Len(air) + 1
      BY <1>1, <2>2, <3>1, <3>2 DEF NetworkInOrder
    <3>3. CASE n \in 1..Len(air)
      BY <2>2, <2>5, <3>1, <3>3 DEF NetworkInOrder
    <3> QED
      BY <2>3, <3>2, <3>3
  <2>6. ASSUME NEW q \in Sent' PROVE q \in gone' \/ Handled(q)' \/ \E n \in 1..Len(air') : air'[n] = q
    <3>1. CASE q = p
      <4>1. Len(air) + 1 \in 1..Len(air')
        BY <2>1, <2>2
      <4> QED
        BY <2>2, <3>1, <4>1
    <3>2. CASE q \in Sent
      <4>1. q \in gone \/ Handled(q) \/ \E n \in 1..Len(air) : air[n] = q
        BY <3>2 DEF NetworkInOrder
      <4>2. \A n \in 1..Len(air) : n \in 1..Len(air')
        BY <2>1, <2>2
      <4> QED
        BY <1>4, <1>5, <2>2, <4>1, <4>2
    <3> QED
      BY <1>1, <3>1, <3>2
  <2>7. ASSUME NEW g \in Groups, NEW i \in have'[g]
        PROVE  <<g, i>> \in Sent' /\ \A n \in 1..Len(air') : ~Before(air'[n], <<g, i>>)
    <3>1. <<g, i>> \in Sent /\ \A n \in 1..Len(air) : ~Before(air[n], <<g, i>>)
      BY <1>2, <2>7 DEF NetworkInOrder
    <3> QED
      BY <1>1, <2>2, <2>3, <3>1
  <2>8. gone' \subseteq Sent'
    BY <1>1, <1>5 DEF NetworkInOrder
  <2> QED
    BY <2>4, <2>5, <2>6, <2>7, <2>8 DEF NetworkInOrder
<1>6. CASE gone' = gone \cup {p} /\ air' = air
  <2>1. gone' \subseteq Sent' /\ \A n \in 1..Len(air') : air'[n] \in Sent'
    BY <1>1, <1>6 DEF NetworkInOrder
  <2>2. \A q \in Sent' : q \in gone' \/ Handled(q)' \/ \E n \in 1..Len(air') : air'[n] = q
    BY <1>1, <1>4, <1>6 DEF NetworkInOrder
  <2>3. \A g \in Groups : \A i \in have'[g] :
          <<g, i>> \in Sent' /\ \A n \in 1..Len(air') : ~Before(air'[n], <<g, i>>)
    BY <1>1, <1>2, <1>6 DEF NetworkInOrder
  <2>4. \A m, n \in 1..Len(air') : m < n => Before(air'[m], air'[n])
    BY <1>6 DEF NetworkInOrder
  <2> QED
    BY <2>1, <2>2, <2>3, <2>4 DEF NetworkInOrder
<1> QED
  BY <1>3, <1>5, <1>6

LEMMA FollowsFacts ==
    ASSUME StreamTypes, NetworkInOrder, NEW rest \in Seq(Packets), Follows(rest), 1 \in 1..Len(air)
    PROVE  /\ \A n \in 1..Len(rest) : /\ \E m \in 1..Len(air) : rest[n] = air[m]
                                      /\ rest[n] = air[1] \/ Before(air[1], rest[n])
           /\ \A m, n \in 1..Len(rest) : m < n => Before(rest[m], rest[n])
           /\ \A m \in 1..Len(air) : air[m] = air[1] \/ \E n \in 1..Len(rest) : rest[n] = air[m]
<1>1. Len(air) \in Nat /\ Len(rest) \in Nat
  BY LenProperties DEF StreamTypes
<1>2. \A m, n \in 1..Len(air) : m < n => Before(air[m], air[n])
  BY DEF NetworkInOrder
<1>3. \A m \in 1..Len(air) : m = 1 \/ 1 < m
  BY <1>1
<1>4. CASE rest = air
  BY <1>2, <1>3, <1>4
<1>5. CASE Len(rest) = Len(air) - 1 /\ \A i \in 1..Len(rest) : rest[i] = air[i + 1]
  <2>1. \A n \in 1..Len(rest) : n + 1 \in 1..Len(air) /\ 1 < n + 1 /\ rest[n] = air[n + 1]
    BY <1>1, <1>5
  <2>2. \A m, n \in 1..Len(rest) : m < n => m + 1 < n + 1
    BY <1>1
  <2>3. \A m \in 1..Len(air) : m = 1 \/ (m - 1 \in 1..Len(rest) /\ (m - 1) + 1 = m)
    BY <1>1, <1>5
  <2>4. \A n \in 1..Len(rest) : /\ \E m \in 1..Len(air) : rest[n] = air[m]
                                /\ Before(air[1], rest[n])
    BY <1>2, <2>1
  <2>5. \A m, n \in 1..Len(rest) : m < n => Before(rest[m], rest[n])
    BY <1>2, <2>1, <2>2
  <2>6. \A m \in 1..Len(air) : m = 1 \/ \E n \in 1..Len(rest) : rest[n] = air[m]
    BY <2>1, <2>3
  <2> QED
    BY <2>4, <2>5, <2>6
<1> QED
  BY <1>4, <1>5 DEF Follows

LEMMA SentPackets ==
    ASSUME StreamTypes
    PROVE  Sent \subseteq Packets
<1>1. at \in Nat /\ Cardinality(Packets) \in Nat /\ at <= Cardinality(Packets)
  BY PacketSets, FS_CardinalityType DEF StreamTypes
<1>2. 0..at - 1 \subseteq 0..Cardinality(Packets) - 1
  BY <1>1
<1> QED
  BY <1>2, PacketInSet DEF Sent

(* Receiving the packet at the head: its group is the newest one that began. *)
ClosedInOrder(h, g) == (have[h] # {} /\ h < g) \/ Full(h) \/ K + M - 1 \in have[h]

LEMMA NewestStep ==
    ASSUME StreamTypes, NetworkInOrder, GroupsInOrder, 1 \in 1..Len(air), NEW rest,
           NEW g \in Groups, NEW i \in Indexes, air[1] = <<g, i>>, Framed(<<g, i>>, rest)
    PROVE  /\ newest' = g
           /\ \A h \in Groups : have[h] # {} => h <= g
           /\ \A h \in Groups : h \in ClosedBy(g) <=> ClosedInOrder(h, g)
           /\ \A j \in have[g] : j <= i
           /\ IF Takes(g, i)
              THEN /\ have' = [have EXCEPT ![g] = have[g] \cup {i}]
                   /\ closed' = ClosedBy(g) \cup (IF Closes(g, i) THEN {g} ELSE {})
              ELSE closed' = ClosedBy(g) /\ UNCHANGED have
<1>1. Groups \subseteq Nat /\ Indexes \subseteq Nat
  BY BeforeFacts
<1>2. ASSUME NEW h \in Groups, NEW j \in have[h] PROVE ~Before(<<g, i>>, <<h, j>>)
  <2>1. \A n \in 1..Len(air) : ~Before(air[n], <<h, j>>)
    BY DEF NetworkInOrder
  <2>2. ~Before(air[1], <<h, j>>)
    BY <2>1
  <2> QED
    BY <2>2
<1>3. \A h \in Groups : have[h] # {} => h <= g
  <2> SUFFICES ASSUME NEW h \in Groups, NEW j \in have[h] PROVE h <= g
    OBVIOUS
  <2>1. ~Before(<<g, i>>, <<h, j>>)
    BY <1>2
  <2> QED
    BY <1>1, <2>1 DEF Before
<1>4. ASSUME NEW j \in have[g] PROVE j <= i
  <2>1. ~Before(<<g, i>>, <<g, j>>) /\ j \in Indexes
    BY <1>1, <1>2, HaveFinite
  <2> QED
    BY <1>1, <2>1 DEF Before
<1>5. /\ newest # NoGroup => newest <= g
      /\ newest \in Nat /\ g \in Nat
  <2>1. newest # NoGroup => newest \in Groups /\ have[newest] # {}
    BY DEF StreamTypes, NoGroup, GroupsInOrder
  <2>2. NoGroup \in Nat
    BY PacketSets, FS_CardinalityType DEF NoGroup
  <2> QED
    BY <1>1, <1>3, <2>1, <2>2
<1>6. ~Forgotten(g)
  BY <1>1, <1>5, Bounds DEF Forgotten
<1>7. /\ newest' = IF newest = NoGroup \/ g > newest THEN g ELSE newest
      /\ IF Takes(g, i)
         THEN /\ have' = [have EXCEPT ![g] = have[g] \cup {i}]
              /\ closed' = ClosedBy(g) \cup (IF Closes(g, i) THEN {g} ELSE {})
         ELSE closed' = ClosedBy(g) /\ UNCHANGED have
  BY <1>6 DEF Framed
<1>8. newest' = g
  BY <1>1, <1>5, <1>7
<1>9. ASSUME NEW h \in Groups PROVE h \in ClosedBy(g) <=> ClosedInOrder(h, g)
  <2>1. h \in closed <=> (have[h] # {} /\ h < newest) \/ Full(h) \/ K + M - 1 \in have[h]
    BY DEF GroupsInOrder
  <2>2. have[h] # {} => newest # NoGroup /\ h <= newest
    BY DEF GroupsInOrder
  <2>3. CASE newest = NoGroup \/ g > newest
    <3>1. h \in ClosedBy(g) <=> h \in closed \/ (h < g /\ have[h] # {})
      BY <2>3 DEF ClosedBy
    <3>2. have[h] # {} /\ h < newest => h < g
      BY <1>1, <1>5, <2>2
    <3> QED
      BY <2>1, <3>1, <3>2 DEF ClosedInOrder
  <2>4. CASE ~(newest = NoGroup \/ g > newest)
    <3>1. newest = g
      BY <1>1, <1>5, <2>4
    <3>2. ClosedBy(g) = closed
      BY <2>4 DEF ClosedBy
    <3> QED
      BY <2>1, <3>1, <3>2 DEF ClosedInOrder
  <2> QED
    BY <2>3, <2>4
<1> QED
  BY <1>3, <1>4, <1>7, <1>8, <1>9

LEMMA GroupsStep ==
    ASSUME StreamTypes, NetworkInOrder, GroupsInOrder, HoldsBrought,
           1 \in 1..Len(air), NEW rest, NEW g \in Groups, NEW i \in Indexes,
           air[1] = <<g, i>>, Framed(<<g, i>>, rest)
    PROVE  /\ GroupsInOrder'
           /\ \A h \in Groups : have[h] \subseteq have'[h]
           /\ \A h \in Groups : \A j \in have'[h] : j \in have[h] \/ (h = g /\ j = i)
           /\ Handled(<<g, i>>)'
<1>1. /\ Groups \subseteq Nat /\ Indexes \subseteq Nat /\ i <= K + M - 1
      /\ K + M - 1 \in Int /\ have[g] \subseteq Indexes
  <2>1. Groups \subseteq Nat /\ Indexes \subseteq Nat /\ i <= K + M - 1
    BY BeforeFacts
  <2>2. K \in Int /\ M \in Int
    BY Sizes
  <2> QED
    BY <2>1, <2>2, HaveFinite
<1>2. /\ newest' = g
      /\ \A h \in Groups : have[h] # {} => h <= g
      /\ \A h \in Groups : h \in ClosedBy(g) <=> ClosedInOrder(h, g)
      /\ \A j \in have[g] : j <= i
      /\ IF Takes(g, i)
         THEN /\ have' = [have EXCEPT ![g] = have[g] \cup {i}]
              /\ closed' = ClosedBy(g) \cup (IF Closes(g, i) THEN {g} ELSE {})
         ELSE closed' = ClosedBy(g) /\ UNCHANGED have
  BY NewestStep
<1>3. g # NoGroup
  BY <1>1, PacketSets, Sizes DEF NoGroup
<1>4. CASE Takes(g, i)
  <2>1. have'[g] = have[g] \cup {i} /\ \A h \in Groups : h # g => have'[h] = have[h]
    BY <1>1, <1>2, <1>4 DEF StreamTypes
  <2>2. ~ClosedInOrder(g, g)
    BY <1>1, <1>2, <1>4 DEF Takes
  <2>3. Closes(g, i) <=> Full(g)' \/ i = K + M - 1
    BY <2>1 DEF Closes, Full
  <2>4. ASSUME NEW h \in Groups
        PROVE  h \in closed' <=> (have'[h] # {} /\ h < g) \/ Full(h)' \/ K + M - 1 \in have'[h]
    <3>1. h \in closed' <=> ClosedInOrder(h, g) \/ (h = g /\ Closes(g, i))
      BY <1>2, <1>4
    <3>2. CASE h = g
      <4>1. ~(K + M - 1 \in have[g])
        BY <2>2 DEF ClosedInOrder
      <4>2. K + M - 1 \in have'[g] <=> i = K + M - 1
        BY <2>1, <4>1
      <4>3. ~(h < g)
        BY <1>1, <3>2
      <4> QED
        BY <2>2, <2>3, <3>1, <3>2, <4>2, <4>3
    <3>3. CASE h # g
      <4>1. have'[h] = have[h]
        BY <2>1, <3>3
      <4> QED
        BY <3>1, <3>3, <4>1 DEF ClosedInOrder, Full
    <3> QED
      BY <3>2, <3>3
  <2>5. \A h \in Groups : have'[h] # {} => h <= g
    <3>1. g <= g
      BY <1>1
    <3> QED
      BY <1>2, <2>1, <3>1
  <2>6. GroupsInOrder'
    BY <1>2, <1>3, <2>1, <2>4, <2>5 DEF GroupsInOrder, NoGroup
  <2>7. Handled(<<g, i>>)'
    <3>1. i \in have'[g]
      BY <2>1
    <3> QED
      BY <3>1 DEF Handled
  <2> QED
    BY <1>1, <2>1, <2>6, <2>7
<1>5. CASE ~Takes(g, i)
  <2>1. have' = have /\ closed' = ClosedBy(g)
    BY <1>2, <1>5
  <2>2. i \in have[g] \/ Full(g)
    <3>1. i \in have[g] \/ ClosedInOrder(g, g)
      BY <1>1, <1>2, <1>5 DEF Takes
    <3>2. ~(g < g)
      BY <1>1
    <3>3. K + M - 1 \in have[g] => i = K + M - 1
      BY <1>1, <1>2
    <3> QED
      BY <3>1, <3>2, <3>3 DEF ClosedInOrder
  <2>3. have[g] # {}
    <3>1. have[g] = {} => Cardinality(have[g]) = 0
      BY FS_EmptySet
    <3> QED
      BY <2>2, <3>1, Sizes DEF Full
  <2>4. \A h \in Groups : h \in closed' <=> (have'[h] # {} /\ h < g) \/ Full(h)' \/ K + M - 1 \in have'[h]
    BY <1>2, <2>1 DEF ClosedInOrder, Full
  <2>5. GroupsInOrder'
    BY <1>2, <1>3, <2>1, <2>3, <2>4 DEF GroupsInOrder, NoGroup
  <2> QED
    BY <2>1, <2>2, <2>5 DEF Full, Handled
<1> QED
  BY <1>4, <1>5

LEMMA ReceiveInOrder ==
    ASSUME StreamTypes, NetworkInOrder, GroupsInOrder, HoldsBrought, 1 \in 1..Len(air),
           NEW rest \in Seq(Packets), Follows(rest), Framed(air[1], rest), UNCHANGED <<at, gone>>
    PROVE  NetworkInOrder' /\ GroupsInOrder'
<1>1. air[1] \in Packets
  BY ElementOfSeq DEF StreamTypes
<1>2. PICK g \in Groups, i \in Indexes : air[1] = <<g, i>>
  BY <1>1, BeforeFacts
<1>3. /\ GroupsInOrder'
      /\ \A h \in Groups : have[h] \subseteq have'[h]
      /\ \A h \in Groups : \A j \in have'[h] : j \in have[h] \/ (h = g /\ j = i)
      /\ Handled(<<g, i>>)'
  BY <1>2, GroupsStep
<1>4. air' = rest /\ Sent' = Sent /\ gone' = gone
  BY DEF Framed, Sent
<1>5. /\ \A n \in 1..Len(rest) : /\ \E m \in 1..Len(air) : rest[n] = air[m]
                                 /\ rest[n] = <<g, i>> \/ Before(<<g, i>>, rest[n])
      /\ \A m, n \in 1..Len(rest) : m < n => Before(rest[m], rest[n])
      /\ \A m \in 1..Len(air) : air[m] = <<g, i>> \/ \E n \in 1..Len(rest) : rest[n] = air[m]
  BY <1>2, FollowsFacts
<1>6. \A n \in 1..Len(air') : air'[n] \in Sent'
  BY <1>4, <1>5 DEF NetworkInOrder
<1>7. ASSUME NEW p \in Packets, Handled(p) PROVE Handled(p)'
  <2>1. p[1] \in Groups /\ have[p[1]] \subseteq have'[p[1]]
    BY <1>3, BeforeFacts
  <2>2. Full(p[1]) => Full(p[1])'
    <3>1. have'[p[1]] \subseteq Indexes
      <4>1. have[p[1]] \subseteq Indexes
        BY <2>1, HaveFinite
      <4> QED
        BY <1>3, <2>1, <4>1
    <3>2. /\ IsFiniteSet(have'[p[1]]) /\ Cardinality(have'[p[1]]) \in Nat
          /\ Cardinality(have[p[1]]) \in Nat /\ Cardinality(have[p[1]]) <= Cardinality(have'[p[1]])
      BY <2>1, <3>1, PacketSets, FS_Subset, FS_CardinalityType
    <3> QED
      BY <3>2, Sizes DEF Full
  <2> QED
    BY <1>7, <2>1, <2>2 DEF Handled
<1>8. ASSUME NEW p \in Sent PROVE p \in gone' \/ Handled(p)' \/ \E n \in 1..Len(air') : air'[n] = p
  <2>1. p \in gone \/ Handled(p) \/ \E m \in 1..Len(air) : air[m] = p
    BY DEF NetworkInOrder
  <2>2. p \in Packets
    BY SentPackets
  <2>3. p = <<g, i>> => Handled(p)'
    BY <1>3
  <2>4. (\E m \in 1..Len(air) : air[m] = p) => p = <<g, i>> \/ \E n \in 1..Len(air') : air'[n] = p
    BY <1>4, <1>5
  <2> QED
    BY <1>4, <1>7, <2>1, <2>2, <2>3, <2>4
<1>9. ASSUME NEW h \in Groups, NEW j \in have'[h]
      PROVE  <<h, j>> \in Sent' /\ \A n \in 1..Len(air') : ~Before(air'[n], <<h, j>>)
  <2>1. CASE j \in have[h]
    <3>1. <<h, j>> \in Sent /\ \A n \in 1..Len(air) : ~Before(air[n], <<h, j>>)
      BY <2>1 DEF NetworkInOrder
    <3> QED
      BY <1>4, <1>5, <3>1
  <2>2. CASE h = g /\ j = i
    <3>1. <<g, i>> \in Sent
      <4>1. air[1] \in Sent
        BY DEF NetworkInOrder
      <4> QED
        BY <1>2, <4>1
    <3>2. ASSUME NEW n \in 1..Len(rest) PROVE ~Before(rest[n], <<g, i>>)
      <4>1. rest[n] \in Packets /\ <<g, i>> \in Packets
        BY <1>1, <1>2, ElementOfSeq
      <4> QED
        BY <1>5, <4>1, BeforeFacts
    <3> QED
      BY <1>4, <2>2, <3>1, <3>2
  <2> QED
    BY <1>3, <2>1, <2>2
<1>10. NetworkInOrder'
  <2>1. gone' \subseteq Sent' /\ \A m, n \in 1..Len(air') : m < n => Before(air'[m], air'[n])
    BY <1>4, <1>5 DEF NetworkInOrder
  <2>2. \A p \in Sent' : p \in gone' \/ Handled(p)' \/ \E n \in 1..Len(air') : air'[n] = p
    BY <1>4, <1>8
  <2> QED
    BY <1>6, <1>9, <2>1, <2>2 DEF NetworkInOrder
<1> QED
  BY <1>3, <1>10

(* Flush: when nothing can still be repaired, nothing is missing before a slice that came. *)
LEMMA NoHoleBefore ==
    ASSUME StreamTypes, HoldsBrought, NetworkInOrder, GroupsInOrder, Repairable, ~HasHoles,
           NEW f \in Frames, NEW h \in Frames, f < h, pending[h] # {}, ~Behind(f)
    PROVE  pending[f] = SlicesOf(f)
<1>1. PICK t \in SlicesOf(h) : Brought(t)
  BY DEF HoldsBrought
<1>2. ASSUME NEW s \in SlicesOf(f) PROVE Brought(s)
  <2>1. s \in Slices /\ t \in Slices /\ FrameOf[s] < FrameOf[t]
    BY DEF SlicesOf
  <2>2. s < t
    BY <2>1, FramesFacts
  <2> QED
    BY <1>1, <2>1, <2>2, HoleFound
<1> QED
  BY <1>2 DEF HoldsBrought

LEMMA FlushSkipsNone ==
    ASSUME StreamTypes, HoldsBrought, NetworkInOrder, GroupsInOrder, Repairable, NoneSkipped,
           Cardinality(SlicesOf(1)) > M, FlushFrames, calm'
    PROVE  NoneSkipped'
<1>1. UNCHANGED joinMode /\ (Delivers \/ Stops \/ Skips)
  BY Flushed
<1>2. /\ Frames \subseteq Nat \ {0} /\ next \in Nat /\ 1 \in Frames /\ 1 \in Keys
      /\ \A f \in Frames : SlicesOf(f) # {} /\ 1..f \subseteq Frames
  BY FramesFacts, StreamAssumption DEF StreamTypes
<1>3. CASE Stops
  BY <1>3 DEF Stops, NoneSkipped
<1>4. ASSUME ReadyFrames # {}
      PROVE  /\ First \in Frames /\ First \in Nat \ {0} /\ pending[First] # {} /\ ~Behind(First)
             /\ \A h \in ReadyFrames : First <= h
             /\ pending[First] \subseteq SlicesOf(First)
             /\ \A f \in Frames : f < First => pending[f] = {}
  <2>1. First \in Frames /\ pending[First] # {} /\ \A h \in ReadyFrames : First <= h
    BY <1>4, FirstFacts DEF ReadyFrames
  <2>2. ~Behind(First) /\ pending[First] \subseteq SlicesOf(First)
    BY <2>1 DEF HoldsBrought
  <2>3. \A f \in Frames : f < First => pending[f] = {}
    BY <1>2, <2>1 DEF ReadyFrames
  <2> QED
    BY <1>2, <2>1, <2>2, <2>3
<1>5. ASSUME Skips PROVE FALSE
  <2>1. ReadyFrames # {} /\ ~HasHoles /\ ~(Whole /\ ~Gap) /\ (Gap \/ Cardinality(ReadyFrames) > 1)
    BY <1>5 DEF Skips
  <2>2. CASE Gap
    <3>1. next # 0 /\ next < First
      BY <1>2, <1>4, <2>1, <2>2 DEF Gap, Behind
    <3>2. next \in Frames
      BY <1>2, <1>4, <2>1, <3>1
    <3>3. pending[next] = {} /\ SlicesOf(next) # {} /\ ~Behind(next)
      BY <1>2, <1>4, <2>1, <3>1, <3>2 DEF Behind
    <3> QED
      BY <1>4, <2>1, <3>1, <3>2, <3>3, NoHoleBefore
  <2>3. CASE ~Gap
    <3>1. PICK h \in ReadyFrames : h # First
      <4> SUFFICES ASSUME ReadyFrames \subseteq {First} PROVE FALSE
        OBVIOUS
      <4>1. ReadyFrames = {First}
        BY <2>1
      <4> QED
        <5>1. Cardinality(ReadyFrames) = 1
          BY <4>1, FS_Singleton
        <5> QED
          BY <2>1, <2>3, <5>1
    <3>2. h \in Frames /\ First < h /\ pending[h] # {}
      BY <1>2, <1>4, <2>1, <3>1 DEF ReadyFrames
    <3>3. pending[First] = SlicesOf(First)
      BY <1>4, <2>1, <3>2, NoHoleBefore
    <3> QED
      BY <2>1, <2>3, <3>3 DEF Whole
  <2> QED
    BY <2>2, <2>3
<1>6. CASE Delivers
  <2>1. ReadyFrames # {} /\ next' = First + 1 /\ (next = 0 \/ First = next)
    BY <1>6 DEF Delivers, Gap
  <2>2. First \in Frames /\ First \in Nat \ {0} /\ pending[First] # {}
    BY <1>4, <2>1
  <2>3. next = 0 => First = 1
    <3> SUFFICES ASSUME next = 0, First # 1 PROVE FALSE
      OBVIOUS
    <3>1. pending[1] = {}
      BY <1>2, <1>4, <2>1, <2>2
    <3>2. \A s \in SlicesOf(1) : ~Brought(s)
      BY <1>2, <3>1 DEF HoldsBrought, Behind
    <3>3. PICK t \in SlicesOf(First) : Brought(t)
      BY <2>2 DEF HoldsBrought
    <3>4. Cardinality(SlicesOf(1)) <= M
      BY <3>2, <3>3, FirstFound DEF SlicesOf
    <3>5. IsFiniteSet(SlicesOf(1))
      <4>1. Slices = 1..Len(FrameOf)
        BY DEF Slices
      <4>2. IsFiniteSet(Slices)
        BY <4>1, Sizes, FS_Interval
      <4> QED
        BY <4>2, FS_Subset DEF SlicesOf
    <3> QED
      BY <3>4, <3>5, FS_CardinalityType, Sizes
  <2>4. Shows(First)
    BY <1>2, <2>1, <2>3 DEF NoneSkipped, Shows
  <2>5. needKey' = FALSE /\ emitted' = Append(emitted, First)
    BY <1>6, <2>4 DEF Delivers, Push
  <2>6. /\ Len(emitted) \in Nat /\ Len(emitted') = Len(emitted) + 1 /\ emitted'[Len(emitted) + 1] = First
        /\ \A n \in 1..Len(emitted) : emitted'[n] = emitted[n]
    BY <2>2, <2>5, AppendProperties, LenProperties DEF StreamTypes
  <2>7. ASSUME NEW f \in Frames, f < First + 1 PROVE \E n \in 1..Len(emitted') : emitted'[n] = f
    <3>1. CASE f = First
      <4>1. Len(emitted) + 1 \in 1..Len(emitted')
        BY <2>6
      <4> QED
        BY <2>6, <3>1, <4>1
    <3>2. CASE f # First
      <4>1. f < First
        BY <1>2, <2>2, <2>7, <3>2
      <4>2. next # 0 /\ f < next
        BY <1>2, <2>1, <2>3, <4>1
      <4>3. PICK n \in 1..Len(emitted) : emitted[n] = f
        BY <4>2 DEF NoneSkipped
      <4>4. n \in 1..Len(emitted')
        BY <2>6
      <4> QED
        BY <2>6, <4>3, <4>4
    <3> QED
      BY <3>1, <3>2
  <2> QED
    BY <2>1, <2>5, <2>7 DEF NoneSkipped
<1> QED
  BY <1>1, <1>3, <1>5, <1>6

(* The steps of the invariant. *)
PicturesInv == framed => HoldsBrought /\ ShownInOrder /\ Settled
NetInv == framed /\ calm /\ Repairable => NetworkInOrder /\ GroupsInOrder
SkipInv == framed /\ calm /\ Repairable => NoneSkipped

LEMMA QuietStream ==
    ASSUME UNCHANGED streamVars, framed' => framed, UNCHANGED joinMode,
           PicturesInv, NetInv
    PROVE  PicturesInv' /\ NetInv' /\ (SkipInv => SkipInv')
<1> USE DEF streamVars, netVars, fecVars, frameVars
<1>1. (ShownInOrder => ShownInOrder') /\ (NoneSkipped => NoneSkipped')
  BY DEF ShownInOrder, NoneSkipped
<1>2. HoldsBrought => HoldsBrought'
  BY DEF HoldsBrought, Behind, Brought, Full
<1>3. Settled => Settled'
  <2>1. ReadyFrames' = ReadyFrames /\ First' = First
    BY DEF ReadyFrames, First
  <2> QED
    BY <2>1 DEF Settled
<1>4. Repairable' = Repairable
  BY DEF Repairable, Lost
<1>5. NetworkInOrder => NetworkInOrder'
  BY DEF NetworkInOrder, Sent, Handled, Full
<1>6. GroupsInOrder => GroupsInOrder'
  BY DEF GroupsInOrder, Full
<1> QED
  BY <1>1, <1>2, <1>3, <1>4, <1>5, <1>6 DEF PicturesInv, NetInv, SkipInv

LEMMA FreshStream ==
    ASSUME FreshReceive
    PROVE  PicturesInv' /\ NetInv' /\ SkipInv'
<1>1. /\ have' = [g \in Groups |-> {}] /\ closed' = {} /\ newest' = NoGroup
      /\ pending' = [f \in Frames |-> {}] /\ next' = 0 /\ needKey' = TRUE
      /\ flushing' = FALSE /\ emitted' = <<>> /\ air' = <<>> /\ at' = 0 /\ gone' = {}
  BY DEF FreshReceive
<1>2. HoldsBrought'
  BY FreshBrought
<1>3. ShownInOrder' /\ NoneSkipped'
  BY <1>1 DEF ShownInOrder, NoneSkipped
<1>4. Settled'
  BY <1>1 DEF Settled, ReadyFrames
<1>5. Sent' = {}
  <2>1. 0..at' - 1 = {}
    BY <1>1
  <2> QED
    BY <2>1 DEF Sent
<1>6. NetworkInOrder'
  BY <1>1, <1>5 DEF NetworkInOrder
<1>7. GroupsInOrder'
  <2>1. \A g \in Groups : ~Full(g)' /\ have'[g] = {}
    BY <1>1, NothingFull
  <2> QED
    BY <1>1, <2>1 DEF GroupsInOrder, NoGroup
<1> QED
  BY <1>2, <1>3, <1>4, <1>6, <1>7 DEF PicturesInv, NetInv, SkipInv

LEMMA StreamInit ==
    ASSUME TutkInit
    PROVE  PicturesInv /\ NetInv /\ SkipInv
<1>1. /\ have = [g \in Groups |-> {}] /\ closed = {} /\ newest = NoGroup
      /\ pending = [f \in Frames |-> {}] /\ next = 0 /\ needKey = TRUE
      /\ flushing = FALSE /\ emitted = <<>> /\ air = <<>> /\ at = 0 /\ gone = {}
  BY DEF TutkInit
<1>2. \A g \in Groups : ~Full(g) /\ have[g] = {}
  BY <1>1, FS_EmptySet, Sizes DEF Full
<1>3. HoldsBrought
  <2>1. \A s \in Slices : ~Brought(s)
    BY <1>2, SliceFacts DEF Brought
  <2> QED
    BY <1>1, <1>2, <2>1 DEF HoldsBrought, SlicesOf
<1>4. ShownInOrder /\ NoneSkipped
  BY <1>1 DEF ShownInOrder, NoneSkipped
<1>5. Settled
  BY <1>1 DEF Settled, ReadyFrames
<1>6. Sent = {}
  <2>1. 0..at - 1 = {}
    BY <1>1
  <2> QED
    BY <2>1 DEF Sent
<1>7. NetworkInOrder
  BY <1>1, <1>6 DEF NetworkInOrder
<1>8. GroupsInOrder
  BY <1>1, <1>2 DEF GroupsInOrder
<1> QED
  BY <1>3, <1>4, <1>5, <1>7, <1>8 DEF PicturesInv, NetInv, SkipInv

LEMMA SendStream ==
    ASSUME StreamTypes, PicturesInv, NetInv, PrinterSends
    PROVE  PicturesInv' /\ NetInv' /\ (SkipInv => SkipInv')
<1>1. UNCHANGED <<have, closed, newest, pending, next, needKey, flushing, emitted, calm, framed, joinMode>>
  BY PrinterFacts DEF fecVars, frameVars
<1>2. (ShownInOrder => ShownInOrder') /\ (NoneSkipped => NoneSkipped')
  BY <1>1 DEF ShownInOrder, NoneSkipped
<1>3. HoldsBrought => HoldsBrought'
  BY <1>1 DEF HoldsBrought, Behind, Brought, Full
<1>4. Settled => Settled'
  <2>1. ReadyFrames' = ReadyFrames /\ First' = First
    BY <1>1 DEF ReadyFrames, First
  <2> QED
    BY <1>1, <2>1 DEF Settled
<1>5. Repairable' => Repairable
  <2>1. gone \subseteq gone' /\ gone' \subseteq Packets
    BY PrinterFacts DEF StreamTypes
  <2> SUFFICES ASSUME NEW g \in Groups, Cardinality(Lost(g)') <= M PROVE Cardinality(Lost(g)) <= M
    BY DEF Repairable
  <2>2. Lost(g) \subseteq Lost(g)' /\ Lost(g)' \subseteq Packets
    BY <2>1 DEF Lost
  <2>3. /\ Cardinality(Lost(g)) \in Nat /\ Cardinality(Lost(g)') \in Nat
        /\ Cardinality(Lost(g)) <= Cardinality(Lost(g)')
    BY <2>2, PacketSets, FS_Subset, FS_CardinalityType
  <2> QED
    BY <2>3, Sizes
<1>6. GroupsInOrder => GroupsInOrder'
  BY <1>1 DEF GroupsInOrder, Full, NoGroup
<1> QED
  BY <1>1, <1>2, <1>3, <1>4, <1>5, <1>6, SendInOrder DEF PicturesInv, NetInv, SkipInv

LEMMA ReceiveStreamStep ==
    ASSUME StreamTypes, PicturesInv, NetInv, ReceiveStream
    PROVE  PicturesInv' /\ NetInv' /\ (SkipInv => SkipInv')
<1>1. UNCHANGED <<at, gone, framed, joinMode>>
  BY Received
<1>2. CASE ~framed
  BY <1>1, <1>2 DEF PicturesInv, NetInv, SkipInv
<1>3. CASE framed
  <2>1. PICK n \in 1..Len(air), rest \in Seq(Packets) :
          /\ Framed(air[n], rest) /\ calm' = (calm /\ n = 1)
          /\ n = 1 => Follows(rest)
    BY <1>3, Received
  <2>2. air[n] \in Packets
    BY ElementOfSeq DEF StreamTypes
  <2>3. flushing' /\ UNCHANGED <<next, needKey, emitted>>
    BY <2>1 DEF Framed
  <2>4. HoldsBrought'
    BY <1>3, <2>1, <2>2, FramedBrought DEF PicturesInv
  <2>5. ShownInOrder' /\ Settled'
    BY <1>1, <1>3, <2>3 DEF PicturesInv, ShownInOrder, Settled
  <2>6. Repairable' = Repairable
    BY <1>1 DEF Repairable, Lost
  <2>7. NetInv'
    <3> SUFFICES ASSUME calm', Repairable' PROVE NetworkInOrder' /\ GroupsInOrder'
      BY DEF NetInv
    <3>1. calm /\ n = 1
      BY <2>1
    <3> QED
      BY <1>1, <1>3, <2>1, <2>6, <3>1, ReceiveInOrder DEF PicturesInv, NetInv
  <2>8. SkipInv => SkipInv'
    <3>1. calm' => calm
      BY <2>1
    <3> QED
      BY <1>1, <2>3, <2>6, <3>1 DEF SkipInv, NoneSkipped
  <2> QED
    BY <2>4, <2>5, <2>7, <2>8 DEF PicturesInv
<1> QED
  BY <1>2, <1>3

LEMMA FlushStream ==
    ASSUME StreamTypes, PicturesInv, NetInv, FlushFrames
    PROVE  /\ PicturesInv' /\ NetInv'
           /\ Cardinality(SlicesOf(1)) > M /\ SkipInv => SkipInv'
<1>1. UNCHANGED <<air, at, gone, have, closed, newest, framed>> /\ (calm' => calm)
  <2>1. UNCHANGED <<netVars, fecVars, framed>> /\ (Delivers \/ Stops \/ Skips)
    BY Flushed
  <2>2. calm' => calm
    BY <2>1 DEF Delivers, Stops, Skips
  <2> QED
    BY <2>1, <2>2 DEF netVars, fecVars
<1>2. Repairable' = Repairable
  BY <1>1 DEF Repairable, Lost
<1>3. PicturesInv'
  BY <1>1, FlushBrought, FlushShown, FlushSettled DEF PicturesInv
<1>4. NetInv'
  <2>1. NetworkInOrder => NetworkInOrder'
    BY <1>1 DEF NetworkInOrder, Sent, Handled, Full
  <2>2. GroupsInOrder => GroupsInOrder'
    BY <1>1 DEF GroupsInOrder, Full, NoGroup
  <2> QED
    BY <1>1, <1>2, <2>1, <2>2 DEF NetInv
<1>5. ASSUME Cardinality(SlicesOf(1)) > M, SkipInv PROVE SkipInv'
  BY <1>1, <1>2, <1>5, FlushSkipsNone DEF PicturesInv, NetInv, SkipInv
<1> QED
  BY <1>3, <1>4, <1>5

LEMMA StreamStep ==
    ASSUME TypeOK, LinkInv, PicturesInv, NetInv, TutkNext \/ UNCHANGED tutkVars
    PROVE  /\ PicturesInv' /\ NetInv'
           /\ Cardinality(SlicesOf(1)) > M /\ SkipInv => SkipInv'
<1>1. StreamTypes
  BY TypeParts
<1>2. CASE Quiet /\ (framed' => framed) /\ UNCHANGED joinMode
  BY <1>2, QuietStream DEF Quiet
<1>3. CASE NextFrame
  BY <1>3, QuietStream DEF NextFrame, linkVars
<1>4. CASE LeaveReturns
  BY <1>4, QuietStream DEF LeaveReturns, linkVars
<1>5. CASE PrinterSends
  BY <1>1, <1>5, SendStream
<1>6. CASE ReceiveStream
  BY <1>1, <1>6, ReceiveStreamStep
<1>7. CASE FlushFrames
  BY <1>1, <1>7, FlushStream
<1>8. CASE RoundOver \/ End
  BY <1>8, FreshStream DEF RoundOver, End
<1> QED
  BY <1>2, <1>3, <1>4, <1>5, <1>6, <1>7, <1>8, QuietSteps

LEMMA TutkTypesInit ==
    ASSUME TutkInit
    PROVE  TypeOK /\ LinkInv
<1>1. Cardinality(Packets) \in Nat
  BY PacketSets, FS_CardinalityType
<1>2. PlaceTypes /\ PathTypes /\ SockTypes
  BY DEF TutkInit, PlaceTypes, PathTypes, SockTypes
<1>3. CountTypes
  BY Bounds DEF TutkInit, CountTypes
<1>4. FlagTypes
  BY DEF TutkInit, FlagTypes
<1>5. StreamTypes
  <2>1. needKey \in BOOLEAN /\ flushing \in BOOLEAN /\ calm \in BOOLEAN
    BY DEF TutkInit
  <2>2. air \in Seq(Packets) /\ emitted \in Seq(Frames) /\ queue \in Seq(Frames)
    BY DEF TutkInit
  <2>3. at \in 0..Cardinality(Packets) /\ gone \subseteq Packets /\ Len(queue) <= MaxQueued
    BY <1>1, Bounds DEF TutkInit
  <2>4. /\ have \in [Groups -> SUBSET (0..K + M - 1)] /\ closed \subseteq Groups
        /\ newest \in Groups \cup {Cardinality(Groups)}
    BY DEF TutkInit, NoGroup
  <2>5. pending \in [Frames -> SUBSET Slices] /\ next = 0
    BY DEF TutkInit
  <2> QED
    BY <2>1, <2>2, <2>3, <2>4, <2>5 DEF StreamTypes
<1>6. LinkInv
  BY DEF TutkInit, LinkInv, NoSocketLeak
<1> QED
  BY <1>2, <1>3, <1>4, <1>5, <1>6, TypeParts DEF LinkTypes

LEMMA TutkTypesStep ==
    ASSUME TypeOK, LinkInv, TutkNext \/ UNCHANGED tutkVars
    PROVE  TypeOK' /\ LinkInv'
<1>1. LinkTypes /\ StreamTypes
  BY TypeParts
<1>2. LinkTypes'
  BY <1>1, PlaceTypesStep, PathTypesStep, SockTypesStep, CountTypesStep, FlagTypesStep DEF LinkTypes
<1>3. StreamTypes' /\ LinkInv'
  BY <1>1, StreamTypesStep, LinkInvStep
<1> QED
  BY <1>2, <1>3 DEF TypeOK, LinkTypes, PlaceTypes, PathTypes, SockTypes, CountTypes, FlagTypes,
                    StreamTypes

\* What the invariant says about the frames shown.
LEMMA ShownSound ==
    ASSUME TypeOK, PicturesInv
    PROVE  NoBrokenReference /\ EmittedInOrder
BY DEF PicturesInv, ShownInOrder, NoBrokenReference, EmittedInOrder

LEMMA AllShown ==
    ASSUME TypeOK, PicturesInv, NetInv, SkipInv
    PROVE  FecHidesLoss
<1> SUFFICES ASSUME framed, calm, ~flushing, at = Cardinality(Packets), air = <<>>, Repairable
             PROVE  {emitted[n] : n \in 1..Len(emitted)} = Frames
  BY DEF FecHidesLoss, Repairable, Lost
<1>1. StreamTypes /\ HoldsBrought /\ ShownInOrder /\ Settled /\ NetworkInOrder /\ NoneSkipped
  BY TypeParts DEF PicturesInv, NetInv, SkipInv
<1>2. \A s \in Slices : Brought(s)
  BY <1>1, AllThere
<1>3. /\ Frames \subseteq Nat \ {0} /\ next \in Nat /\ emitted \in Seq(Frames)
      /\ \A f \in Frames : SlicesOf(f) # {} /\ SlicesOf(f) \subseteq Slices /\ 1..f \subseteq Frames
  BY <1>1, FramesFacts DEF StreamTypes
<1>4. \A f \in Frames : pending[f] = IF Behind(f) THEN {} ELSE SlicesOf(f)
  BY <1>1, <1>2, <1>3 DEF HoldsBrought
<1>5. ReadyFrames = {}
  <2> SUFFICES ASSUME ReadyFrames # {} PROVE FALSE
    OBVIOUS
  <2>1. First \in Frames /\ pending[First] # {} /\ \A h \in ReadyFrames : First <= h
    BY FirstFacts DEF ReadyFrames
  <2>2. ~Behind(First) /\ pending[First] = SlicesOf(First)
    BY <1>4, <2>1
  <2>3. next # 0 /\ First # next
    BY <1>1, <2>2 DEF Settled
  <2>4. First \in Nat /\ next \in Nat \ {0} /\ ~(First < next)
    BY <1>3, <2>1, <2>2, <2>3 DEF Behind
  <2>5. next < First
    BY <2>3, <2>4
  <2>6. next \in Frames /\ ~Behind(next)
    BY <1>3, <2>1, <2>4, <2>5 DEF Behind
  <2>7. next \in ReadyFrames
    BY <1>3, <1>4, <2>6 DEF ReadyFrames
  <2>8. First <= next
    BY <2>1, <2>7
  <2> QED
    BY <2>4, <2>5, <2>8
<1>6. ASSUME NEW f \in Frames PROVE \E n \in 1..Len(emitted) : emitted[n] = f
  <2>1. pending[f] = {}
    BY <1>5 DEF ReadyFrames
  <2>2. Behind(f)
    BY <1>3, <1>4, <2>1
  <2> QED
    BY <1>1, <2>2 DEF NoneSkipped, Behind
<1>7. \A n \in 1..Len(emitted) : emitted[n] \in Frames
  BY <1>3, ElementOfSeq
<1> QED
  BY <1>6, <1>7

\* Whatever is lost, repeated or overtaken: the frames shown are in order and none comes
\* without the one it refers to (FecReceiver::add, FrameQueue::deliver).
THEOREM ShownFramesHold ==
    TutkSpec => [](TypeOK /\ NoBrokenReference /\ EmittedInOrder)
<1> DEFINE Inv == TypeOK /\ LinkInv /\ PicturesInv /\ NetInv
<1>1. TutkInit => Inv
  BY TutkTypesInit, StreamInit
<1>2. Inv /\ [TutkNext]_tutkVars => Inv'
  BY TutkTypesStep, StreamStep
<1>3. Inv => TypeOK /\ NoBrokenReference /\ EmittedInOrder
  BY ShownSound
<1> HIDE DEF Inv
<1> QED
  BY <1>1, <1>2, <1>3, PTL DEF TutkSpec

\* Parity hides loss as well: every frame is shown when no group lost more than it has
\* parity for.  The first frame must have more slices than that, or it may be lost whole
\* until its group is repaired, and flush, which knows no next frame yet, does not wait for
\* it (FecReceiver::recover, FrameQueue::flush).
THEOREM PicturesHold ==
    ASSUME Cardinality(SlicesOf(1)) > M
    PROVE  TutkSpec => []PicturesSound
<1> DEFINE Inv == TypeOK /\ LinkInv /\ PicturesInv /\ NetInv /\ SkipInv
<1>1. TutkInit => Inv
  BY TutkTypesInit, StreamInit
<1>2. Inv /\ [TutkNext]_tutkVars => Inv'
  BY TutkTypesStep, StreamStep
<1>3. Inv => PicturesSound
  BY ShownSound, AllShown DEF PicturesSound
<1> HIDE DEF Inv
<1> QED
  BY <1>1, <1>2, <1>3, PTL DEF TutkSpec

\* The safety part of SessionSound: of the sockets that raced only the adopted one stays
\* open, and no request is sent before its login (TutkSession::Impl::open_path, drain_ctrl).
THEOREM SessionSafe ==
    TutkSpec => []NoSocketLeak /\ RequestsAfterLogin
<1> DEFINE Inv == TypeOK /\ LinkInv
<1>1. TutkInit => Inv
  BY TutkTypesInit
<1>2. Inv /\ [TutkNext]_tutkVars => Inv'
  BY TutkTypesStep
<1>3. Inv => NoSocketLeak
  BY DEF LinkInv, NoSocketLeak
<1>4. Inv /\ [TutkNext]_tutkVars => [asked' > asked => accepted]_tutkVars
  BY AskedStep, TypeParts
<1> HIDE DEF Inv
<1> QED
  BY <1>1, <1>2, <1>3, <1>4, PTL DEF TutkSpec, RequestsAfterLogin
===============================================================================
