----------------------------- MODULE SourceTunnel -----------------------------
(***************************************************************************)
(* The Bambu_* tunnel of stubs/BambuSource.cpp: one tunnel object, opened  *)
(* by the host for video (StartStream) or for the file browser             *)
(* (StartStreamEx CTRL), over TLS :6000 (scheme "local"), RTSP(S) or TUTK, *)
(* with the fallbacks between them.  The RTSP path is RtspStream, the CTRL *)
(* worker is FtpsBridge; the TUTK session inside is abstract (TutkSession  *)
(* models it).                                                             *)
(*                                                                         *)
(* The host's thread makes one call at a time.  Bambu_Close may come from  *)
(* another thread while that thread sits in an MJPEG ReadSample, the case  *)
(* mjpg_io_mu exists for; with RTSP, TUTK and CTRL tunnels the host closes *)
(* between its own calls.                                                  *)
(***************************************************************************)
EXTENDS RtspStream, FtpsBridge

VARIABLES mode,     \* what the host wants: "video" or "ctrl"
          scheme,   \* url.scheme: "local", "rtsps", "tutk"
          lv,       \* url.lv: "unset" (empty), "rtsps", "off"
          force,    \* force_ftps
          api,      \* progress of the host's calls
          ssl,      \* t->ssl of :6000: "none", "up"
          tutk,     \* t->tutk_source / t->tutk_ctrl: "none", "source", "ctrl"
          tl,       \* tl_session: "none", "login", "ready"
          authed,   \* mjpg_authed
          seen,     \* sub_type as GetStreamInfo reports it
          rd,       \* MJPEG reader: "out", "checked", "inread"
          mu,       \* holder of mjpg_io_mu
          shut,     \* the :6000 socket has been shut down
          cl        \* Bambu_Close: "no", "worker", "wake", "lock", "rtsp", "closed"

svars == <<mode, scheme, lv, force, api, ssl, tutk, tl, authed, seen, rd,
           mu, shut, cl>>
vars == <<rvars, bvars, svars>>

SInit == /\ mode \in {"video", "ctrl"} /\ scheme \in {"local", "rtsps", "tutk"}
         /\ lv \in {"unset", "rtsps", "off"} /\ (scheme # "local" => lv = "unset")
         /\ (mode = "ctrl" => lv # "off")   \* lv=off only matters to video
         /\ force \in BOOLEAN /\ (mode = "video" => ~force)
         /\ api = "created" /\ ssl = "none" /\ tutk = "none" /\ tl = "none"
         /\ authed = FALSE /\ seen = "MJPG" /\ rd = "out" /\ mu = "none"
         /\ shut = FALSE /\ cl = "no"

Init == RInit /\ BInit /\ SInit

Idle == cl = "no" /\ ~crashed
Frame == UNCHANGED <<mode, lv, force, rd, mu, shut, cl>>

\* fallback_to_tutk frees the :6000 session before it adopts the new URL.
LanDropped(s) == "none"

\* fallback_to_tutk and open_tutk: the plugin must give a URL for the device;
\* then LAN resources go and the scheme changes, whether TUTK opens or not.
FallbackToTutk(keep, next) ==
  \/ /\ api' = "failed" /\ ssl' = keep /\ UNCHANGED <<scheme, tutk, seen>>
  \/ /\ ssl' = LanDropped(keep) /\ scheme' = "tutk"
     /\ \/ api' = next /\ tutk' = "source" /\ seen' \in {"MJPG", "AVC1"}
        \/ api' = "failed" /\ UNCHANGED <<tutk, seen>>

(***************************************************************************)
(* Bambu_Open                                                              *)
(***************************************************************************)
OpenDeferred ==
  /\ Idle /\ api = "created"
  /\ scheme = "tutk" \/ (scheme = "local" /\ lv = "rtsps")
  /\ api' = "opened"
  /\ UNCHANGED <<rvars, bvars, scheme, ssl, tutk, tl, authed, seen>> /\ Frame

OpenLocal ==
  /\ Idle /\ api = "created" /\ scheme = "local" /\ lv # "rtsps"
  /\ \/ api' = "opened" /\ ssl' = "up" /\ UNCHANGED <<scheme, tutk, seen>>
     \/ FallbackToTutk("none", "opened")
  /\ UNCHANGED <<rvars, bvars, tl, authed>> /\ Frame

OpenRtsp ==
  /\ Idle /\ api = "created" /\ scheme = "rtsps"
  /\ api' = "opening"
  /\ UNCHANGED <<rvars, bvars, scheme, ssl, tutk, tl, authed, seen>> /\ Frame

\* The RTSP handshake runs inside Open or StartStream.
RtspHandshake ==
  /\ Idle /\ api \in {"opening", "starting"} /\ RStartNext
  /\ UNCHANGED <<bvars, svars>>

AfterRtsp(a) == IF a = "opening" THEN "opened" ELSE "streaming"

RtspUp ==
  /\ Idle /\ api \in {"opening", "starting"} /\ cpc = "playing"
  /\ api' = AfterRtsp(api) /\ seen' = "AVC1"
  /\ UNCHANGED <<rvars, bvars, scheme, ssl, tutk, tl, authed>> /\ Frame

RtspFailed ==
  /\ Idle /\ api \in {"opening", "starting"} /\ cpc = "failed"
  /\ FallbackToTutk(ssl, AfterRtsp(api))
  /\ UNCHANGED <<rvars, bvars, tl, authed>> /\ Frame

(***************************************************************************)
(* Bambu_StartStream: video                                                *)
(***************************************************************************)
\* lv=rtsps: the :6000 session goes before the stream is opened elsewhere.
StartRedirect ==
  /\ Idle /\ api = "opened" /\ mode = "video" /\ scheme = "local" /\ lv = "rtsps"
  /\ scheme' = "rtsps" /\ ssl' = "none" /\ api' = "starting"
  /\ UNCHANGED <<rvars, bvars, tutk, tl, authed, seen>> /\ Frame

\* lv=off: only TUTK can serve video.
StartOff ==
  /\ Idle /\ api = "opened" /\ mode = "video" /\ scheme = "local" /\ lv = "off"
  /\ FallbackToTutk(ssl, "streaming")
  /\ UNCHANGED <<rvars, bvars, tl, authed>> /\ Frame

StartTutk ==
  /\ Idle /\ api = "opened" /\ mode = "video" /\ scheme = "tutk"
  /\ IF tutk = "source" THEN api' = "streaming" /\ UNCHANGED <<tutk, seen>>
     ELSE \/ api' = "streaming" /\ tutk' = "source" /\ seen' \in {"MJPG", "AVC1"}
          \/ api' = "failed" /\ UNCHANGED <<tutk, seen>>
  /\ UNCHANGED <<rvars, bvars, scheme, ssl, tl, authed>> /\ Frame

StartRtsp ==
  /\ Idle /\ api = "opened" /\ mode = "video" /\ scheme = "rtsps"
  /\ api' = IF cpc = "playing" THEN "streaming" ELSE "failed"
  /\ UNCHANGED <<rvars, bvars, scheme, ssl, tutk, tl, authed, seen>> /\ Frame

\* MJPEG: the auth packet, once; a failed write falls back to TUTK.
StartMjpeg ==
  /\ Idle /\ api = "opened" /\ mode = "video" /\ scheme = "local" /\ lv = "unset"
  /\ \/ authed' = TRUE /\ api' = "streaming" /\ UNCHANGED <<scheme, ssl, tutk, seen>>
     \/ FallbackToTutk(ssl, "streaming") /\ UNCHANGED authed
  /\ UNCHANGED <<rvars, bvars, tl>> /\ Frame

(***************************************************************************)
(* Bambu_StartStreamEx: the file browser                                   *)
(***************************************************************************)
\* start_tutk_ctrl, unless the FTPS bridge is wanted; else fallback_to_lan.
StartCtrlTutk ==
  /\ Idle /\ api = "opened" /\ mode = "ctrl" /\ scheme = "tutk"
  /\ \/ /\ ~force /\ tutk' = "ctrl" /\ api' = "ctrl" /\ UNCHANGED <<scheme, ssl>>
     \/ /\ scheme' = "local" /\ ssl' = "up" /\ UNCHANGED <<tutk, api>>
     \/ /\ scheme' = "local" /\ api' = "failed" /\ UNCHANGED <<tutk, ssl>>
     \/ /\ api' = "failed" /\ UNCHANGED <<scheme, tutk, ssl>>
  /\ UNCHANGED <<rvars, bvars, tl, authed, seen>> /\ Frame

\* Open may have skipped the dial (lv=rtsps); an RTSP tunnel has no :6000 session.
CtrlDial ==
  /\ Idle /\ api = "opened" /\ mode = "ctrl" /\ scheme # "tutk" /\ ssl = "none"
  /\ \/ scheme = "local" /\ ssl' = "up" /\ UNCHANGED api
     \/ api' = "failed" /\ UNCHANGED ssl
  /\ UNCHANGED <<rvars, bvars, scheme, tutk, tl, authed, seen>> /\ Frame

\* start_native_ctrl_handshake: polled; one Session is kept across the polls, each
\* of which makes a step (would_block); the last one starts the worker; a failure drops the session.
CtrlHandshake ==
  /\ Idle /\ api = "opened" /\ mode = "ctrl" /\ ssl = "up"
  /\ \/ /\ tl = "none" /\ tl' = "login" /\ UNCHANGED <<api, cw>>
     \/ /\ tl = "login" /\ tl' = "ready" /\ api' = "ctrl" /\ cw' = "run"
     \/ /\ tl' = "none" /\ api' = "failed" /\ UNCHANGED cw
  /\ UNCHANGED <<rvars, ctrl_in, nreq, ctrl_out, answer, cancelled, ftp, job,
                 ctrl_stop, crashed, scheme, ssl, tutk, authed, seen>> /\ Frame

HostCtrl ==
  /\ Idle /\ api = "ctrl"
  /\ \/ \E c \in Cmds : (force \/ c = "native") /\ SendMessage(c)
     \/ ReadReply
  /\ UNCHANGED <<rvars, svars>>

\* With TUTK the request goes out at once and the session's thread queues the
\* answer; a lost session is reported when the queue is empty.
TutkCtrl ==
  /\ Idle /\ api = "ctrl" /\ tutk = "ctrl" /\ ctrl_out = <<>>
  /\ \/ /\ nreq < Reqs /\ nreq' = nreq + 1
        /\ ctrl_out' = <<Reply(nreq + 1, "ok")>> /\ UNCHANGED api
     \/ /\ api' = "failed" /\ UNCHANGED <<nreq, ctrl_out>>
  /\ UNCHANGED <<rvars, ctrl_in, answer, cancelled, ftp, job, cw, ctrl_stop,
                 crashed, scheme, ssl, tutk, tl, authed, seen>> /\ Frame

Worker == (BWorkerNext \/ FtpIdleDrop) /\ UNCHANGED <<rvars, svars>>

(***************************************************************************)
(* Bambu_ReadSample: video                                                 *)
(***************************************************************************)
ReadRtsp == /\ Idle /\ api = "streaming" /\ scheme = "rtsps" /\ Pull
            /\ UNCHANGED <<bvars, svars>>

RtspRuns == ~crashed /\ RRunNext /\ UNCHANGED <<bvars, svars>>

\* read_tutk: the first frame settles the codec.
ReadTutk == /\ Idle /\ api = "streaming" /\ scheme = "tutk" /\ tutk = "source"
            /\ seen' \in {"MJPG", "AVC1"}
            /\ UNCHANGED <<rvars, bvars, scheme, api, ssl, tutk, tl, authed>> /\ Frame

\* ssl_read_all: test, take mjpg_io_mu, test again, read, release.
ReaderEnters ==
  /\ Idle /\ api = "streaming" /\ scheme = "local" /\ rd = "out" /\ ssl = "up"
  /\ rd' = "checked"
  /\ UNCHANGED <<rvars, bvars, mode, scheme, lv, force, api, ssl, tutk, tl,
                 authed, seen, mu, shut, cl>>

ReaderLocks ==
  /\ rd = "checked" /\ mu = "none"
  /\ IF ssl = "none" \/ cl # "no"
       THEN rd' = "out" /\ UNCHANGED mu
       ELSE rd' = "inread" /\ mu' = "reader"
  /\ UNCHANGED <<rvars, bvars, mode, scheme, lv, force, api, ssl, tutk, tl,
                 authed, seen, shut, cl>>

\* SSL_read returns: data (loop: test again), end of stream or an error.
ReaderReturns ==
  /\ rd = "inread"
  /\ mu' = "none"
  /\ \/ rd' = "checked" /\ ~shut /\ UNCHANGED api
     \/ rd' = "out" /\ api' \in {"streaming", "failed"} /\ (shut => api' = "failed")
  /\ UNCHANGED <<rvars, bvars, mode, scheme, lv, force, ssl, tutk, tl, authed,
                 seen, shut, cl>>

(***************************************************************************)
(* Bambu_Close                                                             *)
(***************************************************************************)
MayClose == api \in {"opened", "streaming", "ctrl", "failed"}

CloseBegins ==
  /\ Idle /\ MayClose
  /\ cl' = "worker" /\ ctrl_stop' = TRUE
  /\ UNCHANGED <<rvars, ctrl_in, nreq, ctrl_out, answer, cancelled, ftp, job, cw,
                 crashed, mode, scheme, lv, force, api, ssl, tutk, tl, authed,
                 seen, rd, mu, shut>>

\* stop_ctrl_mode joins the worker before the tunnel is dismantled.
WorkerGone == cw # "run"

\* stop_ctrl_mode joins the worker, then drops what it used (nothing when CTRL
\* mode was never reached: an abandoned handshake's session stays).
CloseJoinsWorker ==
  /\ cl = "worker" /\ ~crashed /\ WorkerGone
  /\ cl' = "wake"
  /\ ftp' = IF api = "ctrl" THEN "none" ELSE ftp
  /\ cancelled' = {}
  /\ tl' = IF cw = "gone" THEN "none" ELSE tl
  /\ tutk' = "none"
  /\ UNCHANGED <<rvars, ctrl_in, nreq, ctrl_out, answer, job, cw, ctrl_stop,
                 crashed, mode, scheme, lv, force, api, ssl, authed, seen, rd,
                 mu, shut>>

\* tunnel_close step 1 without the socket shutdown.
NoWake(s) == s
\* tunnel_close step 1: shut the socket down so that a blocked SSL_read returns.
Wake(s) == ssl = "up"

CloseWakesReader ==
  /\ cl = "wake"
  /\ shut' = Wake(shut) /\ cl' = "lock"
  /\ UNCHANGED <<rvars, bvars, mode, scheme, lv, force, api, ssl, tutk, tl,
                 authed, seen, rd, mu>>

\* The SSL object is freed whoever holds the lock.
NoLock == TRUE
\* tunnel_close step 2: free the SSL object under mjpg_io_mu.
LockFree == mu = "none"

CloseFreesSsl ==
  /\ cl = "lock" /\ LockFree
  /\ ssl' = "none" /\ cl' = "rtsp"
  /\ UNCHANGED <<rvars, bvars, mode, scheme, lv, force, api, tutk, tl, authed,
                 seen, rd, mu, shut>>

\* tunnel_close stops the RTSP passthrough and waits for it.
RtspStopped == cpc \in {"idle", "failed"} \/ stop = "stopped"

CloseStopsRtsp ==
  /\ cl = "rtsp" /\ RStopNext
  /\ UNCHANGED <<bvars, svars>>

Closed ==
  /\ cl = "rtsp" /\ RtspStopped
  /\ cl' = "closed"
  /\ UNCHANGED <<rvars, bvars, mode, scheme, lv, force, api, ssl, tutk, tl,
                 authed, seen, rd, mu, shut>>

\* The tunnel is closed, or the process is gone.
Over == (cl = "closed" \/ crashed) /\ UNCHANGED vars

CloseNext == CloseJoinsWorker \/ CloseWakesReader \/ CloseFreesSsl
             \/ CloseStopsRtsp \/ Closed

Next == \/ OpenDeferred \/ OpenLocal \/ OpenRtsp \/ RtspHandshake \/ RtspUp
        \/ RtspFailed \/ StartRedirect \/ StartOff \/ StartTutk \/ StartRtsp
        \/ StartMjpeg \/ StartCtrlTutk \/ CtrlDial \/ CtrlHandshake \/ HostCtrl
        \/ TutkCtrl \/ Worker \/ ReadRtsp \/ RtspRuns \/ ReadTutk
        \/ ReaderEnters \/ ReaderLocks \/ ReaderReturns \/ CloseBegins
        \/ CloseNext \/ Over

\* Threads keep running; a read returns once the socket is shut down; the worker's
\* FTPS operations time out; the host polls for samples and replies; time passes.
\* Nothing is assumed of the printer: neither that a read of :6000 ends by itself
\* (ReaderReturns) nor that a forwarded request is answered (NativeReceive).
Fairness ==
  /\ WF_vars(CloseNext)
  /\ WF_vars(ReaderLocks) /\ WF_vars(shut /\ ReaderReturns)
  /\ WF_vars(BWorkerOwn /\ UNCHANGED <<rvars, svars>>)
  /\ WF_vars(Idle /\ api = "ctrl" /\ ReadReply /\ UNCHANGED <<rvars, svars>>)
  /\ WF_vars(ReadRtsp) /\ WF_vars(RtspUp)
  /\ WF_vars((WorkerAssembles \/ WorkerStops \/ TimePasses) /\ UNCHANGED <<bvars, svars>>)
  /\ WF_vars(down /\ PingEnds /\ UNCHANGED <<bvars, svars>>)

Spec == Init /\ [][Next]_vars /\ Fairness

(***************************************************************************)
(* Properties.                                                             *)
(***************************************************************************)
\* The SSL object is never freed under a reader inside SSL_read (tunnel_close
\* and ssl_read_all, BambuSource.cpp).
SslNotFreedInRead == rd = "inread" => ssl = "up"

\* A stream the host was told has started has its transport, and only that one:
\* fallbacks and redirects leave no other connection behind.
OneTransport ==
  api = "streaming" /\ cl = "no" =>
    /\ (scheme = "local") = (ssl = "up")
    /\ (scheme = "tutk") = (tutk = "source")
    /\ (scheme = "rtsps") = (cpc = "playing")

\* Bambu_Close leaves nothing behind: no connection, thread or FTPS session.
NothingLeftOpen ==
  cl = "closed" => /\ ssl = "none" /\ tutk = "none" /\ ftp = "none"
                   /\ cw # "run" /\ wpc # "run" /\ ping # "run" /\ rssl # "up"

\* Arrivals with true (unwrapped) numbers: each within half the number space
\* of the highest so far and not before the first, starting just before a wrap.
Highest(a, i) == CHOOSE x \in {a[j] : j \in 1..i} : \A j \in 1..i : a[j] <= x
Arrivals ==
  {a \in [1..5 -> SeqMod - 1..2 * SeqMod + 1] :
     /\ a[1] = SeqMod - 1
     /\ \A i \in 2..5 : LET h == Highest(a, i - 1) IN
          h - SeqMod \div 2 <= a[i] /\ a[i] < h + SeqMod \div 2}

\* Receiver reports are exact across wraps, losses, duplicates and reordering:
\* the highest number is the true one and the loss is what is missing up to it
\* (rtsp_client.cpp update_rtp_stats, build_receiver_report).
ReportsExact ==
  api = "created" =>
    \A a \in Arrivals :
      LET r == ReceiverReport(StatsAfter(a))
          h == Highest(a, 5)
          gone == h - a[1] + 1
      IN  r.highest = h /\ r.lost = IF gone > 5 THEN gone - 5 ELSE 0

\* A stream that produces no more pictures is reported to the host's reads: by the
\* final marker, or by the watchdog when the printer goes silent but keeps the
\* connection alive (rtsp_passthrough.cpp try_pull).
EndIsReported ==
  (api = "streaming" /\ wpc = "run" /\ pos = Len(Video))
    ~> (pulled.rc \in {"end", "error"} \/ cl # "no")

\* Close returns though the reader is blocked in a read, the worker in a transfer or
\* the RTSP worker in its socket; unless the worker waits for ever for the answer to
\* a forwarded request: it is joined before the socket is shut down, and its receive
\* has no deadline (bambu_close_impl, native_ctrl_send_worker, recv_payload).
CloseReturns ==
  ([]<>~AwaitsPrinter) => ((cl # "no") ~> (cl = "closed" \/ crashed))

\* Every file-browser request the worker takes up in FTPS mode is answered for
\* good, unless the tunnel is closed.
RequestsAnswered ==
  \A i \in 1..Reqs : (job.seq = i /\ job.cmd # "native") ~>
                       (answer[i].finals = 1 \/ ctrl_stop \/ crashed)

\* The RTSP stream: whole pictures in order, and exact receiver reports
\* (rtsp_passthrough.cpp, rtsp_client.cpp).
StreamSound == WholePictures /\ PicturesInOrder /\ ReportsExact

\* The connections: one per started stream, none after Close, and none freed under a
\* thread that uses it (BambuSource.cpp, rtsp_passthrough.cpp).
TransportSound == OneTransport /\ NothingLeftOpen /\ SslNotFreedInRead /\ SslOutlivesThreads

\* The host is never left waiting: for the end of a stream, the answer to a request
\* served over FTPS or the return of Close (but for a printer silent on :6000).
TunnelLive == EndIsReported /\ RequestsAnswered /\ CloseReturns
===============================================================================
