------------------------------ MODULE FtpsBridge ------------------------------
(***************************************************************************)
(* The file browser's CTRL channel of stubs/BambuSource.cpp: requests      *)
(* queued by Bambu_SendMessage, one worker thread that serves them, replies*)
(* queued for Bambu_ReadSample.  With force_ftps the worker answers the    *)
(* file commands itself over FTPS; everything else is forwarded to the     *)
(* printer on :6000 and its replies are passed back.                       *)
(*                                                                         *)
(* A file is FileUnits units long; a reply chunk holds ChunkUnits of them  *)
(* (256 KiB in the code).  Request i of Reqs is [cmd, arg]; its sequence   *)
(* number is i.                                                            *)
(***************************************************************************)
EXTENDS Naturals, Sequences, FiniteSets

CONSTANTS Reqs,        \* how many requests the host sends at most
          Cmds,        \* the commands it may send
          FileUnits,   \* size of the downloaded file
          ChunkUnits   \* kChunkSize

ASSUME BridgeAssumption ==
  Reqs \in Nat /\ FileUnits \in Nat /\ ChunkUnits \in Nat \ {0}

VARIABLES ctrl_in,    \* requests not yet taken by the worker: [cmd, seq]
          nreq,       \* requests sent so far
          ctrl_out,   \* replies not yet read: [seq, res, off, size, total, md5]
          answer,     \* per request: what the host has been given, see Record
          cancelled,  \* ctrl_cancelled
          ftp,        \* t->ftp: "none", "up", "stale" (dropped by the printer)
          job,        \* the request being served, its transfer state
          cw,         \* the worker: "none", "run", "gone"
          ctrl_stop,
          crashed     \* a null t->ftp was dereferenced: the process is gone

bvars == <<ctrl_in, nreq, ctrl_out, answer, cancelled, ftp, job, cw, ctrl_stop,
           crashed>>

NoJob == [seq |-> 0, cmd |-> "none", pc |-> "none", total |-> 0, buf |-> 0,
          sent |-> 0, dig |-> 0, got |-> 0, retried |-> FALSE]
Fresh(r) == [NoJob EXCEPT !.seq = r.seq, !.cmd = r.cmd, !.pc = "begin"]

\* What the host holds of a request's answer: bytes received in order from the
\* start, whether a chunk left a gap, the terminal result and how many came.
Record == [bytes |-> 0, gap |-> FALSE, res |-> "none", finals |-> 0, dig |-> 0]

BInit == /\ ctrl_in = <<>> /\ nreq = 0 /\ ctrl_out = <<>>
         /\ answer = [i \in 1..Reqs |-> Record]
         /\ cancelled = {} /\ ftp = "none" /\ job = NoJob
         /\ cw = "none" /\ ctrl_stop = FALSE /\ crashed = FALSE

Reply(seq, res) == [seq |-> seq, res |-> res, off |-> 0, size |-> 0, total |-> 0,
                    dig |-> 0]

(***************************************************************************)
(* Bambu_SendMessage and Bambu_ReadSample in CTRL mode.                    *)
(***************************************************************************)
SendMessage(c) ==
  /\ cw = "run" /\ ~ctrl_stop /\ ~crashed /\ nreq < Reqs
  /\ nreq' = nreq + 1
  /\ ctrl_in' = Append(ctrl_in, [seq |-> nreq + 1, cmd |-> c])
  /\ UNCHANGED <<ctrl_out, answer, cancelled, ftp, job, cw, ctrl_stop, crashed>>

\* The host files the reply under its request.
ReadReply ==
  /\ ctrl_out # <<>> /\ ~ctrl_stop /\ ~crashed
  /\ LET r == Head(ctrl_out)
         a == answer[r.seq]
     IN  answer' = [answer EXCEPT ![r.seq] =
           [bytes  |-> a.bytes + r.size,
            gap    |-> a.gap \/ (r.size > 0 /\ r.off # a.bytes) \/ a.finals > 0,
            res    |-> IF r.res = "continue" THEN a.res ELSE r.res,
            finals |-> a.finals + (IF r.res = "continue" THEN 0 ELSE 1),
            dig    |-> r.dig]]
  /\ ctrl_out' = Tail(ctrl_out)
  /\ UNCHANGED <<ctrl_in, nreq, cancelled, ftp, job, cw, ctrl_stop, crashed>>

(***************************************************************************)
(* native_ctrl_send_worker: take the next request.                         *)
(***************************************************************************)
Working == cw = "run" /\ ~crashed

TakeRequest ==
  /\ Working /\ job = NoJob /\ ctrl_in # <<>> /\ ~ctrl_stop
  /\ job' = Fresh(Head(ctrl_in)) /\ ctrl_in' = Tail(ctrl_in)
  /\ UNCHANGED <<nreq, ctrl_out, answer, cancelled, ftp, cw, ctrl_stop, crashed>>

\* The worker ends between two requests once stop_ctrl_mode has raised the flag.
WorkerLeaves ==
  /\ Working /\ job = NoJob /\ ctrl_stop
  /\ cw' = "gone"
  /\ UNCHANGED <<ctrl_in, nreq, ctrl_out, answer, cancelled, ftp, job, ctrl_stop,
                 crashed>>

Serving(cs, pc) == Working /\ job.cmd \in cs /\ job.pc = pc

\* The job ends with these replies (CancelledGuard erases its number).
Finish(rs) == /\ ctrl_out' = ctrl_out \o rs
              /\ job' = NoJob
              /\ cancelled' = cancelled \ {job.seq}

(***************************************************************************)
(* The connection to the FTPS server.  ensure_ftp connects when there is   *)
(* none and probes the mounts; a failed connect leaves none, a failed      *)
(* probe leaves the connection (the next request finds it and goes on).    *)
(***************************************************************************)
EnsureFtp(f, up, err) ==
  \/ f # "none" /\ up = f /\ err = FALSE
  \/ f = "none" /\ up = "up" /\ err \in BOOLEAN
  \/ f = "none" /\ up = "none" /\ err = TRUE

\* reconnect_ftp drops the old connection first.
ReconnectFtp(up, err) == EnsureFtp("none", up, err)

\* One command on the connection: a stale connection always fails, a live one
\* may fail too (missing file, lost connection).
Works(f, ok) == f = "up" \/ ~ok

\* The printer closes an idle control connection (after about five minutes).
FtpIdleDrop ==
  /\ ftp = "up" /\ job = NoJob
  /\ ftp' = "stale"
  /\ UNCHANGED <<ctrl_in, nreq, ctrl_out, answer, cancelled, job, cw, ctrl_stop,
                 crashed>>

\* A failed connection is answered.
Unavailable(seq) == <<Reply(seq, "unavail")>>

\* Every file command begins with ensure_ftp and answers STOR_UNAVAIL if it fails.
FtpUnavailable ==
  /\ Serving({"ability", "list", "zip", "download", "del"}, "begin")
  /\ \E up \in {"none", "up"} : EnsureFtp(ftp, up, TRUE) /\ ftp' = up
  /\ Finish(Unavailable(job.seq))
  /\ UNCHANGED <<ctrl_in, nreq, answer, cw, ctrl_stop, crashed>>

\* REQUEST_MEDIA_ABILITY and LIST_INFO: one reply.  A listing that fails is
\* repeated once on a new connection; a second failure is an empty list, OK.
FtpOneShot ==
  /\ Serving({"ability", "list"}, "begin")
  /\ \E up \in {"up", "stale"}, ok \in BOOLEAN, up2 \in {"none", "up"}, e2 \in BOOLEAN :
       /\ EnsureFtp(ftp, up, FALSE)
       /\ job.cmd = "list" => Works(up, ok)
       /\ IF ok \/ job.cmd = "ability" THEN ftp' = up
                                       ELSE ReconnectFtp(up2, e2) /\ ftp' = up2
  /\ Finish(<<Reply(job.seq, "ok")>>)
  /\ UNCHANGED <<ctrl_in, nreq, answer, cw, ctrl_stop, crashed>>

\* FILE_DEL of two files.  DELE fails: reconnect once per request.  If that
\* reconnect failed too there is no client left, and the second file's DELE
\* dereferences it.
FtpDelete ==
  /\ Serving({"del"}, "begin")
  /\ \E up \in {"up", "stale"}, ok1, ok2 \in BOOLEAN, up2 \in {"none", "up"}, e2 \in BOOLEAN :
       /\ EnsureFtp(ftp, up, FALSE) /\ Works(up, ok1)
       /\ IF ok1 /\ ok2 THEN ftp' = up /\ UNCHANGED crashed
          ELSE /\ ReconnectFtp(up2, e2) /\ ftp' = up2
               /\ crashed' = (~ok1 /\ up2 = "none")
       /\ Finish(<<Reply(job.seq, IF ok1 /\ ok2 THEN "ok" ELSE "missing")>>)
  /\ UNCHANGED <<ctrl_in, nreq, answer, cw, ctrl_stop>>

\* TASK_CANCEL names the request before it.  It is served by the same worker,
\* so the request it names has ended by then.
TaskCancel ==
  /\ Serving({"cancel"}, "begin")
  /\ cancelled' = cancelled \cup {job.seq - 1}
  /\ ctrl_out' = Append(ctrl_out, Reply(job.seq, "ok"))
  /\ job' = NoJob
  /\ UNCHANGED <<ctrl_in, nreq, answer, ftp, cw, ctrl_stop, crashed>>

(***************************************************************************)
(* SUB_FILE with zip: the archive is buffered whole, then cut into chunks, *)
(* so that exactly the last one is final.                                  *)
(***************************************************************************)
Least(a, b) == IF a < b THEN a ELSE b

Chunks(seq, n) ==
  IF n = 0 THEN <<Reply(seq, "ok")>>
  ELSE [i \in 1..((n + ChunkUnits - 1) \div ChunkUnits) |->
         LET off == (i - 1) * ChunkUnits
             size == Least(ChunkUnits, n - off)
         IN  [seq |-> seq, off |-> off, size |-> size, total |-> n, dig |-> n,
              res |-> IF off + size = n THEN "ok" ELSE "continue"]]

SubFileZip ==
  /\ Serving({"zip"}, "begin")
  /\ \E up \in {"up", "stale"}, ok, ok2, e2 \in BOOLEAN, up2 \in {"none", "up"} :
       /\ EnsureFtp(ftp, up, FALSE) /\ Works(up, ok)
       /\ IF ok \/ job.seq \in cancelled THEN ftp' = up
          ELSE ReconnectFtp(up2, e2) /\ ftp' = up2
       /\ Finish(IF job.seq \in cancelled THEN <<Reply(job.seq, "cancel")>>
                 ELSE IF ok \/ (~e2 /\ ok2) THEN Chunks(job.seq, FileUnits)
                 ELSE <<Reply(job.seq, "missing")>>)
  /\ UNCHANGED <<ctrl_in, nreq, answer, cw, ctrl_stop, crashed>>

(***************************************************************************)
(* FILE_DOWNLOAD: SIZE, then RETR streamed in chunks with a running digest.*)
(***************************************************************************)
\* SIZE fails: reconnect and ask again; its result is then ignored.  If the
\* reconnect failed there is no client, and RETR dereferences it.
DownloadSize ==
  /\ Serving({"download"}, "begin")
  /\ \E up \in {"up", "stale"}, ok, ok2, e2 \in BOOLEAN, up2 \in {"none", "up"} :
       /\ EnsureFtp(ftp, up, FALSE) /\ Works(up, ok)
       /\ IF ok THEN /\ ftp' = up /\ UNCHANGED crashed
                     /\ job' = [job EXCEPT !.total = FileUnits, !.pc = "data"]
          ELSE /\ ReconnectFtp(up2, e2) /\ ftp' = up2
               /\ crashed' = (up2 = "none")
               /\ job' = [job EXCEPT !.total = IF ~e2 /\ ok2 THEN FileUnits ELSE 0,
                                     !.pc = "data"]
  /\ UNCHANGED <<ctrl_in, nreq, ctrl_out, answer, cancelled, cw, ctrl_stop>>

\* flush_chunk
Flush(j, last) ==
  [seq |-> j.seq, off |-> j.sent, size |-> j.buf, total |-> j.total,
   dig |-> IF last THEN j.dig ELSE 0, res |-> IF last THEN "ok" ELSE "continue"]

\* One piece of data: into the digest and the buffer; a full buffer is flushed.
DownloadData ==
  /\ Serving({"download"}, "data") /\ job.got < FileUnits
  /\ IF job.seq \in cancelled
       THEN Finish(<<Reply(job.seq, "cancel")>>)
       ELSE LET j == [job EXCEPT !.dig = @ + 1, !.buf = @ + 1, !.got = @ + 1]
            IN  /\ IF j.buf = ChunkUnits
                     THEN /\ job' = [j EXCEPT !.sent = @ + j.buf, !.buf = 0]
                          /\ ctrl_out' = Append(ctrl_out, Flush(j, FALSE))
                     ELSE job' = j /\ UNCHANGED ctrl_out
                /\ UNCHANGED cancelled
  /\ UNCHANGED <<ctrl_in, nreq, answer, ftp, cw, ctrl_stop, crashed>>

\* RETR again after any failure.
RetryAlways(j) == ~j.retried
Restarted(j) == [j EXCEPT !.retried = TRUE, !.got = 0, !.dig = 0]

\* RETR is repeated only while nothing has been handed out or buffered.
RetryAllowed(j) == ~j.retried /\ j.sent = 0 /\ j.buf = 0

\* RETR fails: repeat once on a new connection if allowed, else FILE_NO_EXIST.
DownloadCut ==
  /\ Serving({"download"}, "data")
  /\ \/ /\ RetryAllowed(job)
        /\ \E up2 \in {"none", "up"}, e2 \in BOOLEAN :
             /\ ReconnectFtp(up2, e2) /\ ftp' = up2
             /\ IF e2 THEN Finish(<<Reply(job.seq, "missing")>>)
                ELSE job' = Restarted(job) /\ UNCHANGED <<ctrl_out, cancelled>>
     \/ /\ ~RetryAllowed(job)
        /\ Finish(<<Reply(job.seq, "missing")>>) /\ UNCHANGED ftp
  /\ UNCHANGED <<ctrl_in, nreq, answer, cw, ctrl_stop, crashed>>

\* RETR complete: the total is corrected to what came, the rest goes out last.
DownloadDone ==
  /\ Serving({"download"}, "data") /\ job.got = FileUnits
  /\ Finish(<<Flush([job EXCEPT !.total = job.sent + job.buf], TRUE)>>)
  /\ UNCHANGED <<ctrl_in, nreq, answer, ftp, cw, ctrl_stop, crashed>>

(***************************************************************************)
(* Any other command is forwarded on :6000 and its replies are passed back *)
(* until one is not CONTINUE (a blocked camera preview is answered here).  *)
(* A failed send or receive is only logged: no reply.  The receive has no  *)
(* deadline: it ends when the printer answers or the connection ends.      *)
(***************************************************************************)
NativeSend ==
  /\ Serving({"native"}, "begin")
  /\ \/ job' = [job EXCEPT !.pc = "sent"] /\ UNCHANGED <<ctrl_out, cancelled>>
     \/ Finish(<<Reply(job.seq, "missing")>>)
     \/ Finish(<<>>)
  /\ UNCHANGED <<ctrl_in, nreq, answer, ftp, cw, ctrl_stop, crashed>>

\* The worker sits in recv_payload.
AwaitsPrinter == job.pc \in {"sent", "part"}

\* A reply of the printer, or the end of the connection (bound: one CONTINUE reply
\* per request).
NativeReceive ==
  /\ Working /\ AwaitsPrinter
  /\ \/ /\ job.pc = "sent" /\ job' = [job EXCEPT !.pc = "part"]
        /\ ctrl_out' = Append(ctrl_out, Reply(job.seq, "continue"))
        /\ UNCHANGED cancelled
     \/ \E res \in {"ok", "missing"} : Finish(<<Reply(job.seq, res)>>)
     \/ Finish(<<>>)
  /\ UNCHANGED <<ctrl_in, nreq, answer, ftp, cw, ctrl_stop, crashed>>

\* What the worker does within a limited time: FTPS operations have timeouts.
BWorkerOwn == \/ TakeRequest \/ WorkerLeaves \/ FtpUnavailable \/ FtpOneShot
              \/ FtpDelete \/ TaskCancel \/ SubFileZip \/ DownloadSize
              \/ DownloadData \/ DownloadCut \/ DownloadDone \/ NativeSend

BWorkerNext == BWorkerOwn \/ NativeReceive

(***************************************************************************)
(* Properties.                                                             *)
(***************************************************************************)
\* A file the host is told it has (result OK) is the whole file: every unit once,
\* in order, nothing after the final reply, and the digest covers exactly these
\* units, whatever was retried on a new connection (BambuSource.cpp
\* ftps_handle_file_download, ftps_handle_sub_file).
OkMeansWholeFile ==
  \A i \in 1..Reqs :
    /\ ~answer[i].gap /\ answer[i].finals <= 1
    /\ answer[i].res = "ok" /\ answer[i].bytes > 0 =>
         answer[i].bytes = FileUnits /\ answer[i].dig = FileUnits
===============================================================================
