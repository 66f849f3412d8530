----------------------------- MODULE DshowFilter -----------------------------
(***************************************************************************)
(* The DirectShow source filter, src/stubs/dshow_filter.cpp.  The filter   *)
(* graph (external) calls Load, Connect, Pause, Run, Stop and Disconnect   *)
(* from one thread; a worker thread pulls frames from the camera and       *)
(* pushes them downstream through an allocator with a few buffers.  The    *)
(* renderer gives buffers back only while the graph runs, and the graph    *)
(* runs only after the renderer got a first sample.                        *)
(***************************************************************************)
EXTENDS Naturals

CONSTANTS
    Buffers,     \* buffers of the allocator (8 in Connect)
    MaxLoads,    \* bound: calls of Load
    MaxCycles    \* bound: calls of Pause

ASSUME FilterAssumption == Buffers \in Nat

Schemes == {"rtsp", "tutk", "local"}
Codecs == {"h264", "mjpeg"}

VARIABLES
    url,        \* url_: scheme and codec announced; probed: the camera was asked
    camCodec,   \* the codec the camera really sends
    tutkHeld,   \* tutk_: a source Load has opened and nobody took
    state_,     \* the filter's state
    mt,         \* current_mt_: the negotiated codec; "none" is not connected
    imposed,    \* that type was the caller's, not the filter's
    committed,  \* the allocator is committed
    free,       \* its free buffers
    wrunning, wstop, wpc,   \* worker_running_, worker_stop_ and where the worker is
    delivered,  \* the renderer has received a sample since the worker started
    got,        \* codec of the last sample the renderer received
    app,        \* what the graph thread waits for
    loads, cycles

urlVars == <<url, camCodec, tutkHeld>>
pinVars == <<mt, imposed, committed, free>>
workVars == <<wrunning, wstop, wpc, delivered, got>>
filterVars == <<urlVars, pinVars, workVars, state_, app, loads, cycles>>

NoUrl == [scheme |-> "none", codec |-> "none", probed |-> FALSE]

FilterInit ==
    /\ url = NoUrl /\ camCodec = "h264" /\ tutkHeld = FALSE
    /\ state_ = "Stopped" /\ mt = "none" /\ imposed = FALSE /\ committed = FALSE /\ free = Buffers
    /\ wrunning = FALSE /\ wstop = FALSE /\ wpc = "none" /\ delivered = FALSE /\ got = "none"
    /\ app = "idle" /\ loads = 0 /\ cycles = 0

(***************************************************************************)
(* Load parses the URL; a local URL is MJPEG, an RTSP one H.264, and a     *)
(* TUTK stream is opened now, because only its first frame tells.          *)
(***************************************************************************)
\* The codec the URL's pin types announce.
Announced(s, opened) ==
    CASE s = "local" -> "mjpeg"
      [] s = "tutk" /\ opened -> camCodec'
      [] OTHER -> "h264"

Load ==
    /\ app = "idle" /\ state_ = "Stopped" /\ mt = "none" /\ loads < MaxLoads
    /\ \E s \in Schemes, opened \in BOOLEAN :
          /\ opened => s = "tutk"
          /\ camCodec' \in CASE s = "rtsp" -> {"h264"} [] s = "local" -> {"mjpeg"} [] OTHER -> Codecs
          /\ url' = [scheme |-> s, codec |-> Announced(s, opened), probed |-> (s # "tutk" \/ opened)]
          /\ tutkHeld' = opened
    /\ loads' = loads + 1
    /\ UNCHANGED <<pinVars, workVars, state_, app, cycles>>

\* Connect offers the type the URL announces, or the one its caller names, which is not
\* compared with the stream's; downstream accepts (or refuses: nothing changes).
Connect ==
    /\ app = "idle" /\ mt = "none" /\ url # NoUrl /\ state_ = "Stopped"
    /\ \/ imposed' = FALSE /\ mt' = url.codec
       \/ imposed' = TRUE /\ mt' \in Codecs
    /\ committed' = FALSE /\ free' = Buffers /\ got' = "none"
    /\ UNCHANGED <<urlVars, wrunning, wstop, wpc, delivered, state_, app, loads, cycles>>

start_streaming ==
    IF wrunning THEN UNCHANGED <<wrunning, wstop, wpc, delivered, committed>>
    ELSE /\ wrunning' = TRUE /\ wstop' = FALSE /\ wpc' = "start" /\ delivered' = FALSE
         /\ committed' = (mt # "none")

Pause ==
    /\ app = "idle" /\ state_ = "Stopped" /\ url # NoUrl /\ cycles < MaxCycles
    /\ state_' = "Paused" /\ cycles' = cycles + 1
    /\ start_streaming
    /\ UNCHANGED <<urlVars, mt, imposed, free, got, app, loads>>

\* The graph goes on to Running once the renderer has its first sample.
Run ==
    /\ app = "idle" /\ state_ = "Paused" /\ delivered
    /\ state_' = "Running"
    /\ start_streaming
    /\ UNCHANGED <<urlVars, mt, imposed, free, got, app, loads, cycles>>

\* stop_streaming tells the worker, decommits the allocator to wake it, and joins it.
Wake == FALSE

StopStreaming(then) ==
    IF wrunning
    THEN wstop' = TRUE /\ committed' = Wake /\ app' = then
    ELSE app' = then /\ UNCHANGED <<wstop, committed>>

Stop ==
    /\ app = "idle" /\ state_ # "Stopped"
    /\ state_' = "Stopped"
    /\ StopStreaming("stop")
    /\ UNCHANGED <<urlVars, mt, imposed, free, wrunning, wpc, delivered, got, loads, cycles>>

Disconnect ==
    /\ app = "idle" /\ mt # "none"
    /\ StopStreaming("disconnect")
    /\ UNCHANGED <<urlVars, mt, imposed, free, wrunning, wpc, delivered, got, state_, loads, cycles>>

\* The mutant returns from the join while the worker is still in its loop.
JoinedNot == TRUE
Joined == wpc \in {"none", "exit"}

StopJoined ==
    /\ app \in {"stop", "disconnect"} /\ Joined
    /\ app' = "idle"
    /\ wrunning' = FALSE
    /\ wpc' = IF wpc = "exit" THEN "none" ELSE wpc
    /\ IF app = "disconnect" THEN mt' = "none" /\ committed' = FALSE ELSE UNCHANGED <<mt, committed>>
    /\ free' = Buffers
    /\ UNCHANGED <<urlVars, imposed, wstop, delivered, got, state_, loads, cycles>>

(***************************************************************************)
(* worker_main: open the stream of the URL's scheme, then pull and push.   *)
(***************************************************************************)
\* TUTK takes the source Load opened, or opens one; either may fail.
WorkerOpen ==
    /\ wpc = "start"
    /\ wpc' \in {"loop", "exit"}
    /\ tutkHeld' = (tutkHeld /\ url.scheme # "tutk")
    /\ UNCHANGED <<url, camCodec, pinVars, wrunning, wstop, delivered, got, state_, app, loads, cycles>>

\* worker_stop_ is looked at before each read.
WorkerLoop ==
    /\ wpc = "loop"
    /\ wpc' = IF wstop THEN "exit" ELSE "read"
    /\ UNCHANGED <<urlVars, pinVars, wrunning, wstop, delivered, got, state_, app, loads, cycles>>

\* What one read of each branch can meet: a frame, nothing, or the end of the stream.
RtspPull == {"frame", "loop", "exit"}
TutkPull == {"frame", "loop"}
MjpegPull == {"frame", "loop", "exit"}
Pulls == CASE url.scheme = "rtsp" -> RtspPull
           [] url.scheme = "tutk" -> TutkPull
           [] OTHER -> MjpegPull

\* RTSP and TUTK are polled; the MJPEG read is a blocking SSL_read without a timeout
\* that neither worker_stop_ nor Decommit ends.
WorkerBlocked == wpc = "read" /\ url.scheme = "local"

WorkerPull ==
    /\ wpc = "read"
    /\ wpc' \in Pulls
    /\ UNCHANGED <<urlVars, pinVars, wrunning, wstop, delivered, got, state_, app, loads, cycles>>

\* Frames are pushed in Paused too.
MayPush == TRUE

\* borrow_targets
WorkerTargets ==
    /\ wpc = "frame"
    /\ wpc' = IF mt # "none" /\ MayPush THEN "push" ELSE "loop"
    /\ UNCHANGED <<urlVars, pinVars, wrunning, wstop, delivered, got, state_, app, loads, cycles>>

\* push_sample_into: GetBuffer waits for a free buffer, and fails once decommitted.
WorkerGetBuffer ==
    /\ wpc = "push" /\ (~committed \/ free > 0)
    /\ IF committed THEN free' = free - 1 /\ wpc' = "copy" ELSE UNCHANGED free /\ wpc' = "loop"
    /\ UNCHANGED <<urlVars, mt, imposed, committed, wrunning, wstop, delivered, got, state_, app,
                   loads, cycles>>

\* A frame larger than the buffer (256 KiB) is dropped; downstream receives any other.
WorkerReceive ==
    /\ wpc = "copy"
    /\ \/ wpc' = "loop" /\ delivered' = TRUE /\ got' = camCodec /\ UNCHANGED free
       \/ wpc' = "dropped" /\ free' = free + 1 /\ UNCHANGED <<delivered, got>>
    /\ UNCHANGED <<urlVars, mt, imposed, committed, wrunning, wstop, state_, app, loads, cycles>>

WorkerDropped ==
    /\ wpc = "dropped"
    /\ wpc' = "loop"
    /\ UNCHANGED <<urlVars, pinVars, wrunning, wstop, delivered, got, state_, app, loads, cycles>>

\* The renderer (external) gives a buffer back once the graph runs.
RendererReturns ==
    /\ free < Buffers /\ state_ = "Running" /\ wpc # "copy"
    /\ free' = free + 1
    /\ UNCHANGED <<urlVars, mt, imposed, committed, workVars, state_, app, loads, cycles>>

WorkerStep == \/ WorkerOpen \/ WorkerLoop \/ WorkerPull \/ WorkerTargets
              \/ WorkerGetBuffer \/ WorkerReceive \/ WorkerDropped
FilterNext == Load \/ Connect \/ Pause \/ Run \/ Stop \/ Disconnect \/ StopJoined
              \/ WorkerStep \/ RendererReturns

-----------------------------------------------------------------------------
FilterTypeOK ==
    /\ url.scheme \in Schemes \cup {"none"} /\ mt \in Codecs \cup {"none"}
    /\ imposed \in BOOLEAN /\ free \in 0..Buffers
    /\ wpc \in {"none", "start", "loop", "read", "frame", "push", "copy", "dropped", "exit"}

\* After Stop or Disconnect has returned no worker runs, so nothing is delivered to a
\* renderer that was stopped and no allocator is used after its release.
StoppedIsQuiet ==
    app = "idle" /\ (state_ = "Stopped" \/ ~wrunning) => wpc = "none"

\* What the renderer receives has the codec the pins agreed on, whenever the graph left
\* the choice to the filter and Load could ask the camera: a TUTK stream may be either
\* and is opened in Load for that reason.  A type the caller of Connect names is not
\* compared with the stream's (BambuSourceOutPin::Connect).
NegotiatedCodec ==
    url.probed /\ mt # "none" /\ ~imposed => got \in {mt, "none"}

\* Stop and Disconnect return, even with the worker waiting for a buffer a paused
\* renderer will never give back: Decommit wakes it.  Not if an MJPEG camera is silent
\* for ever: nothing wakes that read, and Stop joins the worker.
StopReturns == ([]<>~WorkerBlocked) => ((app # "idle") ~> (app = "idle"))

\* A frame that comes while the graph is paused is delivered, so that the graph can go
\* on to Running (a source that waits for Running would deadlock it), unless it is larger
\* than the allocator's buffers, or the filter is stopped or disconnected.
PausedDelivers ==
    (state_ = "Paused" /\ mt # "none" /\ wpc = "frame" /\ ~wstop) ~>
        (delivered \/ wpc = "dropped" \/ wstop)
==============================================================================
