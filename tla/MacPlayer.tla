------------------------------ MODULE MacPlayer ------------------------------
(***************************************************************************)
(* The macOS live-view player, src/stubs/BambuPlayer.mm.  Three threads    *)
(* share it: Studio's UI thread calls open, play and close; the reader     *)
(* pulls samples from the Bambu_* tunnel and queues them; the serial       *)
(* render queue runs the pump that feeds the display layer.  A frame is    *)
(* only counted; what the layer (AVSampleBufferDisplayLayer, external)     *)
(* does is to be ready, full or failed.                                    *)
(***************************************************************************)
EXTENDS Naturals, Sequences

CONSTANTS
    MaxSessions,   \* bound: calls of open that succeed
    MaxPending,    \* kMaxPendingFrames
    MaxFrames,     \* bound: samples the tunnels deliver altogether
    MaxLayerFails  \* bound: times the layer fails

ASSUME PlayerAssumption == MaxSessions \in Nat \ {0} /\ MaxPending \in Nat

VARIABLES
    api,      \* where the UI thread is inside open/play/close
    tunnel,   \* _impl->tunnel, as the number of its session; 0 is null
    alive,    \* the tunnels created and not destroyed
    sess,     \* sessions opened so far
    isMjpeg,  \* the codec of the session
    prunning, \* _impl->running
    reader,   \* _impl->reader is set
    rpc,      \* where the reader thread is
    rtun,     \* the tunnel the reader works with
    fmt,      \* formatDesc: the session whose stream it was made from, or 0
    counted,  \* frameCount > 0
    reported, \* sessionReported
    reports,  \* session-end callbacks of this session
    pending,  \* frames waiting for the layer
    requested,\* mediaRequested
    rq,       \* blocks waiting on renderQueue
    armed,    \* the layer calls the pump when it is ready
    pump,     \* where the pump block is
    layer,    \* what the layer can take
    framesLeft, failsLeft

apiVars == <<api, tunnel, alive, sess, isMjpeg, reported, reports>>
readerVars == <<prunning, reader, rpc, rtun, fmt, counted>>
renderVars == <<pending, requested, rq, armed, pump, layer>>
playerVars == <<apiVars, readerVars, renderVars, framesLeft, failsLeft>>

PlayerInit ==
    /\ api = "idle" /\ tunnel = 0 /\ alive = {} /\ sess = 0 /\ isMjpeg = FALSE
    /\ prunning = FALSE /\ reader = FALSE /\ rpc = "none" /\ rtun = 0
    /\ fmt = 0 /\ counted = FALSE /\ reported = FALSE /\ reports = 0
    /\ pending = 0 /\ requested = FALSE /\ rq = <<>> /\ armed = FALSE
    /\ pump = "idle" /\ layer = "ready"
    /\ framesLeft = MaxFrames /\ failsLeft = MaxLayerFails

(***************************************************************************)
(* close: clear running; take reader and tunnel under mu; join; close and  *)
(* destroy the tunnel; shut the pump down; report the session's end.       *)
(* open begins with a close, so the thread remembers what comes after it.  *)
(***************************************************************************)
CloseBegin ==
    /\ api = "idle" /\ sess > 0
    /\ api' \in {"take_close"} \cup (IF sess < MaxSessions THEN {"take_open"} ELSE {})
    /\ prunning' = FALSE
    /\ UNCHANGED <<tunnel, alive, sess, isMjpeg, reported, reports, reader, rpc, rtun,
                   fmt, counted, renderVars, framesLeft, failsLeft>>

After(a) == CASE a \in {"take_close", "join_close", "stop_close", "drain_close", "end_close"} -> "close"
              [] OTHER -> "open"

CloseTake ==
    /\ api \in {"take_close", "take_open"}
    /\ api' = IF After(api) = "close" THEN "join_close" ELSE "join_open"
    /\ tunnel' = 0
    /\ reader' = FALSE
    /\ UNCHANGED <<alive, sess, isMjpeg, reported, reports, prunning, rpc, rtun, fmt,
                   counted, renderVars, framesLeft, failsLeft>>

ReaderGone == rpc \in {"none", "done"}

\* shutdownRenderPump stops a pump that is wanted.  The mutant forgets to.
MustStopPumpNot == FALSE
MustStopPump == requested

CloseJoin ==
    /\ api \in {"join_close", "join_open"}
    /\ ReaderGone
    /\ rpc' = IF rpc = "done" THEN "none" ELSE rpc
    /\ alive' = {}
    /\ requested' = FALSE
    /\ rq' = IF MustStopPump THEN Append(rq, "stop") ELSE rq
    /\ api' = IF After(api) = "close" THEN "stop_close" ELSE "stop_open"
    /\ UNCHANGED <<tunnel, sess, isMjpeg, reported, reports, prunning, reader, rtun,
                   fmt, counted, pending, armed, pump, layer, framesLeft, failsLeft>>

\* dispatch_sync of the stop has returned: drop what is pending, then wait out the pump.
CloseStopped ==
    /\ api \in {"stop_close", "stop_open"}
    /\ "stop" \notin {rq[i] : i \in DOMAIN rq}
    /\ pending' = 0
    /\ rq' = Append(rq, "drain")
    /\ api' = IF After(api) = "close" THEN "drain_close" ELSE "drain_open"
    /\ UNCHANGED <<tunnel, alive, sess, isMjpeg, reported, reports, readerVars,
                   requested, armed, pump, layer, framesLeft, failsLeft>>

CloseDrained ==
    /\ api \in {"drain_close", "drain_open"}
    /\ rq = <<>>
    /\ layer' = "ready"
    /\ api' = IF After(api) = "close" THEN "end_close" ELSE "end_open"
    /\ UNCHANGED <<tunnel, alive, sess, isMjpeg, reported, reports, readerVars,
                   pending, requested, rq, armed, pump, framesLeft, failsLeft>>

LatchReport == TRUE

fireSessionEndIfNeeded ==
    /\ api \in {"end_close", "end_open"}
    /\ api' = IF After(api) = "close" THEN "idle" ELSE "opening"
    /\ IF reported \/ ~counted
       THEN UNCHANGED <<reported, reports>>
       ELSE reported' = LatchReport /\ reports' = reports + 1
    /\ UNCHANGED <<tunnel, alive, sess, isMjpeg, readerVars, renderVars, framesLeft, failsLeft>>

(***************************************************************************)
(* open: Bambu_Create, Bambu_Open and Bambu_StartStream (retried for 5 s)  *)
(* either leave a tunnel or fail and leave none; the fields of a session   *)
(* are reset under mu together with the new tunnel.                        *)
(***************************************************************************)
FormatAtOpen == 0

OpenDone ==
    /\ api = "opening"
    /\ api' = "idle"
    /\ \/ UNCHANGED <<tunnel, alive, sess, isMjpeg, reported, reports, fmt, counted>>
       \/ /\ sess' = sess + 1 /\ tunnel' = sess + 1 /\ alive' = {sess + 1}
          /\ isMjpeg' \in BOOLEAN
          /\ reported' = FALSE /\ reports' = 0 /\ counted' = FALSE
          /\ fmt' = FormatAtOpen
    /\ UNCHANGED <<prunning, reader, rpc, rtun, renderVars, framesLeft, failsLeft>>

\* The first open finds nothing to close.
OpenFirst ==
    /\ api = "idle" /\ sess = 0
    /\ api' = "opening"
    /\ UNCHANGED <<tunnel, alive, sess, isMjpeg, reported, reports, readerVars, renderVars,
                   framesLeft, failsLeft>>

\* play takes a reader that ended by itself, joins it outside mu and starts a new one.
PlayTake ==
    /\ api = "idle" /\ tunnel # 0 /\ ~prunning
    /\ reader' = FALSE
    /\ api' = "reap"
    /\ UNCHANGED <<tunnel, alive, sess, isMjpeg, reported, reports, prunning, rpc, rtun,
                   fmt, counted, renderVars, framesLeft, failsLeft>>

PlayStart ==
    /\ api = "reap" /\ rpc \in {"none", "done"}
    /\ api' = "idle"
    /\ prunning' = TRUE /\ reader' = TRUE /\ rpc' = "loop"
    /\ UNCHANGED <<tunnel, alive, sess, isMjpeg, reported, reports, rtun, fmt, counted,
                   renderVars, framesLeft, failsLeft>>

(***************************************************************************)
(* readerLoop.                                                             *)
(***************************************************************************)
ReaderLoop ==
    /\ rpc = "loop"
    /\ rtun' = tunnel
    /\ rpc' = IF prunning /\ tunnel # 0 THEN "read" ELSE "leave"
    /\ UNCHANGED <<apiVars, prunning, reader, fmt, counted, renderVars, framesLeft, failsLeft>>

\* RTSP and TUTK are polled; on an MJPEG tunnel Bambu_ReadSample is a blocking SSL_read
\* without a timeout.
ReaderBlocked == rpc = "read" /\ isMjpeg

\* Bambu_ReadSample: nothing yet, the stream's end, or a sample.
ReadSample ==
    /\ rpc = "read"
    /\ \/ rpc' = "loop" /\ UNCHANGED framesLeft
       \/ rpc' = "leave" /\ UNCHANGED framesLeft
       \/ framesLeft > 0 /\ rpc' = "frame" /\ framesLeft' = framesLeft - 1
    /\ UNCHANGED <<apiVars, prunning, reader, rtun, fmt, counted, renderVars, failsLeft>>

ReaderLeave ==
    /\ rpc = "leave"
    /\ rpc' = "done"
    /\ prunning' = FALSE
    /\ UNCHANGED <<apiVars, reader, rtun, fmt, counted, renderVars, framesLeft, failsLeft>>

\* H.264 needs the parameter sets of some frame of this stream before it can show one.
enqueueAnnexB(ps) == IF ps THEN rtun ELSE fmt
enqueueJpeg == rtun

\* A built sample meets a failed layer (recover first) or is queued for it.
EnqueueSample ==
    /\ rpc = "frame"
    /\ \E ps \in BOOLEAN : fmt' = IF isMjpeg THEN enqueueJpeg ELSE enqueueAnnexB(ps)
    /\ rpc' = CASE fmt' = 0 -> "loop"
                [] fmt' # 0 /\ layer = "failed" -> "recover"
                [] OTHER -> "queue"
    /\ UNCHANGED <<apiVars, prunning, reader, rtun, counted, renderVars, framesLeft, failsLeft>>

\* The mutant arms the layer from the reader instead of behind the pump on renderQueue.
ArmNot == armed' = TRUE /\ rq' = rq
Arm == armed' = armed /\ rq' = Append(rq, "arm")

QueueFull == pending >= MaxPending

\* pendingMu: drop the oldest at the limit, append, and remember that the pump is wanted.
QueueSampleForDisplay ==
    /\ rpc = "queue"
    /\ pending' = IF QueueFull THEN pending ELSE pending + 1
    /\ requested' = TRUE
    /\ rpc' = IF requested THEN "shown" ELSE "arm"
    /\ UNCHANGED <<apiVars, prunning, reader, rtun, fmt, counted, rq, armed, pump, layer,
                   framesLeft, failsLeft>>

StartRenderPump ==
    /\ rpc = "arm"
    /\ Arm
    /\ rpc' = "shown"
    /\ UNCHANGED <<apiVars, prunning, reader, rtun, fmt, counted, pending, requested, pump,
                   layer, framesLeft, failsLeft>>

\* Back in readerLoop the frame is counted, which makes the session worth reporting.
CountFrame ==
    /\ rpc = "shown"
    /\ counted' = TRUE
    /\ rpc' = "loop"
    /\ UNCHANGED <<apiVars, prunning, reader, rtun, fmt, renderVars, framesLeft, failsLeft>>

\* recoverFailedLayer from the reader: the flush and the stop are a dispatch_sync.
ReaderRecover ==
    /\ rpc = "recover"
    /\ pending' = 0 /\ requested' = FALSE
    /\ rq' = Append(rq, IF requested THEN "flushstop" ELSE "flush")
    /\ rpc' = "sync"
    /\ UNCHANGED <<apiVars, prunning, reader, rtun, fmt, counted, armed, pump, layer,
                   framesLeft, failsLeft>>

ReaderRecovered ==
    /\ rpc = "sync"
    /\ {"flush", "flushstop"} \cap {rq[i] : i \in DOMAIN rq} = {}
    /\ rpc' = "loop"
    /\ UNCHANGED <<apiVars, prunning, reader, rtun, fmt, counted, renderVars, framesLeft, failsLeft>>

(***************************************************************************)
(* renderQueue: one block at a time, in order; the layer's pump block runs *)
(* there too, between the others.                                          *)
(***************************************************************************)
RunBlock ==
    /\ pump = "idle" /\ rq # <<>>
    /\ rq' = Tail(rq)
    /\ armed' = CASE Head(rq) = "arm" -> TRUE
                  [] Head(rq) \in {"stop", "flushstop"} -> FALSE
                  [] OTHER -> armed
    /\ layer' = IF Head(rq) \in {"flush", "flushstop"} THEN "ready" ELSE layer
    /\ UNCHANGED <<apiVars, readerVars, pending, requested, pump, framesLeft, failsLeft>>

PumpBegin ==
    /\ pump = "idle" /\ armed /\ layer # "full"
    /\ pump' = "loop"
    /\ UNCHANGED <<apiVars, readerVars, pending, requested, rq, armed, layer, framesLeft, failsLeft>>

\* One turn of pumpLayer's loop.
ParkedRequest == FALSE

PumpTurn ==
    /\ pump = "loop"
    /\ CASE layer = "full" -> pump' = "idle" /\ UNCHANGED <<pending, requested, layer, armed>>
         [] layer = "failed" ->
                \* recoverFailedLayer on renderQueue itself
                /\ pump' = "idle" /\ pending' = 0 /\ requested' = FALSE /\ layer' = "ready"
                /\ armed' = (armed /\ ~requested)
         [] layer = "ready" /\ pending = 0 ->
                pump' = "park" /\ requested' = ParkedRequest /\ UNCHANGED <<pending, layer, armed>>
         [] OTHER ->
                /\ pending' = pending - 1 /\ layer' \in {"ready", "full"}
                /\ UNCHANGED <<pump, requested, armed>>
    /\ UNCHANGED <<apiVars, readerVars, rq, framesLeft, failsLeft>>

PumpPark ==
    /\ pump = "park"
    /\ pump' = "idle"
    /\ armed' = FALSE
    /\ UNCHANGED <<apiVars, readerVars, pending, requested, rq, layer, framesLeft, failsLeft>>

\* The layer (external) shows what it holds, or fails.
LayerDrains ==
    /\ layer = "full"
    /\ layer' = "ready"
    /\ UNCHANGED <<apiVars, readerVars, pending, requested, rq, armed, pump, framesLeft, failsLeft>>

LayerFails ==
    /\ layer = "ready" /\ failsLeft > 0
    /\ layer' = "failed" /\ failsLeft' = failsLeft - 1
    /\ UNCHANGED <<apiVars, readerVars, pending, requested, rq, armed, pump, framesLeft>>

UiStep == \/ CloseTake \/ CloseJoin \/ CloseStopped \/ CloseDrained
          \/ fireSessionEndIfNeeded \/ OpenDone \/ PlayStart
ReaderStep == \/ ReaderLoop \/ ReadSample \/ ReaderLeave \/ EnqueueSample
              \/ QueueSampleForDisplay \/ StartRenderPump \/ CountFrame
              \/ ReaderRecover \/ ReaderRecovered
RenderStep == RunBlock \/ PumpBegin \/ PumpTurn \/ PumpPark

PlayerNext == \/ OpenFirst \/ CloseBegin \/ PlayTake \/ UiStep
              \/ ReaderStep \/ RenderStep \/ LayerDrains \/ LayerFails

-----------------------------------------------------------------------------
PlayerTypeOK ==
    /\ tunnel \in 0..MaxSessions /\ alive \subseteq 1..MaxSessions /\ fmt \in 0..MaxSessions
    /\ pending \in 0..MaxPending /\ requested \in BOOLEAN /\ armed \in BOOLEAN
    /\ layer \in {"ready", "full", "failed"} /\ pump \in {"idle", "loop", "park"}

\* The tunnel a reader has in its hands has not been destroyed: close takes the
\* pointer under mu but frees it only after the join.
TunnelOutlivesReader == rpc \in {"read", "frame", "queue", "arm", "shown"} => rtun \in alive

\* A frame is shown with the format of its own stream: open resets formatDesc, so the
\* frames of a new session wait for its own parameter sets.
FormatOfSession == tunnel # 0 => fmt \in {0, tunnel}

\* Once close has returned nothing of the session is left: no reader, no tunnel, no
\* frame, no block on the render queue and no pump the layer could still call
\* (_impl may be deleted at once).
QuietAfterClose ==
    api = "idle" /\ tunnel = 0 =>
        rpc = "none" /\ alive = {} /\ pending = 0 /\ ~requested /\ rq = <<>>
        /\ ~armed /\ pump = "idle"

\* The end of a session that showed a frame is reported exactly once, and that of
\* one that showed none never, however often close is called.
EndReportedOnce ==
    /\ reports <= 1
    /\ (api = "idle" /\ tunnel = 0) => (reports = 1 <=> counted)

\* A queued frame is shown or dropped: the pump is never parked with frames waiting
\* (a park that cancels a newer request would wedge playback for good).
FramesMove == (pending > 0) ~> (pending = 0)

\* close returns: every thread it waits for, and every block it waits for on the
\* render queue, ends; unless an MJPEG camera is silent for ever: the reader is joined
\* before the tunnel, whose close would wake its read, is closed.
PlayerCloseReturns ==
    ([]<>~ReaderBlocked) => ((api \in {"join_close", "join_open"}) ~> (api = "idle"))

\* The player's sessions do not mix: nothing of one is left when close returns, nothing of
\* it is shown in the next, and its end is reported once.
PlayerSound ==
    /\ PlayerTypeOK /\ TunnelOutlivesReader /\ FormatOfSession
    /\ QuietAfterClose /\ EndReportedOnce
==============================================================================
