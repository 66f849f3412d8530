------------------------------- MODULE MCHosts -------------------------------
(***************************************************************************)
(* The programs around the plugin: the DirectShow filter (its streaming    *)
(* and its COM objects) and the macOS player, which show the camera's      *)
(* picture inside the slicer, and the plugin runner with its downloader;   *)
(* and the plugin's threads and timers beside the sessions: where the      *)
(* camera's picture is, the HTTP server of the covers, the SSDP listener,  *)
(* a binding and its frames, and the selected machine.  A behaviour        *)
(* follows one of them, chosen by the initial state.                       *)
(***************************************************************************)
EXTENDS DshowFilter, DshowObjects, MacPlayer, CameraRoute, PluginRunner, PluginDownload,
        CoverServer, SsdpListener, LanBind, BindFrames, MachineState

VARIABLE host

hostVars == <<host, filterVars, comVars, playerVars, cameraVars, runnerVars, downloadVars,
              serverVars, ssdpVars, bindVars, frameVars, machineVars>>

Init ==
    /\ host \in {"windows", "com", "macos", "camera", "runner", "download",
                 "server", "ssdp", "bind", "frames", "machine"}
    /\ FilterInit /\ ObjectsInit /\ PlayerInit /\ DownloadInit
    /\ ServerInit /\ SsdpInit /\ BindInit
    /\ FramesInit /\ (host # "frames" => sent = <<<<>>, <<>>>> /\ Len(stream) = 12)
    /\ MachineInit /\ (host # "machine" => stateFile = NoMachine)
    /\ CameraInit
    /\ (host # "camera" => /\ ~prefer /\ ~account /\ ~secured /\ ~pair
                           /\ lanOpen = {})
    /\ RunnerInit /\ (host # "runner" => opt = CHOOSE o \in CliArgs : TRUE)

Only(p) ==
    /\ host = p /\ UNCHANGED host
    /\ IF p = "windows" THEN TRUE ELSE UNCHANGED filterVars
    /\ IF p = "com" THEN TRUE ELSE UNCHANGED comVars
    /\ IF p = "macos" THEN TRUE ELSE UNCHANGED playerVars
    /\ IF p = "camera" THEN TRUE ELSE UNCHANGED cameraVars
    /\ IF p = "runner" THEN TRUE ELSE UNCHANGED runnerVars
    /\ IF p = "download" THEN TRUE ELSE UNCHANGED downloadVars
    /\ IF p = "server" THEN TRUE ELSE UNCHANGED serverVars
    /\ IF p = "ssdp" THEN TRUE ELSE UNCHANGED ssdpVars
    /\ IF p = "bind" THEN TRUE ELSE UNCHANGED bindVars
    /\ IF p = "frames" THEN TRUE ELSE UNCHANGED frameVars
    /\ IF p = "machine" THEN TRUE ELSE UNCHANGED machineVars

Next ==
    \/ Only("windows") /\ FilterNext
    \/ Only("com") /\ ObjectsNext
    \/ Only("macos") /\ PlayerNext
    \/ Only("camera") /\ CameraNext
    \/ Only("runner") /\ RunnerNext
    \/ Only("download") /\ DownloadNext
    \/ Only("server") /\ ServerNext
    \/ Only("ssdp") /\ SsdpNext
    \/ Only("bind") /\ BindNext
    \/ Only("frames") /\ FeedFrames
    \/ Only("machine") /\ MachineNext

(***************************************************************************)
(* Fairness: threads run.  The filter's worker and the player's reader run *)
(* but for a blocking MJPEG read, which only the camera ends; the graph    *)
(* thread returns from a join, and the layer takes frames; every dial,     *)
(* request and wait of the camera's thread has a time limit and the        *)
(* printer handles what reaches it; the runner's main goes on once it is   *)
(* started; the accept thread and the SSDP worker look at their running_   *)
(* every 200 ms, and a handler's wait is bounded; a binding has a deadline *)
(* and its HTTP call one of its own; every tick of the slicer asserts the  *)
(* selection again.  When Studio calls, and what a camera sends, is not    *)
(* assumed.                                                                *)
(***************************************************************************)
Spec ==
    /\ Init /\ [][Next]_hostVars
    /\ WF_filterVars(host = "windows" /\ ~WorkerBlocked /\ WorkerStep)
    /\ WF_filterVars(host = "windows" /\ StopJoined)
    /\ WF_playerVars(host = "macos" /\ UiStep)
    /\ WF_playerVars(host = "macos" /\ ~ReaderBlocked /\ ReaderStep)
    /\ WF_playerVars(host = "macos" /\ RenderStep)
    /\ WF_playerVars(host = "macos" /\ LayerDrains)
    /\ WF_cameraVars(host = "camera"
                     /\ (Route \/ WaitReady \/ \E a \in TtcodeAnswers : Mint(a) \/ MintFails(a)))
    /\ WF_cameraVars(host = "camera" /\ PrinterGets(TRUE))
    /\ WF_cameraVars(host = "camera" /\ HarvestReport)
    /\ WF_runnerVars(host = "runner" /\ at # "start" /\ MainStep)
    /\ WF_runnerVars(host = "runner" /\ KeepaliveEnds)
    /\ WF_serverVars(host = "server" /\ HandleOne)
    /\ WF_serverVars(host = "server" /\ ~running /\ AcceptLoopEnds)
    /\ WF_serverVars(host = "server" /\ StopClose)
    /\ WF_ssdpVars(host = "ssdp" /\ \E p \in Packets : ~listening /\ RunPoll(p))
    /\ WF_ssdpVars(host = "ssdp" /\ RunCallback)
    /\ WF_ssdpVars(host = "ssdp" /\ (RunExit \/ RunClose))
    /\ WF_ssdpVars(host = "ssdp" /\ (StopClose_ \/ StopReap))
    /\ WF_ssdpVars(host = "ssdp" /\ \E c \in SsdpCallers : StartJoin(c) \/ StartOpen(c))
    /\ WF_bindVars(host = "bind" /\ (BindPoll \/ \E ok \in BOOLEAN : BindCloud(ok)))
    /\ WF_machineVars(host = "machine" /\ Reassert)
    /\ WF_machineVars(host = "machine" /\ set_config_dir)

\* The DirectShow filter: quiet once stopped, true to the codec the pins agreed on, and
\* its COM objects counted exactly, in any order of releases.
DshowSound ==
    /\ FilterTypeOK /\ StoppedIsQuiet /\ NegotiatedCodec
    /\ UnloadedIsEmpty /\ OnlyOrphansDangle /\ NothingLeaks

\* What is kept between two starts: the file of the chosen machine is what the store takes
\* it for and never outranks a choice of this process (state.cpp, agent.cpp), and a whole
\* plugin in the cache survives failed and killed downloads (plugin_downloader.cpp).
KeptOverRestarts == []BeliefIsTrue /\ LiveChoiceWins /\ CachedPluginKept

\* The two listeners: neither uses a socket after its close, and of the SSDP listener no
\* socket is closed twice, no thread object is overwritten, and running_ is not left true
\* by a worker that has ended (ssdp.cpp, cover_server.cpp).
ListenersSound == SocketClosedOnce /\ OneWorker /\ RunningHasThread /\ PollsOpenSocket

\* A binding: every frame arrives however the stream is cut between magics, one ticket
\* goes to the cloud, once, success needs the cloud, and the dialog ends once
\* (lan_bind_tcp.cpp, bind_cloud.cpp).
BindSound == BoundByCloud /\ FinishedOnce /\ FramesSurviveCuts

\* Whatever somebody waits for comes: frames move, a paused graph gets its sample, and
\* (but for a silent MJPEG camera) close, Stop, start, stop, bind, main and every call and request come back; the printer's
\* server starts, and a choice that is repeated reaches the disk.
EveryWaitEnds ==
    /\ FramesMove /\ PlayerCloseReturns
    /\ PausedDelivers /\ StopReturns
    /\ RunnerEnds /\ BindReturns
    /\ CameraAnswered /\ ServerStarts
    /\ GetAnswered /\ ServerStops /\ StartStopReturn
    /\ ChoiceReachesDisk
===============================================================================
