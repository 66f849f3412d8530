----------------------------- MODULE PluginRunner -----------------------------
(***************************************************************************)
(* tools/plugin_runner: a program that loads the plugin as the slicer      *)
(* does, runs one action of its command line and ends.  What is hard in it *)
(* is the end: main returns from some forty places, by a thrown exception, *)
(* by an orderly teardown or by _Exit, while threads of the plugin still   *)
(* call back into objects on main's stack, and a scratch directory has to  *)
(* go on every one of these ways.                                          *)
(*                                                                         *)
(* What the probes print and the bodies they send are left out; which      *)
(* calls they leave open in the plugin, how long they wait and how they    *)
(* end is kept.  The plugin is external: it answers a call once, before or *)
(* after the wait for it is over, as long as the agent is alive.           *)
(***************************************************************************)
EXTENDS Naturals, FiniteSets

CONSTANT MaxFtJobs          \* --ft-job flags on the command line

ASSUME RunnerConstants == MaxFtJobs \in Nat \ {0}

VARIABLES
    opt,        \* the command line: action, data directory, --[no-]fast-exit
    at,         \* where main is
    dir,        \* the data directory: none, there, gone
    agent,      \* none, live, dead, twice (destroyed again)
    guarded,    \* AgentGuard's pointer is set
    frames,     \* the stack objects callbacks refer to that exist now
    unanswered,    \* calls the plugin has still to answer
    seen,       \* answers main may wait for that have come
    status,     \* Latch::last_status
    stale,      \* why a callback has met an object that no longer exists
    tries,      \* the loop counter of the camera, MakerWorld and job probes
    keepalive,  \* the camera probe's thread: none, running, told, ended
    code        \* the exit code

runnerVars == <<opt, at, dir, agent, guarded, frames, unanswered, seen, status,
                stale, tries, keepalive, code>>
callVars == <<frames, unanswered, seen, status, stale>>
agentVars == <<agent, guarded>>
loopVars == <<tries, keepalive>>

PrintActions == {"local_print", "sdcard_print", "local_print_with_record", "cloud_print"}
Rc == {"query_bind", "auth_probe", "bind_detect", "account_bind", "update_cert"}
Reads == {"http_probe", "device_region", "minors", "filament_probe"}
CloudProbes == Reads \cup {"mw_probe", "update_cert", "query_bind", "auth_probe",
                           "gap_probe", "camera_url", "ft_job"}
CliActions == PrintActions \cup Rc \cup CloudProbes
           \cup {"send_gcode_to_sdcard", "send_raw", "none", "cert_probe"}

CliArgs == [action : CliActions, dir : {"user", "scratch", "keep"},
            fast : {"default", "yes", "no"}]

RunnerInit ==
    /\ opt \in CliArgs
    /\ at = "start" /\ code = 0
    /\ dir = IF opt.dir = "user" THEN "there" ELSE "none"
    /\ agent = "none" /\ guarded = FALSE
    /\ frames = {} /\ unanswered = {} /\ seen = {} /\ status = "none" /\ stale = {}
    /\ tries = 0 /\ keepalive = "none"

Goto(s) == at' = s
FastExitChosen(default) == opt.fast = "yes" \/ (opt.fast = "default" /\ default)

(* A return or a throw: the exit code is chosen, the locals go next. *)
Return(c) == at' = "return" /\ code' = c

(* g_ephemeral_data_dir is set for a directory of our own only. *)
Ephemeral == opt.dir = "scratch"

fast_exit(c) ==
    /\ at' = "exited" /\ code' = c
    /\ dir' = IF Ephemeral /\ dir = "there" THEN "gone" ELSE dir

(* guard.a = nullptr, then disconnect, destroy_agent and unload. *)
TearDownNot == agent' = (IF agent = "live" THEN "dead" ELSE "twice") /\ guarded' = guarded
TearDown == agent' = (IF agent = "live" THEN "dead" ELSE "twice") /\ guarded' = FALSE
-------------------------------------------------------------------------------
(* What the plugin does with the calls it was given. *)

CamState == "heap"

FrameOf(c) == CASE c \in {"connect", "server", "update"} -> "latches"
                [] c = "subtask" -> "probe"
                [] c = "result" -> "job"
                [] c \in {"url", "lateUrl"} -> CamState
                [] OTHER -> "gone"

Alive(f) == f = "heap" \/ f \in frames

(* A callback; one whose wait is over stands in unanswered as "late". *)
Callback(c) ==
    /\ c \in unanswered /\ agent = "live" /\ at # "exited"
    /\ unanswered' = unanswered \ {c}
    /\ IF Alive(FrameOf(c))
       THEN /\ seen' = seen \cup {c}
            /\ \E s \in {"Finished", "ERROR"} : status' = IF c = "update" THEN s ELSE status
            /\ UNCHANGED stale
       ELSE /\ stale' = stale \cup
                  {CASE at \in {"guard", "wipe"} -> "early" [] c = "late" -> "late" [] OTHER -> "lost"}
            /\ UNCHANGED <<seen, status>>
    /\ UNCHANGED <<opt, at, dir, agentVars, frames, loopVars, code>>

(* The wait for a call is over and its stack object goes. *)
Abandon(c, f) ==
    /\ frames' = frames \ {f}
    /\ unanswered' = IF c \in unanswered /\ FrameOf(c) # "heap" THEN (unanswered \ {c}) \cup {"late"} ELSE unanswered
    /\ seen' = seen \ {c}
-------------------------------------------------------------------------------
(* main, step by step. *)

parse_cli ==
    /\ at = "start"
    /\ \/ Goto("load") /\ UNCHANGED code
       \/ Return(64)
    /\ UNCHANGED <<opt, dir, agentVars, callVars, loopVars>>

load ==
    /\ at = "load"
    /\ \/ Goto("dir") /\ UNCHANGED code
       \/ \E c \in {70, 73} : Return(c)
    /\ UNCHANGED <<opt, dir, agentVars, callVars, loopVars>>

(* The user's directory is used as it is; one of our own is made.  A throw of write_min_studio_conf comes after make_tmpdir. *)
MakeDataDir ==
    /\ at = "dir"
    /\ dir' = "there"
    /\ \/ Goto("create") /\ UNCHANGED code
       \/ Return(IF opt.dir = "user" THEN 66 ELSE 70)
    /\ UNCHANGED <<opt, agentVars, callVars, loopVars>>

create_agent ==
    /\ at = "create"
    /\ \/ Goto("callbacks") /\ agent' = "live" /\ guarded' = TRUE /\ UNCHANGED code
       \/ Return(70) /\ UNCHANGED agentVars
    /\ UNCHANGED <<opt, dir, callVars, loopVars>>

InstallCallbacks ==
    /\ at = "callbacks"
    /\ frames' = {"latches"}
    /\ Goto("init")
    /\ UNCHANGED <<opt, dir, agentVars, unanswered, seen, status, stale, loopVars, code>>

SkipLan == opt.action \in CloudProbes \cup {"bind_detect", "account_bind"}

(* set_config_dir to start_discovery, then change_user. *)
StartAgent ==
    /\ at = "init"
    /\ \/ Goto(IF SkipLan THEN "params" ELSE "connect") /\ UNCHANGED code
       \/ Return(66)
    /\ UNCHANGED <<opt, dir, agentVars, callVars, loopVars>>

(* bind_detect and connect_printer: the answer comes later. *)
connect_printer ==
    /\ at = "connect"
    /\ unanswered' = unanswered \cup {"connect"}
    /\ Goto("settle")
    /\ UNCHANGED <<opt, dir, agentVars, frames, seen, status, stale, loopVars, code>>

(* The wait for session_ready ends either way; the run goes on. *)
SessionReady ==
    /\ at = "settle"
    /\ Goto("kick")
    /\ UNCHANGED <<opt, dir, agentVars, callVars, loopVars, code>>

Kickstart ==
    /\ at = "kick"
    /\ Goto("params")
    /\ UNCHANGED <<opt, dir, agentVars, callVars, loopVars, code>>

load_print_params ==
    /\ at = "params"
    /\ \/ Goto("dispatch") /\ UNCHANGED code
       \/ Return(70)
    /\ UNCHANGED <<opt, dir, agentVars, callVars, loopVars>>
-------------------------------------------------------------------------------
(* The actions.  A missing export returns 70 at once. *)

Missing == Return(70) /\ UNCHANGED <<opt, dir, agentVars, callVars, loopVars>>

(* Probes whose call has a result: without a fast exit they fall through to the wait for the latch. *)
RcEnd(codes) ==
    \E rc \in codes :
        \/ FastExitChosen(TRUE) /\ fast_exit(rc)
        \/ ~FastExitChosen(TRUE) /\ Goto("wait") /\ UNCHANGED <<dir, code>>

QueryProbe ==
    /\ at = "dispatch" /\ opt.action \in {"query_bind", "auth_probe"}
    /\ \/ Missing
       \/ RcEnd({0, 1}) /\ UNCHANGED <<opt, agentVars, callVars, loopVars>>

BindProbe ==
    /\ at = "dispatch" /\ opt.action \in {"bind_detect", "account_bind"}
    /\ \/ Missing
       \/ RcEnd({0, 1}) /\ UNCHANGED <<opt, agentVars, callVars, loopVars>>

CertProbe ==
    /\ at = "dispatch" /\ opt.action \in {"cert_probe", "update_cert"}
    /\ \/ Missing
       \/ RcEnd(IF opt.action = "cert_probe" THEN {0} ELSE {0, 1}) /\ UNCHANGED <<opt, agentVars, callVars, loopVars>>

(* The first half parses the login (and may throw), the second connects to the cloud. *)
GapShapes ==
    /\ at = "dispatch" /\ opt.action = "gap_probe"
    /\ \/ Goto("gap") /\ UNCHANGED code
       \/ Return(70)
    /\ UNCHANGED <<opt, dir, agentVars, callVars, loopVars>>

GapConnect ==
    /\ at = "gap"
    /\ seen' = seen \ {"server"} /\ unanswered' = unanswered \cup {"server"}
    /\ Goto("gapWait")
    /\ UNCHANGED <<opt, dir, agentVars, frames, status, stale, loopVars, code>>

GapEnd ==
    /\ at = "gapWait"
    /\ RcEnd({0})
    /\ UNCHANGED <<opt, agentVars, callVars, loopVars>>

(* Probes that end by themselves, in order or fast. *)
OwnEnd(c) ==
    \/ FastExitChosen(TRUE) /\ fast_exit(c) /\ UNCHANGED agentVars
    \/ ~FastExitChosen(TRUE) /\ TearDown /\ Return(c) /\ UNCHANGED dir

HttpProbe ==
    /\ at = "dispatch" /\ opt.action = "http_probe"
    /\ OwnEnd(0)
    /\ UNCHANGED <<opt, callVars, loopVars>>

(* The spool list and the slot mappings, whose file may not parse. *)
FilamentProbe ==
    /\ at = "dispatch" /\ opt.action = "filament_probe"
    /\ \/ Goto("filament") /\ UNCHANGED code
       \/ Return(64)
    /\ UNCHANGED <<opt, dir, agentVars, callVars, loopVars>>

SoftMatchProbe ==
    /\ at = "filament"
    /\ OwnEnd(0)
    /\ UNCHANGED <<opt, callVars, loopVars>>

RegionProbe ==
    /\ at = "dispatch" /\ opt.action = "device_region"
    /\ \/ Missing
       \/ \E c \in {0, 1} : OwnEnd(c) /\ UNCHANGED <<opt, callVars, loopVars>>

MinorsProbe ==
    /\ at = "dispatch" /\ opt.action = "minors"
    /\ \/ Missing
       \/ \E c \in {0, 1} : OwnEnd(c) /\ UNCHANGED <<opt, callVars, loopVars>>

(* Three MakerWorld calls answer by a callback that refers to a local; main sleeps a while for each. *)
MwCall ==
    /\ at = "dispatch" /\ opt.action = "mw_probe" /\ tries < 3
    /\ frames' = frames \cup {"probe"} /\ unanswered' = unanswered \cup {"subtask"}
    /\ tries' = tries + 1
    /\ Goto("mwSettle")
    /\ UNCHANGED <<opt, dir, agentVars, seen, status, stale, keepalive, code>>

MwSettled ==
    /\ at = "mwSettle"
    /\ Abandon("subtask", "probe")
    /\ Goto("dispatch")
    /\ UNCHANGED <<opt, dir, agentVars, status, stale, loopVars, code>>

MwEnd ==
    /\ at = "dispatch" /\ opt.action = "mw_probe" /\ tries = 3
    /\ OwnEnd(0)
    /\ UNCHANGED <<opt, callVars, loopVars>>
-------------------------------------------------------------------------------
(* The camera probe: cloud bring-up, a thread that keeps the session alive,
   and up to four attempts to be given a URL. *)

CameraBringUp ==
    /\ at = "dispatch" /\ opt.action = "camera_url"
    /\ \/ /\ Goto("camera") /\ keepalive' = "running"
          /\ seen' = seen \ {"server"} /\ unanswered' = unanswered \cup {"server"}
          /\ UNCHANGED <<opt, dir, agentVars, frames, status, stale, tries, code>>
       \/ Missing

AskCameraUrl ==
    /\ at = "camera" /\ tries < 4 /\ "url" \notin seen
    /\ tries' = tries + 1
    /\ frames' = frames \cup {"attempt"}
    /\ unanswered' = unanswered \cup {"url"}
    /\ Goto("cameraWait")
    /\ UNCHANGED <<opt, dir, agentVars, seen, status, stale, keepalive, code>>

CameraAttemptOver ==
    /\ at = "cameraWait"
    /\ frames' = frames \ {"attempt"}
    /\ unanswered' = {IF c = "url" THEN "lateUrl" ELSE c : c \in unanswered}
    /\ Goto("camera")
    /\ UNCHANGED <<opt, dir, agentVars, seen, status, stale, loopVars, code>>

StopKeepalive == keepalive' = "told"

CameraSettled ==
    /\ at = "camera" /\ ("url" \in seen \/ tries = 4)
    /\ StopKeepalive
    /\ Goto("cameraJoin")
    /\ UNCHANGED <<opt, dir, agentVars, callVars, tries, code>>

KeepaliveEnds ==
    /\ keepalive = "told"
    /\ keepalive' = "ended"
    /\ UNCHANGED <<opt, at, dir, agentVars, callVars, tries, code>>

CameraEnd ==
    /\ at = "cameraJoin" /\ keepalive = "ended"
    /\ \E c \in {0, 1} : ("url" \notin seen => c = 1) /\ OwnEnd(c)
    /\ UNCHANGED <<opt, callVars, loopVars>>
-------------------------------------------------------------------------------
(* File transfer jobs, one after the other; a job that did not finish in
   time is released while its result may still come. *)

FtConnect ==
    /\ at = "dispatch" /\ opt.action = "ft_job"
    /\ \/ Goto("ft") /\ code' = 0
       \/ Goto("ftEnd") /\ code' = 1
       \/ \E c \in {1, 66, 70} : Return(c)
    /\ UNCHANGED <<opt, dir, agentVars, callVars, loopVars>>

FtJob ==
    /\ at = "ft" /\ tries < MaxFtJobs
    /\ tries' = tries + 1
    /\ \/ /\ Goto("ftWait")
          /\ frames' = frames \cup {"job"} /\ unanswered' = unanswered \cup {"result"}
          /\ UNCHANGED code
       \/ Goto("ft") /\ code' = 1 /\ UNCHANGED <<frames, unanswered>>
    /\ UNCHANGED <<opt, dir, agentVars, seen, status, stale, keepalive>>

FtJobOver ==
    /\ at = "ftWait"
    /\ code' = IF "result" \in seen THEN code ELSE 1
    /\ Abandon("result", "job")
    /\ Goto("ft")
    /\ UNCHANGED <<opt, dir, agentVars, status, stale, loopVars>>

FtEnd ==
    /\ at = "ftEnd" \/ (at = "ft" /\ tries = MaxFtJobs)
    /\ fast_exit(code)
    /\ UNCHANGED <<opt, agentVars, callVars, loopVars>>
-------------------------------------------------------------------------------
(* The print actions, the raw publish, and the common end. *)

IdleAction ==
    /\ at = "dispatch" /\ opt.action = "none"
    /\ OwnEnd(0)
    /\ UNCHANGED <<opt, callVars, loopVars>>

send_raw ==
    /\ at = "dispatch" /\ opt.action = "send_raw"
    /\ \/ /\ Goto("wait") /\ seen' = seen \cup {"update"} /\ status' = "Finished"
          /\ UNCHANGED <<opt, dir, agentVars, frames, unanswered, stale, loopVars, code>>
       \/ Return(66) /\ UNCHANGED <<opt, dir, agentVars, callVars, loopVars>>

StartPrint ==
    /\ at = "dispatch" /\ opt.action \in PrintActions \cup {"send_gcode_to_sdcard"}
    /\ \/ /\ Goto("wait") /\ unanswered' = unanswered \cup {"update"}
          /\ UNCHANGED <<opt, dir, agentVars, frames, seen, status, stale, loopVars, code>>
       \/ Missing

ExitCode(finished) == IF ~finished THEN 75 ELSE IF status = "Finished" THEN 0 ELSE 1

(* The latch or the deadline; --auto-stop publishes before the teardown. *)
WaitFinished ==
    /\ at = "wait"
    /\ code' = ExitCode("update" \in seen)
    /\ Goto("teardown")
    /\ UNCHANGED <<opt, dir, agentVars, callVars, loopVars>>

Finish ==
    /\ at = "teardown"
    /\ \/ FastExitChosen(FALSE) /\ fast_exit(code) /\ UNCHANGED agentVars
       \/ ~FastExitChosen(FALSE) /\ TearDown /\ Return(code) /\ UNCHANGED dir
    /\ UNCHANGED <<opt, callVars, loopVars>>

(* The locals go in the reverse order of their declarations: the latches, the guard of the agent, the directory. *)
LatchesGo ==
    /\ at = "return"
    /\ frames' = {}
    /\ Goto("guard")
    /\ UNCHANGED <<opt, dir, agentVars, unanswered, seen, status, stale, loopVars, code>>

AgentGuardGoes ==
    /\ at = "guard"
    /\ agent' = IF ~guarded THEN agent ELSE IF agent = "live" THEN "dead" ELSE "twice"
    /\ guarded' = FALSE
    /\ Goto("wipe")
    /\ UNCHANGED <<opt, dir, callVars, loopVars, code>>

Wipes == opt.dir = "scratch"

TmpdirGoes ==
    /\ at = "wipe"
    /\ dir' = IF Wipes /\ dir = "there" THEN "gone" ELSE dir
    /\ Goto("exited")
    /\ UNCHANGED <<opt, agentVars, callVars, loopVars, code>>
-------------------------------------------------------------------------------
MainStep ==
    \/ parse_cli \/ load \/ MakeDataDir \/ create_agent \/ InstallCallbacks \/ StartAgent
    \/ connect_printer \/ SessionReady \/ Kickstart \/ load_print_params
    \/ QueryProbe \/ BindProbe \/ CertProbe \/ GapShapes \/ GapConnect \/ GapEnd
    \/ HttpProbe \/ FilamentProbe \/ SoftMatchProbe \/ RegionProbe \/ MinorsProbe
    \/ MwCall \/ MwSettled \/ MwEnd
    \/ CameraBringUp \/ AskCameraUrl \/ CameraAttemptOver \/ CameraSettled \/ CameraEnd
    \/ FtConnect \/ FtJob \/ FtJobOver \/ FtEnd
    \/ IdleAction \/ send_raw \/ StartPrint \/ WaitFinished \/ Finish
    \/ LatchesGo \/ AgentGuardGoes \/ TmpdirGoes

RunnerNext ==
    \/ MainStep \/ KeepaliveEnds
    \/ \E c \in {"connect", "server", "update", "subtask", "url", "lateUrl", "result", "late"} :
          Callback(c)

RunnerTypeOK ==
    /\ opt \in CliArgs
    /\ dir \in {"none", "there", "gone"} /\ agent \in {"none", "live", "dead", "twice"}
    /\ keepalive \in {"none", "running", "told", "ended"} /\ tries \in 0..(4 + MaxFtJobs)
-------------------------------------------------------------------------------
(* Whatever way main ends, by return, exception or _Exit, a scratch data
   directory is gone afterwards, one the user gave or asked to keep is not. *)
ScratchDirGoes ==
    /\ at = "exited" => (dir = "there") = (dir # "none" /\ opt.dir # "scratch")
    /\ opt.dir # "scratch" => dir # "gone"

(* The agent is destroyed once: by the orderly end or by its guard, and an
   end that is not _Exit leaves no live agent behind (main.cpp's comment on
   AgentGuard: worker threads left at exit abort the process). *)
AgentDestroyedOnce ==
    /\ agent # "twice"
    /\ at = "wipe" => agent # "live"

(* A callback that finds its stack object gone is either one of the window
   between the latches and the guard of an early return, or one of a probe
   that stopped waiting (jobs, MakerWorld).  In an orderly end, and for the
   camera probe whose state is shared with the callback, there is none. *)
CallbacksFindTheirState == stale \subseteq {"early", "late"}

(* The runner reports success for a print only if the plugin reported that
   it finished: a timeout, an error and a stage in between are told apart. *)
SuccessIsReported ==
    at = "exited" /\ code = 0 /\ opt.action \in PrintActions => status = "Finished"

(* Every run ends: no wait of main is without a deadline, and the thread it
   joins has been told to stop. *)
RunnerEnds == at = "load" ~> at = "exited"

\* However main ends: the directory is gone, the agent destroyed once, callbacks find their
\* objects but for the named cases, and 0 means that the print finished.
RunnerSound ==
    /\ RunnerTypeOK /\ ScratchDirGoes /\ AgentDestroyedOnce
    /\ CallbacksFindTheirState /\ SuccessIsReported
===============================================================================
