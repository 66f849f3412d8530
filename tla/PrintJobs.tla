----------------------------- MODULE PrintJobs -----------------------------
(***************************************************************************)
(* The print calls of the ABI (abi_print.cpp): a local print, a print with *)
(* a cloud record, a cloud print, a print from storage and a bare upload   *)
(* (print_job.cpp, cloud_print.cpp), over the FTPS client (ftps.cpp).      *)
(*                                                                         *)
(* A call runs on the slicer's job thread, one at a time; a failed call    *)
(* may be followed by another entry point, which is how Studio falls back  *)
(* to the cloud.  Around it the user cancels, the printer answers a        *)
(* command after its timeout, the LAN session fails, and the cloud refuses *)
(* a request or its answer is lost after the request took effect.          *)
(***************************************************************************)
EXTENDS Naturals, Sequences

CONSTANTS
    Modes,      \* values of cloud_print in obn.conf
    Folders,    \* where PrintParams::ftp_folder points
    RootSets,   \* storage directories a printer may serve over FTPS
    MaxCalls,   \* bound: print calls in a run
    MaxFaults,  \* bound: timeouts, refusals and lost answers in a run
    MaxPolls,   \* bound for the 20 attempts of poll_upload
    Chunks      \* bound: writes of one upload

Entries == {"start_print", "start_local_print_with_record",
            "start_local_print", "start_sdcard_print",
            "start_send_gcode_to_sdcard"}
Kinds == {"none", "local", "record", "cloud", "sdcard", "gcode"}
Dirs == {"/", "/sdcard", "/usb"}
Paths == Dirs \cup {"emmc", "none"}
Codes == {0, 150, 226, 227, 250, 426, 550}   \* 0: read_reply returned -1

ASSUME PrintAssumption ==
    /\ Modes \subseteq {"cloud_only", "try_lan_first", "lan_only", "makerworld_only"}
    /\ Folders \subseteq Dirs /\ RootSets \subseteq SUBSET Dirs
    /\ MaxCalls \in Nat /\ MaxFaults \in Nat /\ MaxPolls \in Nat /\ Chunks \in Nat

VARIABLES
    conf,     \* configuration, printer and parameters: fixed for a behaviour
    pc, kind, \* where the running call is, and which job it runs
    cancel,   \* what cancel_fn answers
    rc, errs, \* result of the last call; ERROR updates it has shown
    path,     \* remote path: asked for, then the one the probe chose
    todo,     \* directories still to probe; writes, polls or tries left
    left,
    ctrl,     \* replies on the FTPS control channel nobody has read
    files,    \* paths of the printer that hold the whole file
    staged,   \* a cover is staged for the job's name
    printed,  \* path of the last print command of the call
    web,      \* what the cloud has of this call's project
    tasks,    \* tasks the cloud created for this call
    waited,   \* history: a cancel came while the LAN session was awaited
    calls, faults

vars == <<conf, pc, kind, cancel, rc, errs, path, todo, left, ctrl, files,
          staged, printed, web, tasks, waited, calls, faults>>
jobVars  == <<conf, kind, calls>>
ftpVars  == <<path, todo, ctrl, files>>
printVars == <<staged, printed>>
webVars  == <<web, tasks>>

NoProject == [proj |-> FALSE, config |-> FALSE, main |-> FALSE, url |-> "none"]

TypeOK ==
    /\ pc \in {"idle", "connect", "probe", "pasv", "stor", "write", "done",
               "ensure", "publish", "send", "project", "config", "notify",
               "poll", "geturl", "main", "patch", "task", "brtc"}
    /\ kind \in Kinds /\ cancel \in BOOLEAN /\ waited \in BOOLEAN
    /\ rc \in {"none", "ok", "failed", "canceled"} /\ errs \in 0..1
    /\ path \in Paths /\ printed \in Paths /\ files \subseteq Paths
    /\ todo \in Seq(Dirs) /\ left \in 0..MaxPolls + Chunks /\ ctrl \in Seq(Codes)
    /\ staged \in BOOLEAN
    /\ web \in [proj : BOOLEAN, config : BOOLEAN, main : BOOLEAN,
                url : {"none", "s3", "ftp"}]
    /\ tasks \in 0..2 /\ calls \in 0..MaxCalls /\ faults \in 0..MaxFaults

\* Any configuration, printer and parameters; no call is running.
Init ==
    /\ conf \in [mode : Modes, blockCloud : BOOLEAN, loggedIn : BOOLEAN,
                 design : BOOLEAN, roots : RootSets, folder : Folders,
                 brtc : BOOLEAN, pop : BOOLEAN]
    /\ pc = "idle" /\ kind = "none" /\ cancel = FALSE /\ rc = "none" /\ errs = 0
    /\ path = "none" /\ todo = <<>> /\ left = 0 /\ ctrl = <<>> /\ files = {}
    /\ staged = FALSE /\ printed = "none" /\ web = NoProject /\ tasks = 0
    /\ waited = FALSE /\ calls = 0 /\ faults = 0

Fault == faults < MaxFaults /\ faults' = faults + 1

---------------------------------------------------------------------------
(* Returning from a call *)

\* return code, after a PrintingStageERROR update unless shown is 0.
Return(code, shown) ==
    /\ pc' = "idle" /\ rc' = code /\ errs' = errs + shown
    /\ UNCHANGED <<jobVars, cancel, waited, left>>

Goto(p) == pc' = p /\ UNCHANGED <<jobVars, cancel, rc, errs, waited>>

\* emit_finished_countdown: three ticks and 0, whether or not it is cancelled.
FinishedCountdown == Return("ok", 0)

\* fail_stage: an ERROR update with the status and the start of the body.
FailStage == Fault /\ Return("failed", 1)

---------------------------------------------------------------------------
(* Entry points *)

\* effective_mode: with cloud_for_makerworld_only the archive decides.
EffectiveMode ==
    CASE conf.mode # "makerworld_only" -> conf.mode
      [] conf.design -> "cloud_only"
      [] OTHER -> "lan_only"

\* The job an entry point runs, or "none" when cloud_print refuses it.
JobOf(entry) ==
    CASE entry = "start_print" ->
             IF EffectiveMode = "lan_only" THEN "none" ELSE "cloud"
      [] entry = "start_local_print_with_record" ->
             IF EffectiveMode \in {"try_lan_first", "lan_only"}
             THEN "local" ELSE "record"
      [] entry = "start_local_print" -> "local"
      [] entry = "start_sdcard_print" -> "sdcard"
      [] OTHER -> "gcode"

\* use_brtc_cache_upload: local prints with try_emmc_print, unless force_ftps.
UseBrtc(k) == k = "local" /\ conf.brtc

\* Checks that end a call with an ERROR before anything is sent: parameters,
\* block_cloud, the login and the archive's digest.
Refused(k, badParams) ==
    \/ badParams \/ k = "none"
    \/ k \in {"cloud", "record"} /\ (conf.blockCloud \/ ~conf.loggedIn)

FirstStep(k) ==
    CASE UseBrtc(k) -> "brtc"
      [] k \in {"local", "record", "gcode"} -> "connect"
      [] k = "cloud" -> "project"
      [] OTHER -> "send"

\* adjust_storage_path probes only for a path below /sdcard or /usb.
Candidates(dir) ==
    CASE dir = "/sdcard" -> <<"/sdcard", "/usb", "/">>
      [] dir = "/usb"    -> <<"/usb", "/sdcard", "/">>
      [] OTHER           -> <<>>

\* run_*_print_job up to its first request.  cancel_fn is a new one per call.
Start(entry) ==
    \E badParams \in BOOLEAN, alreadyCancelled \in BOOLEAN :
      LET k == JobOf(entry) IN
      /\ pc = "idle" /\ calls < MaxCalls
      /\ calls' = calls + 1 /\ kind' = k /\ cancel' = alreadyCancelled
      /\ waited' = FALSE
      /\ path' = conf.folder /\ todo' = Candidates(conf.folder)
      /\ printed' = "none" /\ web' = NoProject /\ tasks' = 0 /\ ctrl' = <<>>
      /\ left' = Chunks
      /\ CASE Refused(k, badParams) -> pc' = "idle" /\ rc' = "failed" /\ errs' = 1
           [] ~Refused(k, badParams) /\ alreadyCancelled /\ k # "gcode" ->
                  pc' = "idle" /\ rc' = "canceled" /\ errs' = 0
           [] OTHER -> pc' = FirstStep(k) /\ rc' = "none" /\ errs' = 0
      /\ UNCHANGED <<conf, files, staged, faults>>

\* The slicer's cancel_fn turns true.
UserCancels ==
    /\ pc # "idle" /\ ~cancel /\ cancel' = TRUE
    /\ waited' = (waited \/ pc = "ensure")
    /\ UNCHANGED <<conf, pc, kind, rc, errs, left, ftpVars, printVars, webVars,
                   calls, faults>>

---------------------------------------------------------------------------
(* FTPS client: a command's reply is the oldest one on the control channel; *)
(* a reply that comes after the timeout stays there.                        *)

\* send_cmd: the printer answers with answer; code is what the client reads.
Command(answer, code) ==
    LET q == Append(ctrl, answer) IN
    \/ code = Head(q) /\ ctrl' = Tail(q) /\ UNCHANGED faults
    \/ code = 0 /\ ctrl' = q /\ Fault

\* quit after a failure: what is left on the channel goes with it, the next call
\* has a client of its own (Start).
QuitAfter(code, shown) ==
    /\ Return(code, shown)
    /\ UNCHANGED <<path, todo, printVars, webVars>>

\* connect_transport and login; a missing, empty or oversized file fails first.
Connect ==
    /\ pc = "connect"
    /\ \/ /\ Goto(IF todo = <<>> THEN "pasv" ELSE "probe")
          /\ UNCHANGED <<left, ftpVars, printVars, webVars, faults>>
       \/ FailStage /\ UNCHANGED <<ftpVars, printVars, webVars>>

\* One round of adjust_storage_path: the first directory that answers wins.
\* When none does, the path stays the caller's.
Probe ==
    /\ pc = "probe"
    /\ \E code \in Codes :
         LET dir == Head(todo) IN
         /\ Command(IF dir \in conf.roots THEN 250 ELSE 550, code)
         /\ path' = IF code = 250 THEN dir ELSE path
         /\ todo' = IF code = 250 THEN <<>> ELSE Tail(todo)
    /\ Goto(IF todo' = <<>> THEN "pasv" ELSE "probe")
    /\ UNCHANGED <<left, files, printVars, webVars>>

\* open_data_tcp: PASV, then the data connection.
Pasv ==
    /\ pc = "pasv"
    /\ \E code \in Codes :
         /\ Command(227, code)
         /\ \/ /\ code = 227 /\ Goto("stor")
               /\ UNCHANGED <<left, path, todo, files, printVars, webVars>>
            \/ code # 227 /\ QuitAfter("failed", 1) /\ UNCHANGED files

\* STOR, its 150 and the TLS handshake of the data connection.  The printer
\* truncates the file before it answers.
Stor ==
    /\ pc = "stor"
    /\ \E code \in Codes :
         /\ Command(IF path = "/" \/ path \in conf.roots THEN 150 ELSE 550, code)
         /\ files' = IF path = "/" \/ path \in conf.roots
                     THEN files \ {path} ELSE files
         /\ \/ /\ code = 150 /\ Goto("write")
               /\ UNCHANGED <<left, path, todo, printVars, webVars>>
            \/ code # 150 /\ QuitAfter("failed", 1)

\* One write of the loop and its progress callback, which asks cancel_fn.
Write ==
    /\ pc = "write" /\ left > 0
    /\ \/ /\ ~cancel /\ left' = left - 1
          /\ Goto(IF left = 1 THEN "done" ELSE "write")
          /\ UNCHANGED <<ftpVars, printVars, webVars, faults>>
       \/ cancel /\ QuitAfter("canceled", 1) /\ UNCHANGED <<ctrl, files, faults>>
       \/ Fault /\ QuitAfter("failed", 1) /\ UNCHANGED <<ctrl, files>>

AnyReplyFinishes(code) == code # 0

\* What stor takes for a finished transfer.
Finished(code) == code \in {226, 250}

\* Where a call goes once its archive is on the printer: ftp_upload's callers
\* ask cancel_fn again in run_local_print_job only.
AfterUpload ==
    CASE kind = "gcode"  -> FinishedCountdown
      [] kind = "record" -> /\ Goto("project") /\ UNCHANGED left
      [] OTHER ->
           IF cancel THEN Return("canceled", 1)
           ELSE /\ Goto("ensure") /\ UNCHANGED left

\* The data connection is closed; 226 says the printer kept the file, 426 that
\* it saw the connection break.
StorDone ==
    /\ pc = "done"
    /\ \E code \in Codes, whole \in BOOLEAN :
         /\ ~whole => faults < MaxFaults
         /\ Command(IF whole THEN 226 ELSE 426, code)
         /\ files' = IF whole THEN files \cup {path} ELSE files
         /\ \/ Finished(code) /\ AfterUpload
            \/ ~Finished(code) /\ Return("failed", 1)
    /\ UNCHANGED <<path, todo, printVars, webVars>>

\* tunnel_upload::upload_file to emmc; its failures show no ERROR update.
BrtcUpload ==
    /\ pc = "brtc"
    /\ \/ /\ AfterUpload /\ files' = files \cup {"emmc"} /\ path' = "emmc"
          /\ UNCHANGED <<todo, ctrl, printVars, webVars, faults>>
       \/ cancel /\ Return("canceled", 0) /\ UNCHANGED <<ftpVars, printVars, webVars, faults>>
       \/ Fault /\ Return("failed", 0) /\ UNCHANGED <<ftpVars, printVars, webVars>>

---------------------------------------------------------------------------
(* Starting the print over MQTT *)

\* ensure_lan_session has come back with up; cancel wins over both outcomes.
AfterWait(up) ==
    CASE cancel -> Return("canceled", 1)
      [] ~cancel /\ ~up -> Return("failed", 1)
      [] OTHER -> Goto("publish") /\ UNCHANGED left

EnsureLan ==
    /\ pc = "ensure"
    /\ \/ AfterWait(TRUE) /\ UNCHANGED faults
       \/ AfterWait(FALSE) /\ Fault
    /\ UNCHANGED <<ftpVars, printVars, webVars>>

\* unstage: a publish that failed leaves no staged cover behind.
StagedAfter(pub) == pub

\* stage_from_3mf, then send_message of the project_file command.
Publish ==
    /\ pc = "publish"
    /\ \/ /\ FinishedCountdown /\ printed' = path /\ staged' = StagedAfter(TRUE)
          /\ UNCHANGED faults
       \/ FailStage /\ staged' = StagedAfter(FALSE) /\ UNCHANGED printed
    /\ UNCHANGED <<ftpVars, webVars>>

\* run_sdcard_print_job: the command names a file the slicer found listed.
SendFromStorage ==
    /\ pc = "send"
    /\ \/ FinishedCountdown /\ UNCHANGED faults
       \/ FailStage
    /\ UNCHANGED <<ftpVars, printVars, webVars>>

---------------------------------------------------------------------------
(* The cloud project.  A request takes effect or not, and its answer arrives *)
(* or is lost; only an answer of 2xx lets the call go on.                    *)

Request(at, next, effect) ==
    /\ pc = at
    /\ \/ Goto(next) /\ web' = effect /\ UNCHANGED <<left, faults>>
       \/ FailStage /\ web' \in {web, effect}
    /\ UNCHANGED <<ftpVars, printVars, tasks>>

\* create_project
CreateProject == Request("project", "config", [web EXCEPT !.proj = TRUE])

\* s3_put: the transfer asks cancel_fn, and a failure after a cancel is one.
S3Put(at, next, effect) ==
    \/ Request(at, next, effect)
    \/ /\ pc = at /\ cancel /\ Return("canceled", 0) /\ web' \in {web, effect}
       /\ UNCHANGED <<ftpVars, printVars, tasks, faults>>

PutConfig == S3Put("config", "notify", [web EXCEPT !.config = TRUE])

\* notify_upload; poll_upload then has its own attempts.
NotifyUpload ==
    /\ pc = "notify"
    /\ \/ Goto("poll") /\ left' = MaxPolls /\ UNCHANGED faults
       \/ FailStage
    /\ UNCHANGED <<ftpVars, printVars, webVars>>

\* With a record the archive is on the printer already; else it goes to S3.
AfterPoll == IF kind = "record" THEN "patch" ELSE "geturl"

\* The attempts that remain after one that found the upload running, or failed.
AttemptsLeft == left - 1

\* poll_upload: cancel first, then one attempt.
PollUpload ==
    /\ pc = "poll"
    /\ \/ left = 0 /\ Return("failed", 1) /\ UNCHANGED faults
       \/ left > 0 /\ cancel /\ Return("canceled", 0) /\ UNCHANGED faults
       \/ left > 0 /\ ~cancel /\ left' = AttemptsLeft /\ Goto("poll") /\ UNCHANGED faults
       \/ /\ left > 0 /\ ~cancel
          /\ Goto(AfterPoll)
          /\ UNCHANGED <<left, faults>>
       \/ left > 0 /\ ~cancel /\ FailStage
    /\ UNCHANGED <<ftpVars, printVars, webVars>>

GetUploadUrl == Request("geturl", "main", web)

PutMain == S3Put("main", "patch", [web EXCEPT !.main = TRUE])

\* patch_project registers where the printer finds the archive.
PatchProject ==
    Request("patch", "task",
            [web EXCEPT !.url = IF kind = "record" THEN "ftp" ELSE "s3"])

RetryAnyFailure(status, popAttached) == status # 200

\* should_retry_mytask_pop: only a 403 of a request without the PoP headers.
ShouldRetry(status, popAttached) == status = 403 /\ ~popAttached

\* A failed POST /my/task ends the call with its own error, cancelled or not.
TaskFailure == "failed"

\* create_task: POST /my/task, once more with PoP headers after a 403.  A
\* status of 0 is a transport error: the task may exist.
CreateTask ==
    /\ pc = "task"
    /\ \E first \in {200, 403, 0}, second \in {200, 403, 0} :
       \E made1 \in BOOLEAN, made2 \in BOOLEAN :
         LET retry == ShouldRetry(first, conf.pop)
             last  == IF retry THEN second ELSE first
         IN /\ first = 200 => made1
            /\ first = 403 => ~made1
            /\ second = 200 => (made2 = retry)
            /\ second = 403 => ~made2
            /\ made2 => retry
            /\ tasks' = (IF made1 THEN 1 ELSE 0) + (IF made2 THEN 1 ELSE 0)
            /\ faults' = IF first = 200 THEN faults ELSE faults + 1
            /\ faults' <= MaxFaults
            /\ Return(IF last = 200 THEN "ok" ELSE TaskFailure,
                      IF last = 200 THEN 0 ELSE 1)
    /\ UNCHANGED <<ftpVars, printVars, web>>

Step ==
    \/ Connect \/ Probe \/ Pasv \/ Stor \/ Write \/ StorDone \/ BrtcUpload
    \/ EnsureLan \/ Publish \/ SendFromStorage
    \/ CreateProject \/ PutConfig \/ NotifyUpload \/ PollUpload
    \/ GetUploadUrl \/ PutMain \/ PatchProject \/ CreateTask

\* Every call has been made.
Done == pc = "idle" /\ calls = MaxCalls /\ UNCHANGED vars

Next ==
    \/ \E entry \in Entries : Start(entry)
    \/ UserCancels
    \/ Step
    \/ Done

\* A running call keeps running: sockets, requests and waits all time out.
Spec == Init /\ [][Next]_vars /\ WF_vars(Step)

---------------------------------------------------------------------------
(* Properties *)

\* A call that returns CANCELED has started nothing: no project_file command
\* was published and no task exists (print_job.cpp, cloud_print.cpp).
CanceledNeverPrints == rc = "canceled" => printed = "none" /\ tasks = 0

\* A cancel that arrives while ensure_lan_session waits wins over both the
\* failure report and the publish (run_local_print_job).
CancelWinsOverWait == waited => printed = "none" /\ rc \in {"none", "canceled"}

\* A project_file command names a file the printer holds in full, also when
\* late replies made the storage probe choose another directory
\* (adjust_storage_path, Client::stor).
PrintedFileIsThere ==
    [][printed' # printed /\ printed' # "none" => printed' \in files']_vars

\* A task is only created for a project whose config archive is uploaded and
\* whose registered url has the whole file behind it (run_cloud_print_job).
TaskHasItsFiles ==
    tasks > 0 => /\ web.config
                 /\ \/ web.url = "s3" /\ web.main
                    \/ web.url = "ftp" /\ path \in files

\* One call registers at most one task, in spite of the retry and of lost
\* answers (create_task).
AtMostOneTask == tasks <= 1

\* No cover stays staged for a name whose print did not start (cover_cache
\* stage_from_3mf and unstage in run_local_print_job).
NoStrayCover ==
    [][staged' /\ ~staged => printed' # "none"]_vars

\* A failed call shows the user one ERROR, except a failed :6000 upload, and a
\* successful one none (ftp_upload, fail_stage, run_local_print_job).
ReportedOnce ==
    /\ rc = "ok" => errs = 0
    /\ rc = "failed" => errs = 1 \/ UseBrtc(kind)

\* With lan_only, or cloud_for_makerworld_only and an archive of the user's
\* own, and with block_cloud, nothing of a call reaches the cloud, whichever
\* entry points Studio falls back to (abi_print.cpp, run_cloud_print_job).
LanOnlyStaysLocal ==
    EffectiveMode = "lan_only" \/ conf.blockCloud => web = NoProject /\ tasks = 0

\* Every print call returns: no wait of an upload or a poll is unbounded.
CallReturns == pc # "idle" ~> pc = "idle"

\* What a print call may start: nothing after a cancel, at most one task, with its
\* files, nothing in the cloud that the user kept local, and one ERROR if it failed.
CallSound ==
    /\ TypeOK
    /\ CanceledNeverPrints /\ CancelWinsOverWait
    /\ TaskHasItsFiles /\ AtMostOneTask
    /\ LanOnlyStaysLocal /\ ReportedOnce

\* What a print call leaves behind when it has returned, as it must: the file of the
\* print is on the printer, and a cover only with a print.
PrintSound == PrintedFileIsThere /\ NoStrayCover /\ CallReturns
=============================================================================
