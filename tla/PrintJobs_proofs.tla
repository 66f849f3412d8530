--------------------------- MODULE PrintJobs_proofs ---------------------------
(***************************************************************************)
(* TLAPS proofs about PrintJobs: what a print call may start, for every    *)
(* configuration, number of calls, faults and late FTPS replies.           *)
(***************************************************************************)
EXTENDS PrintJobs, SequenceTheorems, TLAPS

CloudPcs == {"project", "config", "notify", "poll", "geturl", "main", "patch", "task"}

\* The job at each position, as FirstStep and AfterUpload lead there.
JobAt ==
    /\ pc \in {"connect", "probe", "pasv", "stor", "write", "done"}
           => kind \in {"local", "record", "gcode"}
    /\ pc = "brtc" => UseBrtc(kind)
    /\ pc \in {"ensure", "publish"} => kind = "local"
    /\ pc \in CloudPcs => kind \in {"record", "cloud"}
    /\ pc \in {"geturl", "main"} => kind = "cloud"

\* A call that has not returned has shown, printed and registered nothing.
RunningIsClean == pc # "idle" => rc = "none" /\ errs = 0 /\ printed = "none" /\ tasks = 0

\* A cancel during ensure_lan_session is followed by nothing but its return.
WaitedCancels ==
    waited => /\ cancel /\ printed = "none"
              /\ pc = "ensure" \/ (pc = "idle" /\ rc = "canceled")

\* Only a job that cloud_print and block_cloud let pass has anything in the cloud.
CloudAllowed == ~conf.blockCloud /\ EffectiveMode # "lan_only"
CloudNeedsLeave ==
    /\ pc # "idle" /\ kind \in {"record", "cloud"} => CloudAllowed
    /\ web # NoProject \/ tasks > 0 => CloudAllowed

\* Late replies end with the probes: PASV is answered with 227 only on a channel that holds
\* nothing else, and from there on a reply is the one to the command just sent.
ChannelInStep ==
    /\ pc \in {"probe", "pasv"} => ctrl \in Seq({250, 550})
    /\ pc = "connect" => ctrl = <<>>
    /\ pc \in {"stor", "write", "done"} => ctrl = <<>>
    /\ pc = "probe" => todo # <<>>

\* The archive is where the call says, once its upload has ended.
ArchiveThere ==
    /\ pc # "idle" => path # "none"
    /\ "none" \notin files
    /\ pc \in {"ensure", "publish"} => path \in files
    /\ pc \in CloudPcs /\ kind = "record" => path \in files

\* What the cloud has of the project at each request.
ProjectGrows ==
    /\ pc \in {"notify", "poll", "geturl", "main", "patch", "task"} => web.config
    /\ pc \in {"patch", "task"} /\ kind = "cloud" => web.main
    /\ pc = "task" => web.url = IF kind = "record" THEN "ftp" ELSE "s3"

Confs == [mode : Modes, blockCloud : BOOLEAN, loggedIn : BOOLEAN, design : BOOLEAN,
          roots : RootSets, folder : Folders, brtc : BOOLEAN, pop : BOOLEAN]

CallInv ==
    /\ TypeOK /\ conf \in Confs
    /\ JobAt /\ RunningIsClean /\ WaitedCancels /\ CloudNeedsLeave /\ ChannelInStep
    /\ ArchiveThere /\ ProjectGrows
    /\ CanceledNeverPrints /\ TaskHasItsFiles /\ AtMostOneTask /\ ReportedOnce

Webs == [proj : BOOLEAN, config : BOOLEAN, main : BOOLEAN, url : {"none", "s3", "ftp"}]

Pcs == {"idle", "connect", "probe", "pasv", "stor", "write", "done", "ensure", "publish", "send",
        "brtc"} \cup CloudPcs

\* The types, with the sets that the steps below keep folded.
LEMMA Types ==
    TypeOK <=>
    /\ pc \in Pcs /\ kind \in Kinds /\ cancel \in BOOLEAN /\ waited \in BOOLEAN
    /\ rc \in {"none", "ok", "failed", "canceled"} /\ errs \in 0..1
    /\ path \in Paths /\ printed \in Paths /\ files \subseteq Paths
    /\ todo \in Seq(Dirs) /\ left \in 0..MaxPolls + Chunks /\ ctrl \in Seq(Codes)
    /\ staged \in BOOLEAN /\ web \in Webs
    /\ tasks \in 0..2 /\ calls \in 0..MaxCalls /\ faults \in 0..MaxFaults
<1>1. Pcs = {"idle", "connect", "probe", "pasv", "stor", "write", "done", "ensure", "publish",
             "send", "project", "config", "notify", "poll", "geturl", "main", "patch", "task", "brtc"}
  BY DEF Pcs, CloudPcs
<1> QED
  BY <1>1 DEF TypeOK, Webs

\* What the requests of the cloud do to the record of the project.
LEMMA WebUpdates ==
    ASSUME NEW w \in Webs
    PROVE  /\ NoProject \in Webs
           /\ [w EXCEPT !.proj = TRUE] \in Webs
           /\ [w EXCEPT !.config = TRUE] \in Webs /\ [w EXCEPT !.config = TRUE].config
           /\ [w EXCEPT !.main = TRUE] \in Webs /\ [w EXCEPT !.main = TRUE].main
           /\ [w EXCEPT !.main = TRUE].config = w.config
           /\ \A u \in {"ftp", "s3"} :
                 /\ [w EXCEPT !.url = u] \in Webs /\ [w EXCEPT !.url = u].url = u
                 /\ [w EXCEPT !.url = u].config = w.config /\ [w EXCEPT !.url = u].main = w.main
BY DEF Webs, NoProject

\* The reply a command reads is its own on an empty channel, and an older one else.
LEMMA CommandFacts ==
    ASSUME CallInv, NEW answer \in Codes, NEW code \in Codes, Command(answer, code), answer # 0
    PROVE  /\ ctrl' \in Seq(Codes) /\ faults' \in 0..MaxFaults
           /\ ctrl = <<>> /\ code # 0 => code = answer /\ ctrl' = <<>>
           /\ ctrl \in Seq({250, 550}) /\ answer \in {250, 550} => ctrl' \in Seq({250, 550})
           /\ ctrl \in Seq({250, 550}) /\ answer = 227 /\ code = 227 => ctrl = <<>>
<1> DEFINE q == Append(ctrl, answer)
<1>0. ctrl \in Seq(Codes) /\ faults \in 0..MaxFaults /\ MaxFaults \in Nat
  BY PrintAssumption DEF CallInv, TypeOK
<1>1. \/ code = Head(q) /\ ctrl' = Tail(q) /\ UNCHANGED faults
      \/ code = 0 /\ ctrl' = q /\ faults < MaxFaults /\ faults' = faults + 1
  BY DEF Command, Fault
<1>2. q \in Seq(Codes) /\ q # <<>> /\ Tail(q) \in Seq(Codes)
  BY <1>0, AppendProperties, HeadTailProperties
<1>3. ctrl = <<>> => Head(q) = answer /\ Tail(q) = <<>>
  BY <1>0, HeadTailAppend
<1>4. ctrl # <<>> => Head(q) = Head(ctrl)
  BY <1>0, HeadTailAppend
<1>5. ctrl # <<>> /\ ctrl \in Seq({250, 550}) => Head(ctrl) \in {250, 550}
  BY HeadTailProperties
<1>6. ctrl \in Seq({250, 550}) /\ answer \in {250, 550} => q \in Seq({250, 550}) /\ Tail(q) \in Seq({250, 550})
  BY AppendProperties, HeadTailProperties
<1> HIDE DEF q
<1>7. ctrl' \in Seq(Codes) /\ faults' \in 0..MaxFaults
  <2>1. ctrl' \in Seq(Codes)
    BY <1>1, <1>2
  <2>2. faults' \in 0..MaxFaults
    BY <1>0, <1>1
  <2> QED
    BY <2>1, <2>2
<1>8. ctrl = <<>> /\ code # 0 => code = answer /\ ctrl' = <<>>
  BY <1>1, <1>3
<1>9. ctrl \in Seq({250, 550}) /\ answer \in {250, 550} => ctrl' \in Seq({250, 550})
  BY <1>1, <1>6
<1>10. ctrl \in Seq({250, 550}) /\ answer = 227 /\ code = 227 => ctrl = <<>>
  BY <1>1, <1>4, <1>5
<1> QED
  BY <1>7, <1>8, <1>9, <1>10

\* No call is running at first.
LEMMA CallInvInit == Init => CallInv
<1> SUFFICES ASSUME Init PROVE CallInv
  OBVIOUS
<1>1. TypeOK
  <2>1. NoProject \in Webs
    BY DEF NoProject, Webs
  <2> QED
    <3>1. left \in 0..MaxPolls + Chunks /\ calls \in 0..MaxCalls /\ faults \in 0..MaxFaults
          /\ tasks \in 0..2 /\ errs \in 0..1
      BY PrintAssumption DEF Init
    <3>2. todo \in Seq(Dirs) /\ ctrl \in Seq(Codes)
      BY DEF Init
    <3>3. /\ pc \in Pcs /\ kind \in Kinds /\ path \in Paths /\ printed \in Paths /\ files \subseteq Paths
          /\ web \in Webs /\ rc \in {"none", "ok", "failed", "canceled"}
      BY <2>1 DEF Init, Pcs, Kinds, Paths
    <3>4. cancel \in BOOLEAN /\ waited \in BOOLEAN /\ staged \in BOOLEAN
      BY DEF Init
    <3> QED
      BY <3>1, <3>2, <3>3, <3>4, Types
<1> QED
  BY <1>1 DEF Init, CallInv, Confs, JobAt, RunningIsClean, WaitedCancels, CloudNeedsLeave,
     ChannelInStep, ArchiveThere, ProjectGrows, CanceledNeverPrints,
     TaskHasItsFiles, AtMostOneTask, ReportedOnce, CloudPcs

Rest ==
    /\ JobAt /\ RunningIsClean /\ WaitedCancels /\ CloudNeedsLeave /\ ChannelInStep
    /\ ArchiveThere /\ ProjectGrows
    /\ CanceledNeverPrints /\ TaskHasItsFiles /\ AtMostOneTask /\ ReportedOnce

\* A running call returns without having started anything.
LEMMA ReturnsEmpty ==
    ASSUME CallInv, pc # "idle", NEW code \in {"ok", "failed", "canceled"}, NEW shown \in 0..1,
           Return(code, shown), printed' \in {"none", printed}, tasks' = 0,
           code = "ok" => shown = 0 /\ ~waited,
           code = "failed" => (shown = 1 \/ UseBrtc(kind)) /\ ~waited,
           "none" \notin files',
           web' # NoProject => CloudAllowed
    PROVE  Rest' /\ errs' \in 0..1 /\ pc' = "idle" /\ rc' = code
<1> USE DEF Return, jobVars
<1>0. rc = "none" /\ errs = 0 /\ printed = "none" /\ tasks = 0
  BY DEF CallInv, RunningIsClean
<1>1. pc' = "idle" /\ rc' = code /\ errs' = shown /\ UNCHANGED <<conf, kind, cancel, waited>>
      /\ printed' = "none"
  BY <1>0
<1>2. waited => code = "canceled" /\ cancel
  BY DEF CallInv, WaitedCancels
<1>3. (UseBrtc(kind) <=> UseBrtc(kind)') /\ (CloudAllowed <=> CloudAllowed')
  BY <1>1 DEF UseBrtc, CloudAllowed, EffectiveMode
<1>4. WaitedCancels' /\ RunningIsClean' /\ JobAt'
  BY <1>1, <1>2 DEF WaitedCancels, RunningIsClean, JobAt, CloudPcs
<1>5. CloudNeedsLeave' /\ ChannelInStep' /\ ArchiveThere' /\ ProjectGrows'
  BY <1>1, <1>3 DEF CloudNeedsLeave, ChannelInStep, ArchiveThere, ProjectGrows, CloudPcs
<1>6. CanceledNeverPrints' /\ TaskHasItsFiles' /\ AtMostOneTask' /\ ReportedOnce'
  BY <1>1, <1>3 DEF CanceledNeverPrints, TaskHasItsFiles, AtMostOneTask, ReportedOnce
<1> QED
  BY <1>1, <1>4, <1>5, <1>6 DEF Rest

\* A running call goes on to position p, with the same archive and project.
LEMMA GoesOn ==
    ASSUME CallInv, pc # "idle", NEW p \in Pcs \ {"idle"}, Goto(p),
           UNCHANGED <<printed, tasks>>, "none" \notin files', path' # "none",
           waited => p = "ensure",
           JobAt', ChannelInStep', ProjectGrows',
           p \in {"ensure", "publish"} => path' \in files',
           p \in CloudPcs /\ kind = "record" => path' \in files',
           web' # NoProject => CloudAllowed
    PROVE  Rest'
<1> USE DEF Goto, jobVars
<1>0. rc = "none" /\ errs = 0 /\ printed = "none" /\ tasks = 0
  BY DEF CallInv, RunningIsClean
<1>1. pc' = p /\ UNCHANGED <<conf, kind, cancel, waited, rc, errs, printed, tasks>>
  OBVIOUS
<1>3. (UseBrtc(kind) <=> UseBrtc(kind)') /\ (CloudAllowed <=> CloudAllowed')
  BY <1>1 DEF UseBrtc, CloudAllowed, EffectiveMode
<1>4. WaitedCancels' /\ RunningIsClean'
  BY <1>0, <1>1 DEF WaitedCancels, RunningIsClean, CallInv
<1>5. CloudNeedsLeave' /\ ArchiveThere'
  BY <1>0, <1>1, <1>3 DEF CallInv, CloudNeedsLeave, ArchiveThere
<1>6. CanceledNeverPrints' /\ TaskHasItsFiles' /\ AtMostOneTask' /\ ReportedOnce'
  BY <1>0, <1>1 DEF CanceledNeverPrints, TaskHasItsFiles, AtMostOneTask, ReportedOnce
<1> QED
  BY <1>4, <1>5, <1>6 DEF Rest

\* The entry points.
LEMMA StartStep == CallInv /\ (\E entry \in Entries : Start(entry)) => Rest' /\ TypeOK'
<1> SUFFICES ASSUME CallInv, NEW entry \in Entries, Start(entry)
             PROVE  Rest' /\ TypeOK'
  OBVIOUS
<1> DEFINE k == JobOf(entry)
<1>1. /\ kind' = k /\ cancel' \in BOOLEAN /\ waited' = FALSE /\ conf' = conf
      /\ files' = files /\ staged' = staged /\ faults' = faults
      /\ path' = conf.folder /\ todo' = Candidates(conf.folder)
      /\ printed' = "none" /\ web' = NoProject /\ tasks' = 0 /\ ctrl' = <<>>
      /\ left' = Chunks /\ calls < MaxCalls /\ calls' = calls + 1
  BY DEF Start
<1>2. \/ pc' = "idle" /\ rc' = "failed" /\ errs' = 1
      \/ pc' = "idle" /\ rc' = "canceled" /\ errs' = 0
      \/ /\ pc' = FirstStep(k) /\ rc' = "none" /\ errs' = 0
         /\ k # "none" /\ (k \in {"cloud", "record"} => ~conf.blockCloud)
  <2>1. PICK bad \in BOOLEAN, already \in BOOLEAN :
          CASE Refused(k, bad) -> pc' = "idle" /\ rc' = "failed" /\ errs' = 1
            [] ~Refused(k, bad) /\ already /\ k # "gcode" ->
                   pc' = "idle" /\ rc' = "canceled" /\ errs' = 0
            [] OTHER -> pc' = FirstStep(k) /\ rc' = "none" /\ errs' = 0
    BY DEF Start
  <2> HIDE DEF k
  <2> QED
    BY <2>1 DEF Refused
<1>3. k \in Kinds /\ (k = "cloud" \/ k = "record" => EffectiveMode # "lan_only")
  BY DEF JobOf, Kinds
<1> HIDE DEF k
<1>4. k # "none" => /\ FirstStep(k) \in {"brtc", "connect", "project", "send"}
                    /\ FirstStep(k) = "brtc" => UseBrtc(k)
                    /\ FirstStep(k) = "connect" => k \in {"local", "record", "gcode"}
                    /\ FirstStep(k) = "project" => k = "cloud"
  BY <1>3 DEF FirstStep, UseBrtc, Kinds
<1>5. (UseBrtc(k) <=> UseBrtc(kind)') /\ (CloudAllowed <=> CloudAllowed')
  BY <1>1 DEF UseBrtc, CloudAllowed, EffectiveMode
<1>6. path' \in Dirs /\ path' # "none" /\ todo' \in Seq(Dirs)
  <2>1. conf.folder \in Dirs
    BY PrintAssumption DEF CallInv, Confs
  <2>2. todo' \in {<<"/sdcard", "/usb", "/">>, <<"/usb", "/sdcard", "/">>, <<>>}
    BY <1>1 DEF Candidates
  <2>3. <<>> \in Seq(Dirs) /\ \A a, b, c \in Dirs : <<a, b, c>> \in Seq(Dirs)
    OBVIOUS
  <2>a. "/" \in Dirs /\ "/sdcard" \in Dirs /\ "/usb" \in Dirs
    BY DEF Dirs
  <2>4. todo' \in Seq(Dirs)
    BY <2>2, <2>3, <2>a
  <2> QED
    BY <1>1, <2>1, <2>4 DEF Dirs
<1>7. JobAt' /\ RunningIsClean' /\ WaitedCancels'
  BY <1>1, <1>2, <1>4, <1>5 DEF JobAt, RunningIsClean, WaitedCancels, CloudPcs
<1>8. CloudNeedsLeave' /\ ChannelInStep' /\ ProjectGrows'
  <2>1. CloudNeedsLeave'
    BY <1>1, <1>2, <1>3, <1>5 DEF CloudNeedsLeave, CloudAllowed
  <2>2. ChannelInStep' /\ ProjectGrows'
    BY <1>1, <1>2, <1>4 DEF ChannelInStep, ProjectGrows
  <2> QED
    BY <2>1, <2>2
<1>9. ArchiveThere' /\ CanceledNeverPrints' /\ TaskHasItsFiles' /\ AtMostOneTask' /\ ReportedOnce'
  BY <1>1, <1>2, <1>4, <1>6
  DEF ArchiveThere, CanceledNeverPrints, TaskHasItsFiles, AtMostOneTask, ReportedOnce, CallInv, CloudPcs
<1>10. TypeOK'
  <2>1. NoProject \in Webs
    BY DEF NoProject, Webs
  <2>2. left' \in 0..MaxPolls + Chunks /\ calls' \in 0..MaxCalls /\ tasks' \in 0..2 /\ errs' \in 0..1
    BY <1>1, <1>2, PrintAssumption DEF CallInv, TypeOK
  <2>3. pc' \in Pcs /\ rc' \in {"none", "ok", "failed", "canceled"}
    BY <1>2, <1>4 DEF Pcs, CloudPcs
  <2>4. path' \in Paths /\ printed' \in Paths /\ files' \subseteq Paths
    BY <1>1, <1>6 DEF CallInv, TypeOK, Paths
  <2>5. ctrl' \in Seq(Codes)
    BY <1>1
  <2>6. cancel' \in BOOLEAN /\ waited' \in BOOLEAN /\ staged' \in BOOLEAN /\ kind' \in Kinds
        /\ faults' \in 0..MaxFaults /\ web' \in Webs
    BY <1>1, <1>3, <2>1 DEF CallInv, TypeOK
  <2> QED
    BY <1>6, <2>2, <2>3, <2>4, <2>5, <2>6 DEF TypeOK, Pcs, CloudPcs, Webs
<1> QED
  BY <1>7, <1>8, <1>9, <1>10 DEF Rest

\* The types after a step that leaves the job's parameters alone.
LEMMA TypesAfter ==
    ASSUME CallInv, UNCHANGED <<kind, calls>>,
           pc' \in Pcs, rc' \in {"none", "ok", "failed", "canceled"}, errs' \in 0..1,
           cancel' \in BOOLEAN, waited' \in BOOLEAN, staged' \in BOOLEAN,
           path' \in Paths, printed' \in Paths, files' \subseteq Paths,
           todo' \in Seq(Dirs), ctrl' \in Seq(Codes), left' \in 0..MaxPolls + Chunks,
           web' \in Webs, tasks' \in 0..2, faults' \in 0..MaxFaults
    PROVE  TypeOK'
BY DEF CallInv, TypeOK, Webs, Pcs, CloudPcs

\* The types a step finds, as TypesAfter wants them.
LEMMA TypesBefore ==
    ASSUME CallInv
    PROVE  /\ pc \in Pcs /\ rc \in {"none", "ok", "failed", "canceled"} /\ errs \in 0..1
           /\ cancel \in BOOLEAN /\ waited \in BOOLEAN /\ staged \in BOOLEAN
           /\ path \in Paths /\ printed \in Paths /\ files \subseteq Paths
           /\ todo \in Seq(Dirs) /\ ctrl \in Seq(Codes) /\ left \in 0..MaxPolls + Chunks
           /\ web \in Webs /\ tasks \in 0..2 /\ faults \in 0..MaxFaults
           /\ MaxFaults \in Nat /\ MaxPolls \in Nat /\ Chunks \in Nat
BY PrintAssumption, Types DEF CallInv

\* A running call has nothing to show, and is not cancelled in its wait elsewhere.
LEMMA RunningFacts ==
    ASSUME CallInv, pc # "idle"
    PROVE  /\ rc = "none" /\ errs = 0 /\ printed = "none" /\ tasks = 0 /\ path # "none"
           /\ "none" \notin files
           /\ waited => pc = "ensure" /\ cancel
           /\ kind \in {"record", "cloud"} => CloudAllowed
           /\ web # NoProject => CloudAllowed
BY DEF CallInv, RunningIsClean, ArchiveThere, WaitedCancels, CloudNeedsLeave

\* The FTPS client: connect, the probes, PASV and STOR.
LEMMA FtpsStep == CallInv /\ (Connect \/ Probe \/ Pasv \/ Stor) => Rest' /\ TypeOK'
<1> SUFFICES ASSUME CallInv, Connect \/ Probe \/ Pasv \/ Stor PROVE Rest' /\ TypeOK'
  OBVIOUS
<1>r. pc # "idle"
  BY DEF Connect, Probe, Pasv, Stor
<1>k. kind \in {"local", "record", "gcode"} /\ pc \in {"connect", "probe", "pasv", "stor"}
  BY DEF Connect, Probe, Pasv, Stor, CallInv, JobAt
<1>f. ~waited
  BY <1>k, <1>r, RunningFacts
<1> USE <1>r, <1>f, <1>k, RunningFacts, TypesBefore
<1>p. {"idle", "connect", "probe", "pasv", "stor", "write", "done"} \subseteq Pcs
  BY DEF Pcs
<1>1. CASE Connect
  <2>0. ctrl = <<>> /\ UNCHANGED <<path, todo, ctrl, files, staged, printed, web, tasks>>
    BY <1>1 DEF Connect, CallInv, ChannelInStep, ftpVars, printVars, webVars
  <2>1. CASE Fault /\ Return("failed", 1)
    <3>1. Rest' /\ errs' \in 0..1 /\ pc' = "idle" /\ rc' = "failed"
      BY <2>0, <2>1, ReturnsEmpty
    <3>2. TypeOK'
      BY <1>p, <2>0, <2>1, <3>1, TypesAfter DEF Fault, Return, jobVars
    <3> QED
      BY <3>1, <3>2
  <2>2. CASE Goto(IF todo = <<>> THEN "pasv" ELSE "probe") /\ UNCHANGED <<left, faults>>
    <3> DEFINE p == IF todo = <<>> THEN "pasv" ELSE "probe"
    <3>1. p \in {"pasv", "probe"} /\ pc' = p /\ (p = "probe" => todo # <<>>) /\ kind' = kind
      BY <2>2 DEF Goto, jobVars
    <3>2. JobAt' /\ ProjectGrows'
      BY <3>1 DEF JobAt, ProjectGrows, CloudPcs
    <3>3. ChannelInStep'
      BY <2>0, <3>1 DEF ChannelInStep
    <3>4. Goto(p)
      BY <2>2
    <3> HIDE DEF p
    <3>5. Rest'
      BY <1>p, <2>0, <3>1, <3>2, <3>3, <3>4, GoesOn DEF CloudPcs
    <3>6. TypeOK'
      BY <1>p, <2>0, <2>2, <3>1, TypesAfter DEF Goto, jobVars
    <3> QED
      BY <3>5, <3>6
  <2> QED
    BY <1>1, <2>1, <2>2 DEF Connect, FailStage
<1>2. CASE Probe
  <2>0. PICK code \in Codes :
          /\ Command(IF Head(todo) \in conf.roots THEN 250 ELSE 550, code)
          /\ path' = IF code = 250 THEN Head(todo) ELSE path
          /\ todo' = IF code = 250 THEN <<>> ELSE Tail(todo)
    BY <1>2 DEF Probe
  <2>1. ctrl \in Seq({250, 550}) /\ todo # <<>>
    BY <1>2 DEF Probe, CallInv, ChannelInStep
  <2>2. Head(todo) \in Dirs /\ Tail(todo) \in Seq(Dirs)
    BY <2>1, HeadTailProperties
  <2>3. path' \in Paths /\ path' # "none" /\ todo' \in Seq(Dirs)
    <3>1. \A d \in Dirs : d \in Paths /\ d # "none"
      BY DEF Dirs, Paths
    <3>2. <<>> \in Seq(Dirs)
      OBVIOUS
    <3> QED
      BY <2>0, <2>2, <3>1, <3>2
  <2>4. ctrl' \in Seq({250, 550}) /\ ctrl' \in Seq(Codes) /\ faults' \in 0..MaxFaults
    <3>1. PICK a \in {250, 550} : Command(a, code)
      BY <2>0
    <3>2. a \in Codes /\ a # 0
      BY DEF Codes
    <3> QED
      BY <2>1, <3>1, <3>2, CommandFacts
  <2>5. UNCHANGED <<left, files, staged, printed, web, tasks>>
    BY <1>2 DEF Probe, printVars, webVars
  <2> DEFINE p == IF todo' = <<>> THEN "pasv" ELSE "probe"
  <2>6. p \in {"pasv", "probe"} /\ Goto(p) /\ pc' = p /\ (p = "probe" => todo' # <<>>) /\ kind' = kind
    BY <1>2 DEF Probe, Goto, jobVars
  <2> HIDE DEF p
  <2>7. JobAt' /\ ProjectGrows' /\ ChannelInStep'
    BY <2>4, <2>6 DEF JobAt, ProjectGrows, ChannelInStep, CloudPcs
  <2>8. Rest'
    BY <1>p, <2>3, <2>5, <2>6, <2>7, GoesOn DEF CloudPcs
  <2>9. TypeOK'
    BY <1>p, <2>3, <2>4, <2>5, <2>6, TypesAfter DEF Goto, jobVars
  <2> QED
    BY <2>8, <2>9
<1>3. CASE Pasv
  <2>0. PICK code \in Codes :
          /\ Command(227, code)
          /\ \/ code = 227 /\ Goto("stor") /\ UNCHANGED <<left, path, todo, files, printVars, webVars>>
             \/ code # 227 /\ QuitAfter("failed", 1) /\ UNCHANGED files
    BY <1>3 DEF Pasv
  <2>1. /\ ctrl' \in Seq(Codes) /\ faults' \in 0..MaxFaults
        /\ code = 227 => ctrl' = <<>>
    <3>1. ctrl \in Seq({250, 550})
      BY <1>3 DEF Pasv, CallInv, ChannelInStep
    <3>2. 227 \in Codes
      BY DEF Codes
    <3> QED
      BY <2>0, <3>1, <3>2, CommandFacts
  <2>2. CASE code = 227
    <3>1. /\ Goto("stor") /\ UNCHANGED <<left, path, todo, files, staged, printed, web, tasks>>
          /\ pc' = "stor" /\ kind' = kind
      BY <2>0, <2>2 DEF printVars, webVars, Goto, jobVars
    <3>2. JobAt' /\ ProjectGrows' /\ ChannelInStep'
      BY <2>1, <2>2, <3>1 DEF JobAt, ProjectGrows, ChannelInStep, CloudPcs
    <3>3. Rest'
      BY <1>p, <3>1, <3>2, GoesOn DEF CloudPcs
    <3>4. TypeOK'
      BY <1>p, <2>1, <3>1, TypesAfter DEF Goto, jobVars
    <3> QED
      BY <3>3, <3>4
  <2>3. CASE code # 227
    <3>1. Return("failed", 1) /\ UNCHANGED <<path, todo, files, staged, printed, web, tasks>>
      BY <2>0, <2>3 DEF QuitAfter, printVars, webVars
    <3>2. Rest' /\ errs' \in 0..1 /\ pc' = "idle" /\ rc' = "failed"
      BY <3>1, ReturnsEmpty
    <3>3. TypeOK'
      BY <1>p, <2>1, <3>1, <3>2, TypesAfter DEF Return, jobVars
    <3> QED
      BY <3>2, <3>3
  <2> QED
    BY <2>2, <2>3
<1>4. CASE Stor
  <2>0. PICK code \in Codes :
          /\ Command(IF path = "/" \/ path \in conf.roots THEN 150 ELSE 550, code)
          /\ files' = IF path = "/" \/ path \in conf.roots THEN files \ {path} ELSE files
          /\ \/ code = 150 /\ Goto("write") /\ UNCHANGED <<left, path, todo, printVars, webVars>>
             \/ code # 150 /\ QuitAfter("failed", 1)
    BY <1>4 DEF Stor
  <2>1. ctrl' \in Seq(Codes) /\ faults' \in 0..MaxFaults /\ (code # 0 => ctrl' = <<>>)
    <3>1. PICK a \in {150, 550} : Command(a, code)
      BY <2>0
    <3>2. a \in Codes /\ a # 0 /\ ctrl = <<>>
      BY <1>4 DEF Codes, Stor, CallInv, ChannelInStep
    <3> QED
      BY <3>1, <3>2, CommandFacts
  <2>f. files' \subseteq files
    BY <2>0
  <2>2. CASE code = 150
    <3>1. /\ Goto("write") /\ UNCHANGED <<left, path, todo, staged, printed, web, tasks>>
          /\ pc' = "write" /\ kind' = kind
      BY <2>0, <2>2 DEF printVars, webVars, Goto, jobVars
    <3>2. JobAt' /\ ProjectGrows' /\ ChannelInStep'
      BY <2>1, <2>2, <3>1 DEF JobAt, ProjectGrows, ChannelInStep, CloudPcs
    <3>3. Rest'
      BY <1>p, <2>f, <3>1, <3>2, GoesOn DEF CloudPcs
    <3>4. TypeOK'
      BY <1>p, <2>1, <2>f, <3>1, TypesAfter DEF Goto, jobVars
    <3> QED
      BY <3>3, <3>4
  <2>3. CASE code # 150
    <3>1. Return("failed", 1) /\ UNCHANGED <<path, todo, staged, printed, web, tasks>>
      BY <2>0, <2>3 DEF QuitAfter, printVars, webVars
    <3>2. Rest' /\ errs' \in 0..1 /\ pc' = "idle" /\ rc' = "failed"
      BY <2>f, <3>1, ReturnsEmpty
    <3>3. TypeOK'
      BY <1>p, <2>1, <2>f, <3>1, <3>2, TypesAfter DEF Return, jobVars
    <3> QED
      BY <3>2, <3>3
  <2> QED
    BY <2>2, <2>3
<1> QED
  BY <1>1, <1>2, <1>3, <1>4

\* A return that started nothing also keeps the types.
LEMMA ReturnTypes ==
    ASSUME CallInv, pc # "idle", NEW code \in {"ok", "failed", "canceled"}, NEW shown \in 0..1,
           Return(code, shown), printed' \in Paths, tasks' \in 0..2,
           files' \subseteq Paths, path' \in Paths, todo' \in Seq(Dirs), ctrl' \in Seq(Codes),
           web' \in Webs, faults' \in 0..MaxFaults, staged' \in BOOLEAN
    PROVE  TypeOK'
<1>1. pc' \in Pcs /\ rc' \in {"none", "ok", "failed", "canceled"} /\ errs' \in 0..1
  BY RunningFacts DEF Return, Pcs
<1>2. UNCHANGED <<kind, calls, cancel, waited, left>>
  BY DEF Return, jobVars
<1> QED
  BY <1>1, <1>2, TypesBefore, TypesAfter

\* So does a step to another position.
LEMMA GotoTypes ==
    ASSUME CallInv, pc # "idle", NEW p \in Pcs, Goto(p), left' \in 0..MaxPolls + Chunks,
           printed' \in Paths, tasks' \in 0..2,
           files' \subseteq Paths, path' \in Paths, todo' \in Seq(Dirs), ctrl' \in Seq(Codes),
           web' \in Webs, faults' \in 0..MaxFaults, staged' \in BOOLEAN
    PROVE  TypeOK'
<1>1. pc' \in Pcs /\ UNCHANGED <<kind, calls, cancel, waited, rc, errs>>
  BY DEF Goto, jobVars
<1> QED
  BY <1>1, TypesBefore, TypesAfter

\* The upload has ended: what AfterUpload does with an archive that is there.
LEMMA UploadEnds ==
    ASSUME CallInv, pc \in {"done", "brtc"}, AfterUpload,
           UNCHANGED <<todo, staged, printed, web, tasks>>, ctrl' \in Seq(Codes),
           path' \in Paths \ {"none"}, path' \in files', files' \subseteq Paths \ {"none"},
           faults' \in 0..MaxFaults
    PROVE  Rest' /\ TypeOK'
<1>r. pc # "idle" /\ kind \in {"local", "record", "gcode"}
  BY DEF CallInv, JobAt, UseBrtc
<1>f. ~waited
  BY <1>r, RunningFacts
<1> USE <1>r, <1>f, RunningFacts, TypesBefore
<1>p. {"idle", "project", "ensure"} \subseteq Pcs
  BY DEF Pcs, CloudPcs
<1>1. CASE kind = "gcode"
  <2>1. Return("ok", 0)
    BY <1>1 DEF AfterUpload, FinishedCountdown
  <2>2. Rest'
    BY <2>1, ReturnsEmpty
  <2> QED
    BY <2>1, <2>2, ReturnTypes
<1>2. CASE kind = "record"
  <2>1. Goto("project") /\ UNCHANGED left
    BY <1>2 DEF AfterUpload
  <2>2. pc' = "project" /\ kind' = "record"
    BY <1>2, <2>1 DEF Goto, jobVars
  <2>3. JobAt' /\ ProjectGrows' /\ ChannelInStep'
    BY <2>2 DEF JobAt, ProjectGrows, ChannelInStep, CloudPcs
  <2>4. Rest'
    BY <1>p, <2>1, <2>3, GoesOn
  <2> QED
    BY <1>p, <2>1, <2>4, GotoTypes
<1>3. CASE kind = "local"
  <2>1. CASE cancel
    <3>1. Return("canceled", 1)
      BY <1>3, <2>1 DEF AfterUpload
    <3>2. Rest'
      BY <3>1, ReturnsEmpty
    <3> QED
      BY <3>1, <3>2, ReturnTypes
  <2>2. CASE ~cancel
    <3>1. Goto("ensure") /\ UNCHANGED left
      BY <1>3, <2>2 DEF AfterUpload
    <3>2. pc' = "ensure" /\ kind' = "local"
      BY <1>3, <3>1 DEF Goto, jobVars
    <3>3. JobAt' /\ ProjectGrows' /\ ChannelInStep'
      BY <3>2 DEF JobAt, ProjectGrows, ChannelInStep, CloudPcs
    <3>4. Rest'
      BY <1>p, <1>3, <3>1, <3>3, GoesOn DEF CloudPcs
    <3> QED
      BY <1>p, <3>1, <3>4, GotoTypes
  <2> QED
    BY <2>1, <2>2
<1> QED
  BY <1>1, <1>2, <1>3

\* The writes of an upload, its end, and the upload over the tunnel.
LEMMA UploadStep == CallInv /\ (Write \/ StorDone \/ BrtcUpload) => Rest' /\ TypeOK'
<1> SUFFICES ASSUME CallInv, Write \/ StorDone \/ BrtcUpload PROVE Rest' /\ TypeOK'
  OBVIOUS
<1>r. pc # "idle" /\ pc \in {"write", "done", "brtc"}
  BY DEF Write, StorDone, BrtcUpload
<1>f. ~waited
  BY <1>r, RunningFacts
<1> USE <1>r, <1>f, RunningFacts, TypesBefore
<1>p. {"idle", "write", "done"} \subseteq Pcs
  BY DEF Pcs
<1>1. CASE Write
  <2>0. ctrl = <<>> /\ UNCHANGED <<path, todo, staged, printed, web, tasks, ctrl, files>>
    BY <1>1 DEF Write, CallInv, ChannelInStep, QuitAfter, printVars, webVars, ftpVars
  <2>1. CASE left' = left - 1 /\ Goto(IF left = 1 THEN "done" ELSE "write") /\ UNCHANGED faults
    <3> DEFINE p == IF left = 1 THEN "done" ELSE "write"
    <3>1. p \in {"done", "write"} /\ Goto(p) /\ pc' = p /\ kind' = kind
      BY <2>1 DEF Goto, jobVars
    <3> HIDE DEF p
    <3>2. JobAt' /\ ProjectGrows' /\ ChannelInStep'
      BY <1>1, <2>0, <3>1 DEF Write, CallInv, JobAt, ProjectGrows, ChannelInStep, CloudPcs
    <3>3. Rest'
      BY <1>p, <2>0, <3>1, <3>2, GoesOn DEF CloudPcs
    <3>4. left' \in 0..MaxPolls + Chunks
      BY <1>1, <2>1 DEF Write
    <3> QED
      BY <1>p, <2>0, <2>1, <3>1, <3>3, <3>4, GotoTypes
  <2>2. CASE cancel /\ Return("canceled", 1) /\ UNCHANGED faults
    <3>1. Rest'
      BY <2>0, <2>2, ReturnsEmpty
    <3> QED
      BY <2>0, <2>2, <3>1, ReturnTypes
  <2>3. CASE Fault /\ Return("failed", 1)
    <3>1. Rest'
      BY <2>0, <2>3, ReturnsEmpty
    <3>2. faults' \in 0..MaxFaults
      BY <2>3 DEF Fault
    <3> QED
      BY <2>0, <2>3, <3>1, <3>2, ReturnTypes
  <2> QED
    BY <1>1, <2>1, <2>2, <2>3 DEF Write, QuitAfter
<1>2. CASE StorDone
  <2>0. PICK code \in Codes, whole \in BOOLEAN :
          /\ Command(IF whole THEN 226 ELSE 426, code)
          /\ files' = IF whole THEN files \cup {path} ELSE files
          /\ \/ Finished(code) /\ AfterUpload
             \/ ~Finished(code) /\ Return("failed", 1)
    BY <1>2 DEF StorDone
  <2>u. UNCHANGED <<path, todo, staged, printed, web, tasks>>
    BY <1>2 DEF StorDone, printVars, webVars
  <2>1. /\ ctrl' \in Seq(Codes) /\ faults' \in 0..MaxFaults
        /\ code # 0 => code = IF whole THEN 226 ELSE 426
    <3> DEFINE a == IF whole THEN 226 ELSE 426
    <3>1. a \in Codes /\ a # 0 /\ ctrl = <<>> /\ Command(a, code)
      BY <1>2, <2>0 DEF Codes, StorDone, CallInv, ChannelInStep
    <3> QED
      BY <3>1, CommandFacts
  <2>2. files' \subseteq Paths /\ "none" \notin files'
    BY <2>0
  <2>3. CASE Finished(code) /\ AfterUpload
    <3>1. whole /\ path' \in files'
      BY <2>0, <2>1, <2>3, <2>u DEF Finished
    <3> QED
      BY <1>2, <2>1, <2>2, <2>3, <2>u, <3>1, UploadEnds DEF StorDone
  <2>4. CASE Return("failed", 1)
    <3>1. Rest'
      BY <2>2, <2>4, <2>u, ReturnsEmpty
    <3> QED
      BY <2>1, <2>2, <2>4, <2>u, <3>1, ReturnTypes
  <2> QED
    BY <2>0, <2>3, <2>4
<1>3. CASE BrtcUpload
  <2>1. CASE /\ AfterUpload /\ files' = files \cup {"emmc"} /\ path' = "emmc"
             /\ UNCHANGED <<todo, ctrl, printVars, webVars, faults>>
    <3>1. "emmc" \in Paths \ {"none"}
      BY DEF Paths, Dirs
    <3> QED
      BY <1>3, <2>1, <3>1, UploadEnds DEF BrtcUpload, printVars, webVars
  <2>2. CASE cancel /\ Return("canceled", 0) /\ UNCHANGED <<ftpVars, printVars, webVars, faults>>
    <3>1. UNCHANGED <<path, todo, ctrl, files, staged, printed, web, tasks>>
      BY <2>2 DEF ftpVars, printVars, webVars
    <3>2. Rest'
      BY <2>2, <3>1, ReturnsEmpty
    <3> QED
      BY <2>2, <3>1, <3>2, ReturnTypes
  <2>3. CASE Fault /\ Return("failed", 0) /\ UNCHANGED <<ftpVars, printVars, webVars>>
    <3>1. UNCHANGED <<path, todo, ctrl, files, staged, printed, web, tasks>>
      BY <2>3 DEF ftpVars, printVars, webVars
    <3>2. UseBrtc(kind) /\ faults' \in 0..MaxFaults
      BY <1>3, <2>3 DEF BrtcUpload, CallInv, JobAt, Fault
    <3>3. Rest'
      BY <2>3, <3>1, <3>2, ReturnsEmpty
    <3> QED
      BY <2>3, <3>1, <3>2, <3>3, ReturnTypes
  <2> QED
    BY <1>3, <2>1, <2>2, <2>3 DEF BrtcUpload
<1> QED
  BY <1>1, <1>2, <1>3

\* Starting the print over MQTT, and from storage.
LEMMA StartPrintStep == CallInv /\ (EnsureLan \/ Publish \/ SendFromStorage) => Rest' /\ TypeOK'
<1> SUFFICES ASSUME CallInv, EnsureLan \/ Publish \/ SendFromStorage PROVE Rest' /\ TypeOK'
  OBVIOUS
<1>r. pc # "idle" /\ pc \in {"ensure", "publish", "send"}
  BY DEF EnsureLan, Publish, SendFromStorage
<1> USE <1>r, RunningFacts, TypesBefore
<1>1. CASE EnsureLan
  <2>0. UNCHANGED <<path, todo, ctrl, files, staged, printed, web, tasks>>
    BY <1>1 DEF EnsureLan, ftpVars, printVars, webVars
  <2>1. \/ cancel /\ Return("canceled", 1)
        \/ ~cancel /\ Return("failed", 1)
        \/ ~cancel /\ Goto("publish") /\ UNCHANGED left
    BY <1>1 DEF EnsureLan, AfterWait
  <2>2. faults' \in 0..MaxFaults
    <3>1. faults' = faults \/ (faults < MaxFaults /\ faults' = faults + 1)
      BY <1>1 DEF EnsureLan, Fault
    <3> QED
      BY <3>1
  <2>3. CASE cancel /\ Return("canceled", 1)
    <3>1. Rest'
      BY <2>0, <2>3, ReturnsEmpty
    <3> QED
      BY <2>0, <2>2, <2>3, <3>1, ReturnTypes
  <2>4. CASE ~cancel /\ Return("failed", 1)
    <3>1. Rest'
      BY <2>0, <2>4, ReturnsEmpty
    <3> QED
      BY <2>0, <2>2, <2>4, <3>1, ReturnTypes
  <2>5. CASE ~cancel /\ Goto("publish") /\ UNCHANGED left
    <3>1. pc' = "publish" /\ kind' = kind /\ kind = "local" /\ path \in files
      BY <1>1, <2>5 DEF Goto, jobVars, EnsureLan, CallInv, JobAt, ArchiveThere
    <3>2. JobAt' /\ ProjectGrows' /\ ChannelInStep'
      BY <3>1 DEF JobAt, ProjectGrows, ChannelInStep, CloudPcs
    <3>3. "publish" \in Pcs
      BY DEF Pcs
    <3>4. Rest'
      BY <2>0, <2>5, <3>1, <3>2, <3>3, GoesOn DEF CloudPcs
    <3> QED
      BY <2>0, <2>2, <2>5, <3>3, <3>4, GotoTypes
  <2> QED
    BY <2>1, <2>3, <2>4, <2>5
<1>2. CASE Publish
  <2>0. UNCHANGED <<path, todo, ctrl, files, web, tasks>> /\ ~waited
    BY <1>2 DEF Publish, ftpVars, webVars
  <2>1. CASE Return("ok", 0) /\ printed' = path /\ staged' = TRUE /\ UNCHANGED faults
    <3>1. pc' = "idle" /\ rc' = "ok" /\ errs' = 0 /\ UNCHANGED <<conf, kind, cancel, waited>>
      BY <2>1 DEF Return, jobVars
    <3>2. JobAt' /\ RunningIsClean' /\ WaitedCancels' /\ ChannelInStep' /\ ArchiveThere' /\ ProjectGrows'
      BY <2>0, <3>1 DEF JobAt, RunningIsClean, WaitedCancels, ChannelInStep, ArchiveThere, ProjectGrows,
                        CloudPcs
    <3>3. CloudNeedsLeave' /\ CanceledNeverPrints' /\ TaskHasItsFiles' /\ AtMostOneTask' /\ ReportedOnce'
      BY <2>0, <3>1
      DEF CloudNeedsLeave, CanceledNeverPrints, TaskHasItsFiles, AtMostOneTask, ReportedOnce, CloudAllowed, EffectiveMode
    <3>4. TypeOK'
      BY <2>0, <2>1, ReturnTypes
    <3> QED
      BY <3>2, <3>3, <3>4 DEF Rest
  <2>2. CASE Fault /\ Return("failed", 1) /\ staged' = FALSE /\ UNCHANGED printed
    <3>1. Rest'
      BY <2>0, <2>2, ReturnsEmpty
    <3>2. faults' \in 0..MaxFaults
      BY <2>2 DEF Fault
    <3>3. staged' \in BOOLEAN
      BY <2>2
    <3> QED
      BY <2>0, <2>2, <3>1, <3>2, <3>3, ReturnTypes
  <2> QED
    BY <1>2, <2>1, <2>2 DEF Publish, FinishedCountdown, FailStage, StagedAfter
<1>3. CASE SendFromStorage
  <2>0. UNCHANGED <<path, todo, ctrl, files, staged, printed, web, tasks>> /\ ~waited
    BY <1>3 DEF SendFromStorage, ftpVars, printVars, webVars
  <2>1. PICK c \in {"ok", "failed"} : Return(c, IF c = "ok" THEN 0 ELSE 1)
    BY <1>3 DEF SendFromStorage, FinishedCountdown, FailStage
  <2>2. faults' \in 0..MaxFaults
    BY <1>3 DEF SendFromStorage, FinishedCountdown, FailStage, Fault
  <2>3. Rest'
    BY <2>0, <2>1, ReturnsEmpty
  <2> QED
    BY <2>0, <2>1, <2>2, <2>3, ReturnTypes
<1> QED
  BY <1>1, <1>2, <1>3

\* A request to the cloud, or its failure, at a position of the cloud print.
LEMMA CloudStep ==
    ASSUME CallInv, pc \in CloudPcs \ {"task"}, NEW p \in CloudPcs, NEW e \in Webs,
           UNCHANGED <<path, todo, ctrl, files, staged, printed, tasks>>,
           faults' \in 0..MaxFaults,
           p \in {"geturl", "main"} => kind = "cloud",
           p \in {"notify", "poll", "geturl", "main", "patch", "task"} => e.config,
           p \in {"patch", "task"} /\ kind = "cloud" => e.main,
           p = "task" => e.url = IF kind = "record" THEN "ftp" ELSE "s3",
           \/ Goto(p) /\ web' = e /\ left' \in 0..MaxPolls + Chunks
           \/ Return("failed", 1) /\ web' \in {web, e}
           \/ Return("canceled", 0) /\ web' \in {web, e}
    PROVE  Rest' /\ TypeOK'
<1>r. pc # "idle" /\ kind \in {"record", "cloud"} /\ ~waited /\ CloudAllowed
  <2>1. pc # "idle" /\ pc # "ensure" /\ kind \in {"record", "cloud"}
    BY DEF CloudPcs, CallInv, JobAt
  <2> QED
    BY <2>1, RunningFacts
<1> USE <1>r, RunningFacts, TypesBefore
<1>1. CASE Goto(p) /\ web' = e /\ left' \in 0..MaxPolls + Chunks
  <2>0. pc' = p /\ kind' = kind /\ p \in Pcs \ {"idle"}
    BY <1>1 DEF Goto, jobVars, Pcs, CloudPcs
  <2>1. p \notin {"connect", "probe", "pasv", "stor", "write", "done", "brtc", "ensure", "publish"}
    BY DEF CloudPcs
  <2>2. JobAt'
    BY <2>0, <2>1 DEF JobAt
  <2>3. ChannelInStep'
    BY <2>0, <2>1 DEF ChannelInStep
  <2>4. ProjectGrows'
    BY <1>1, <2>0 DEF ProjectGrows
  <2>5. kind = "record" => path' \in files'
    BY DEF CallInv, ArchiveThere
  <2>6. Rest'
    BY <1>1, <2>0, <2>1, <2>2, <2>3, <2>4, <2>5, GoesOn
  <2> QED
    BY <1>1, <2>0, <2>6, GotoTypes
<1>2. CASE Return("failed", 1) /\ web' \in {web, e}
  <2>1. Rest'
    BY <1>2, ReturnsEmpty
  <2> QED
    BY <1>2, <2>1, ReturnTypes
<1>3. CASE Return("canceled", 0) /\ web' \in {web, e}
  <2>1. Rest'
    BY <1>3, ReturnsEmpty
  <2> QED
    BY <1>3, <2>1, ReturnTypes
<1> QED
  BY <1>1, <1>2, <1>3

\* The requests of a cloud print, up to the task.
LEMMA ProjectStep ==
    CallInv /\ (CreateProject \/ PutConfig \/ NotifyUpload \/ PollUpload \/ GetUploadUrl \/ PutMain
                \/ PatchProject)
        => Rest' /\ TypeOK'
<1> SUFFICES ASSUME CallInv,
                    \/ CreateProject \/ PutConfig \/ NotifyUpload \/ PollUpload \/ GetUploadUrl
                    \/ PutMain \/ PatchProject
             PROVE  Rest' /\ TypeOK'
  OBVIOUS
<1> USE TypesBefore
<1>f. Fault => faults' \in 0..MaxFaults
  BY DEF Fault
<1>g. UNCHANGED faults => faults' \in 0..MaxFaults
  OBVIOUS
<1>p. pc \in CloudPcs => kind \in {"record", "cloud"}
  BY DEF CallInv, JobAt
<1>q. \A p \in {"project", "config", "notify", "poll", "geturl", "main", "patch", "task"} : p \in CloudPcs
  BY DEF CloudPcs
<1>r. ASSUME NEW at \in CloudPcs \ {"task"}, NEW next \in CloudPcs, NEW e \in Webs, Request(at, next, e)
      PROVE  /\ pc = at /\ UNCHANGED <<path, todo, ctrl, files, staged, printed, tasks>>
             /\ faults' \in 0..MaxFaults
             /\ \/ Goto(next) /\ web' = e /\ left' \in 0..MaxPolls + Chunks
                \/ Return("failed", 1) /\ web' \in {web, e}
  <2>1. pc = at /\ UNCHANGED <<path, todo, ctrl, files, staged, printed, tasks>>
    BY <1>r DEF Request, ftpVars, printVars
  <2>2. CASE Goto(next) /\ web' = e /\ UNCHANGED <<left, faults>>
    BY <1>g, <2>1, <2>2
  <2>3. CASE Fault /\ Return("failed", 1) /\ web' \in {web, e}
    BY <1>f, <2>1, <2>3
  <2> QED
    BY <1>r, <2>2, <2>3 DEF Request, FailStage
<1>s. ASSUME NEW at \in CloudPcs \ {"task"}, NEW next \in CloudPcs, NEW e \in Webs, S3Put(at, next, e)
      PROVE  /\ pc = at /\ UNCHANGED <<path, todo, ctrl, files, staged, printed, tasks>>
             /\ faults' \in 0..MaxFaults
             /\ \/ Goto(next) /\ web' = e /\ left' \in 0..MaxPolls + Chunks
                \/ Return("failed", 1) /\ web' \in {web, e}
                \/ Return("canceled", 0) /\ web' \in {web, e}
  <2>1. CASE Request(at, next, e)
    BY <1>r, <2>1
  <2>2. CASE /\ pc = at /\ cancel /\ Return("canceled", 0) /\ web' \in {web, e}
             /\ UNCHANGED <<ftpVars, printVars, tasks, faults>>
    BY <1>g, <2>2 DEF ftpVars, printVars
  <2> QED
    BY <1>s, <2>1, <2>2 DEF S3Put
<1>1. CASE CreateProject
  <2> DEFINE e == [web EXCEPT !.proj = TRUE]
  <2>1. e \in Webs
    BY WebUpdates
  <2>2. Request("project", "config", e)
    BY <1>1 DEF CreateProject
  <2> HIDE DEF e
  <2> QED
    BY <1>q, <1>r, <2>1, <2>2, CloudStep
<1>2. CASE PutConfig
  <2> DEFINE e == [web EXCEPT !.config = TRUE]
  <2>1. e \in Webs /\ e.config
    BY WebUpdates
  <2>2. S3Put("config", "notify", e)
    BY <1>2 DEF PutConfig
  <2> HIDE DEF e
  <2>3. /\ pc = "config" /\ UNCHANGED <<path, todo, ctrl, files, staged, printed, tasks>>
        /\ faults' \in 0..MaxFaults
        /\ \/ Goto("notify") /\ web' = e /\ left' \in 0..MaxPolls + Chunks
           \/ Return("failed", 1) /\ web' \in {web, e}
           \/ Return("canceled", 0) /\ web' \in {web, e}
    BY <1>q, <1>s, <2>1, <2>2
  <2> QED
    BY <1>q, <2>1, <2>3, CloudStep
<1>3. CASE NotifyUpload
  <2>0. pc = "notify" /\ UNCHANGED <<path, todo, ctrl, files, staged, printed, web, tasks>>
    BY <1>3 DEF NotifyUpload, ftpVars, printVars, webVars
  <2>1. web.config
    BY <2>0 DEF CallInv, ProjectGrows
  <2>2. CASE Goto("poll") /\ left' = MaxPolls /\ UNCHANGED faults
    <3>1. left' \in 0..MaxPolls + Chunks
      BY <2>2
    <3> QED
      BY <1>g, <1>q, <2>0, <2>1, <2>2, <3>1, CloudStep
  <2>3. CASE Fault /\ Return("failed", 1)
    BY <1>f, <1>q, <2>0, <2>1, <2>3, CloudStep
  <2> QED
    BY <1>3, <2>2, <2>3 DEF NotifyUpload, FailStage
<1>4. CASE PollUpload
  <2>0. pc = "poll" /\ UNCHANGED <<path, todo, ctrl, files, staged, printed, web, tasks>>
    BY <1>4 DEF PollUpload, ftpVars, printVars, webVars
  <2>1. web.config /\ kind \in {"record", "cloud"}
    BY <1>p, <1>q, <2>0 DEF CallInv, ProjectGrows
  <2>2. CASE left > 0 /\ left' = left - 1 /\ Goto("poll") /\ UNCHANGED faults
    <3>1. left' \in 0..MaxPolls + Chunks
      BY <2>2
    <3> QED
      BY <1>g, <1>q, <2>0, <2>1, <2>2, <3>1, CloudStep
  <2>3. CASE Goto(AfterPoll) /\ UNCHANGED <<left, faults>>
    <3> DEFINE p == AfterPoll
    <3>0. (p = "geturl" /\ kind = "cloud") \/ (p = "patch" /\ kind = "record")
      BY <2>1 DEF AfterPoll
    <3>1. p \in CloudPcs /\ ((p = "geturl" /\ kind = "cloud") \/ (p = "patch" /\ kind = "record"))
      BY <1>q, <3>0
    <3> HIDE DEF p
    <3> QED
      BY <1>g, <1>q, <2>0, <2>1, <2>3, <3>1, CloudStep DEF p
  <2>4. CASE Return("failed", 1) /\ (UNCHANGED faults \/ Fault)
    BY <1>f, <1>g, <1>q, <2>0, <2>1, <2>4, CloudStep
  <2>5. CASE Return("canceled", 0) /\ UNCHANGED faults
    BY <1>g, <1>q, <2>0, <2>1, <2>5, CloudStep
  <2> QED
    BY <1>4, <2>2, <2>3, <2>4, <2>5 DEF PollUpload, FailStage, AttemptsLeft
<1>5. CASE GetUploadUrl
  <2>1. Request("geturl", "main", web) /\ pc = "geturl"
    BY <1>5 DEF GetUploadUrl, Request
  <2>2. web.config /\ kind = "cloud"
    BY <2>1 DEF CallInv, ProjectGrows, JobAt
  <2> QED
    BY <1>q, <1>r, <2>1, <2>2, CloudStep
<1>6. CASE PutMain
  <2> DEFINE e == [web EXCEPT !.main = TRUE]
  <2>1. S3Put("main", "patch", e) /\ pc = "main"
    BY <1>6 DEF PutMain, S3Put, Request
  <2>a. web.config /\ kind = "cloud"
    BY <2>1 DEF CallInv, ProjectGrows, JobAt
  <2>2. e \in Webs /\ e.main /\ e.config /\ kind = "cloud"
    BY <2>a, WebUpdates
  <2> HIDE DEF e
  <2> QED
    BY <1>q, <1>s, <2>1, <2>2, CloudStep
<1>7. CASE PatchProject
  <2> DEFINE u == IF kind = "record" THEN "ftp" ELSE "s3"
             e == [web EXCEPT !.url = u]
  <2>1. Request("patch", "task", e) /\ pc = "patch"
    BY <1>7 DEF PatchProject, Request
  <2>2. web.config /\ (kind = "cloud" => web.main) /\ u \in {"ftp", "s3"}
    BY <2>1 DEF CallInv, ProjectGrows
  <2>3. e \in Webs /\ e.config = web.config /\ e.main = web.main /\ e.url = u
    <3>1. \A v \in {"ftp", "s3"} :
             /\ [web EXCEPT !.url = v] \in Webs /\ [web EXCEPT !.url = v].url = v
             /\ [web EXCEPT !.url = v].config = web.config /\ [web EXCEPT !.url = v].main = web.main
      BY WebUpdates
    <3> HIDE DEF u
    <3> QED
      BY <2>2, <3>1
  <2> HIDE DEF e
  <2> QED
    BY <1>q, <1>r, <2>1, <2>2, <2>3, CloudStep
<1> QED
  BY <1>1, <1>2, <1>3, <1>4, <1>5, <1>6, <1>7

\* POST /my/task, once more with the PoP headers: one task at most, for a project that is
\* whole.
LEMMA TaskStep == CallInv /\ CreateTask => Rest' /\ TypeOK'
<1> SUFFICES ASSUME CallInv, CreateTask PROVE Rest' /\ TypeOK'
  OBVIOUS
<1>0. pc = "task" /\ UNCHANGED <<path, todo, ctrl, files, staged, printed, web>>
  BY DEF CreateTask, ftpVars, printVars
<1> USE TypesBefore
<1>1. /\ kind \in {"record", "cloud"} /\ web.config /\ (kind = "cloud" => web.main)
      /\ web.url = (IF kind = "record" THEN "ftp" ELSE "s3") /\ (kind = "record" => path \in files)
      /\ ~waited /\ CloudAllowed /\ errs = 0 /\ printed = "none" /\ "none" \notin files
  <2>1. kind \in {"record", "cloud"} /\ "task" \in CloudPcs
    BY <1>0 DEF CallInv, JobAt, CloudPcs
  <2> QED
    BY <1>0, <2>1, RunningFacts DEF CallInv, ProjectGrows, ArchiveThere
<1>2. PICK ok \in BOOLEAN, made \in 0..1 :
        /\ tasks' = made /\ (ok => made = 1)
        /\ Return(IF ok THEN "ok" ELSE "failed", IF ok THEN 0 ELSE 1)
        /\ faults' \in 0..MaxFaults
  <2>1. PICK first \in {200, 403, 0}, second \in {200, 403, 0} :
        \E made1 \in BOOLEAN, made2 \in BOOLEAN :
         LET retry == ShouldRetry(first, conf.pop)
             last  == IF retry THEN second ELSE first
         IN /\ first = 200 => made1
            /\ first = 403 => ~made1
            /\ second = 200 => (made2 = retry)
            /\ second = 403 => ~made2
            /\ made2 => retry
            /\ tasks' = (IF made1 THEN 1 ELSE 0) + (IF made2 THEN 1 ELSE 0)
            /\ faults' = IF first = 200 THEN faults ELSE faults + 1
            /\ faults' <= MaxFaults
            /\ Return(IF last = 200 THEN "ok" ELSE TaskFailure,
                      IF last = 200 THEN 0 ELSE 1)
    BY DEF CreateTask
  <2> DEFINE retry == ShouldRetry(first, conf.pop)
             last  == IF retry THEN second ELSE first
  <2>2. PICK made1 \in BOOLEAN, made2 \in BOOLEAN :
            /\ first = 200 => made1
            /\ first = 403 => ~made1
            /\ second = 200 => (made2 = retry)
            /\ made2 => retry
            /\ tasks' = (IF made1 THEN 1 ELSE 0) + (IF made2 THEN 1 ELSE 0)
            /\ faults' = IF first = 200 THEN faults ELSE faults + 1
            /\ faults' <= MaxFaults
            /\ Return(IF last = 200 THEN "ok" ELSE TaskFailure,
                      IF last = 200 THEN 0 ELSE 1)
    BY <2>1
  <2>3. retry \in BOOLEAN /\ (retry => first = 403)
    BY DEF ShouldRetry
  <2> HIDE DEF retry
  <2>4. tasks' \in 0..1 /\ (last = 200 => tasks' = 1)
    <3>1. made2 => ~made1
      BY <2>2, <2>3
    <3>2. last = 200 => made1 \/ made2
      <4>1. CASE retry
        BY <2>2, <4>1
      <4>2. CASE ~retry
        BY <2>2, <4>2
      <4> QED
        BY <2>3, <4>1, <4>2
    <3> QED
      BY <2>2, <3>1, <3>2
  <2>5. faults' \in 0..MaxFaults
    BY <2>2
  <2>6. CASE last = 200
    <3>1. Return("ok", 0)
      BY <2>2, <2>6
    <3> QED
      BY <2>4, <2>5, <2>6, <3>1
  <2>7. CASE last # 200
    <3>1. Return("failed", 1)
      BY <2>2, <2>7 DEF TaskFailure
    <3> QED
      BY <2>4, <2>5, <2>7, <3>1
  <2> QED
    BY <2>6, <2>7
<1> DEFINE c == IF ok THEN "ok" ELSE "failed"
           n == IF ok THEN 0 ELSE 1
<1>3. /\ pc' = "idle" /\ rc' = c /\ errs' = n /\ UNCHANGED <<conf, kind, cancel, waited>>
  BY <1>1, <1>2 DEF Return, jobVars
<1>4. JobAt' /\ RunningIsClean' /\ WaitedCancels' /\ ChannelInStep' /\ ArchiveThere' /\ ProjectGrows'
  BY <1>0, <1>1, <1>3
  DEF JobAt, RunningIsClean, WaitedCancels, ChannelInStep, ArchiveThere, ProjectGrows, CloudPcs
<1>5. CloudNeedsLeave'
  BY <1>1, <1>3 DEF CloudNeedsLeave, CloudAllowed, EffectiveMode
<1>6. CanceledNeverPrints' /\ TaskHasItsFiles' /\ AtMostOneTask'
  BY <1>0, <1>1, <1>2, <1>3 DEF CanceledNeverPrints, TaskHasItsFiles, AtMostOneTask
<1>7. ReportedOnce'
  BY <1>3 DEF ReportedOnce
<1>8. TypeOK'
  <2>1. CASE ok
    BY <1>0, <1>2, <2>1, ReturnTypes
  <2>2. CASE ~ok
    BY <1>0, <1>2, <2>2, ReturnTypes
  <2> QED
    BY <2>1, <2>2
<1> QED
  BY <1>4, <1>5, <1>6, <1>7, <1>8 DEF Rest

\* cancel_fn turns true at any moment.
LEMMA CancelStep == CallInv /\ UserCancels => Rest' /\ TypeOK'
<1> SUFFICES ASSUME CallInv, UserCancels PROVE Rest' /\ TypeOK'
  OBVIOUS
<1>1. /\ pc # "idle" /\ cancel' = TRUE /\ waited' = (waited \/ pc = "ensure")
      /\ UNCHANGED <<conf, pc, kind, rc, errs, left, path, todo, ctrl, files, staged, printed, web, tasks,
                     calls, faults>>
  BY DEF UserCancels, ftpVars, printVars, webVars
<1>2. waited' \in BOOLEAN /\ cancel' \in BOOLEAN /\ (waited' => pc = "ensure") /\ cancel'
  <2>1. waited \in BOOLEAN /\ (waited => pc = "ensure")
    BY <1>1, RunningFacts, TypesBefore
  <2> QED
    BY <1>1, <2>1
<1>3. TypeOK'
  BY <1>1, <1>2, TypesBefore, TypesAfter
<1>4. WaitedCancels'
  BY <1>1, <1>2, RunningFacts DEF WaitedCancels
<1>5. JobAt' /\ RunningIsClean' /\ CloudNeedsLeave' /\ ChannelInStep' /\ ArchiveThere' /\ ProjectGrows'
  BY <1>1 DEF CallInv, JobAt, RunningIsClean, CloudNeedsLeave, ChannelInStep, ArchiveThere, ProjectGrows,
              UseBrtc, CloudAllowed, EffectiveMode
<1>6. CanceledNeverPrints' /\ TaskHasItsFiles' /\ AtMostOneTask' /\ ReportedOnce'
  BY <1>1 DEF CallInv, CanceledNeverPrints, TaskHasItsFiles, AtMostOneTask, ReportedOnce, UseBrtc
<1> QED
  BY <1>3, <1>4, <1>5, <1>6 DEF Rest

\* The configuration is fixed.
LEMMA ConfStays == Next => conf' = conf
<1> USE DEF Goto, Return, jobVars, QuitAfter, FailStage
<1>1. ASSUME \/ (\E entry \in Entries : Start(entry)) \/ UserCancels \/ Done \/ Connect \/ Probe \/ Pasv
      PROVE  conf' = conf
  BY <1>1 DEF Start, UserCancels, Done, vars, Connect, Probe, Pasv
<1>2. ASSUME Stor \/ Write PROVE conf' = conf
  BY <1>2 DEF Stor, Write
<1>3. ASSUME AfterUpload \/ (\E up \in BOOLEAN : AfterWait(up)) PROVE conf' = conf
  BY <1>3 DEF AfterUpload, AfterWait, FinishedCountdown
<1>4. ASSUME StorDone \/ BrtcUpload \/ EnsureLan PROVE conf' = conf
  BY <1>3, <1>4 DEF StorDone, BrtcUpload, EnsureLan
<1>5. ASSUME Publish \/ SendFromStorage \/ NotifyUpload \/ PollUpload PROVE conf' = conf
  BY <1>5 DEF Publish, SendFromStorage, NotifyUpload, PollUpload, FinishedCountdown
<1>6. ASSUME CreateProject \/ PutConfig \/ GetUploadUrl \/ PutMain \/ PatchProject PROVE conf' = conf
  BY <1>6 DEF CreateProject, PutConfig, GetUploadUrl, PutMain, PatchProject, Request, S3Put
<1>7. ASSUME CreateTask PROVE conf' = conf
  BY <1>7 DEF CreateTask
<1> QED
  BY <1>1, <1>2, <1>4, <1>5, <1>6, <1>7 DEF Next, Step

\* The invariant of the running call is inductive.
LEMMA CallInvAlways == Spec => []CallInv
<1>1. CallInv /\ [Next]_vars => CallInv'
  <2> SUFFICES ASSUME CallInv, [Next]_vars PROVE CallInv'
    OBVIOUS
  <2>1. CASE Next /\ ~UNCHANGED vars
    <3>1. Rest' /\ TypeOK'
      BY <2>1, StartStep, FtpsStep, UploadStep, StartPrintStep, ProjectStep, TaskStep, CancelStep
      DEF Next, Step, Done
    <3>2. conf' = conf
      BY <2>1, ConfStays
    <3> QED
      BY <3>1, <3>2 DEF CallInv, Rest
  <2>2. CASE UNCHANGED vars
    BY <2>2 DEF vars, CallInv, TypeOK, JobAt, RunningIsClean, WaitedCancels, CloudNeedsLeave, ChannelInStep,
       ArchiveThere, ProjectGrows, CanceledNeverPrints,
     TaskHasItsFiles, AtMostOneTask, ReportedOnce, UseBrtc, CloudAllowed,
       EffectiveMode
  <2> QED
    BY <2>1, <2>2
<1> QED
  BY <1>1, CallInvInit, PTL DEF Spec

\* What a print call may start, for every configuration, every run of cancels and failures
\* and every late reply: nothing after a cancel, one task at most and with its files, nothing
\* in the cloud that the user kept local, and one ERROR if it failed (print_job.cpp,
\* cloud_print.cpp, ftps.cpp).
THEOREM CallsHold == Spec => []CallSound
<1>1. CallInv => CallSound
  <2> SUFFICES ASSUME CallInv PROVE CallSound
    OBVIOUS
  <2>1. TypeOK /\ CanceledNeverPrints /\ TaskHasItsFiles /\ AtMostOneTask /\ ReportedOnce
    BY DEF CallInv
  <2>2. LanOnlyStaysLocal
    BY <2>1 DEF CallInv, CloudNeedsLeave, CloudAllowed, LanOnlyStaysLocal, TypeOK
  <2>3. CancelWinsOverWait
    BY DEF CallInv, WaitedCancels, RunningIsClean, CancelWinsOverWait
  <2>4. CanceledNeverPrints
    BY DEF CallInv, CanceledNeverPrints
  <2> QED
    BY <2>1, <2>2, <2>3, <2>4 DEF CallSound
<1> QED
  BY <1>1, CallInvAlways, PTL

\* Only run_local_print_job's publish names a file or stages a cover.
LEMMA OnlyPublish == [Next]_vars => Publish \/ (printed' \in {printed, "none"} /\ staged' = staged)
<1> DEFINE same == printed' \in {printed, "none"} /\ staged' = staged
<1>1. ASSUME \/ (\E entry \in Entries : Start(entry)) \/ UserCancels \/ Done \/ Connect \/ Probe \/ Pasv
             \/ UNCHANGED vars
      PROVE  same
  BY <1>1 DEF Start, UserCancels, Done, vars, Connect, Probe, Pasv, QuitAfter, printVars
<1>2. ASSUME Stor \/ Write \/ StorDone \/ BrtcUpload \/ EnsureLan PROVE same
  BY <1>2 DEF Stor, Write, StorDone, BrtcUpload, EnsureLan, QuitAfter, printVars
<1>3. ASSUME SendFromStorage \/ NotifyUpload \/ PollUpload PROVE same
  BY <1>3 DEF SendFromStorage, NotifyUpload, PollUpload, printVars
<1>4. ASSUME CreateProject \/ PutConfig \/ GetUploadUrl \/ PutMain \/ PatchProject \/ CreateTask
      PROVE  same
  BY <1>4 DEF CreateProject, PutConfig, GetUploadUrl, PutMain, PatchProject, CreateTask, Request, S3Put,
              printVars
<1> QED
  BY <1>1, <1>2, <1>3, <1>4 DEF Next, Step

\* A project_file command names a file that the printer holds in full, whichever directory
\* late replies made the storage probe choose, and a cover is staged only with such a command.
THEOREM PrintedHolds == Spec => PrintedFileIsThere /\ NoStrayCover
<1> DEFINE There == printed' # printed /\ printed' # "none" => printed' \in files'
           Cover == staged' /\ ~staged => printed' # "none"
<1>1. CallInv /\ [Next]_vars => [There]_vars /\ [Cover]_vars
  <2> SUFFICES ASSUME CallInv, [Next]_vars PROVE There /\ Cover
    OBVIOUS
  <2>1. CASE Publish
    <3>1. path \in files /\ path # "none" /\ printed = "none" /\ files' = files
      BY <2>1, RunningFacts DEF Publish, CallInv, ArchiveThere, ftpVars
    <3>2. \/ printed' = path
          \/ printed' = printed /\ ~staged'
      BY <2>1 DEF Publish, StagedAfter
    <3> QED
      BY <3>1, <3>2
  <2>2. CASE printed' \in {printed, "none"} /\ staged' = staged
    BY <2>2
  <2> QED
    BY <2>1, <2>2, OnlyPublish
<1> QED
  BY <1>1, CallInvAlways, PTL DEF Spec, PrintedFileIsThere, NoStrayCover
===============================================================================
