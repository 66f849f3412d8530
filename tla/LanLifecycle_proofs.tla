---------------------- MODULE LanLifecycle_proofs ----------------------
(***************************************************************************)
(* Proofs about LanLifecycle, for any number of devices, workers and       *)
(* sessions: type correctness and the ownership of LanSession objects.     *)
(***************************************************************************)
EXTENDS LanLifecycle, TLAPS

\* A thread's local shared_ptr is set exactly while the thread is between
\* taking (or creating) a session and disconnecting (or installing) it.
HoldPc == \A t \in Threads : mine[t] # NoSession <=> pc[t] \in Holding

\* A held session has its loop thread; one about to be installed has not been
\* told to stop; a freed object is clean.
HeldIsLive == \A t \in Threads : mine[t] # NoSession =>
    /\ link[mine[t]] # "free"
    /\ pc[t] = "install" => link[mine[t]] \in {"trying", "up"} /\ quit[mine[t]] = "no"

FreeIsClean == \A s \in Sessions : link[s] = "free" => quit[s] = "no"

\* schedule_deferred_disconnect assigns deferred_dc_thread_ only when no timer
\* thread is left to join.
TimerFreeToArm == pc[Studio] = "arm" => pc[Timer] = "none"

OwnershipInv ==
    /\ TypeOK
    /\ NoLeak /\ SingleOwner /\ InstalledIsLive
    /\ HoldPc /\ HeldIsLive /\ FreeIsClean
    /\ TimerFreeToArm

\* A device and a credential make a connect request.
LEMMA PairIsTarget == \A d \in Devs, c \in Creds : <<d, c>> \in Targets
  BY DEF Targets

\* The initial state of the Agent satisfies the inductive invariant.
LEMMA InitOwnership == Init => OwnershipInv
<1> SUFFICES ASSUME Init PROVE OwnershipInv
  OBVIOUS
<1> USE ConstantAssumption DEF Init
<1>1. AnyTarget \in Targets
  BY DEF AnyTarget
<1>2. TypeOK
  BY <1>1 DEF TypeOK, Threads, Callers, LinkStates, CbStates, QuitModes, Pcs, Ops
<1>3. NoLeak /\ SingleOwner /\ InstalledIsLive
  BY DEF NoLeak, SingleOwner, InstalledIsLive
<1>4. HoldPc /\ HeldIsLive /\ FreeIsClean /\ TimerFreeToArm
  BY DEF HoldPc, HeldIsLive, FreeIsClean, TimerFreeToArm, Holding, Threads, Callers
<1> QED BY <1>2, <1>3, <1>4 DEF OwnershipInv

\* Every step of every thread preserves types.
LEMMA TypeStep == TypeOK /\ HoldPc /\ Next => TypeOK'
<1> SUFFICES ASSUME TypeOK, HoldPc, Next PROVE TypeOK'
  OBVIOUS
<1> USE ConstantAssumption DEF TypeOK, Threads, Callers, LinkStates, CbStates,
      QuitModes, Pcs, Ops, sessVars, thrVars, auxVars, Goto
<1>0. AnyTarget \in Targets
  BY DEF AnyTarget
<1>1. ASSUME NEW tg \in Targets, BeginConnect(tg) PROVE TypeOK'
  BY <1>1 DEF BeginConnect
<1>2. CASE BeginDisconnect \/ BeginDestroy
  BY <1>2 DEF BeginDisconnect, BeginDestroy
<1>3. ASSUME NEW d \in Devs, SelectMachine(d) PROVE TypeOK'
  BY <1>3 DEF SelectMachine
<1>4. ASSUME NEW d \in AutoDevs, NEW c \in Creds, Autostart(d, c) PROVE TypeOK'
  <2>0. d \in Devs
    BY <1>4
  <2>1. <<d, c>> \in Targets
    BY <2>0, PairIsTarget
  <2> QED BY <1>4, <2>1 DEF Autostart
<1>5. CASE StudioStep
  <2>1. CASE CheckDeferred
    BY <2>1 DEF CheckDeferred
  <2>2. CASE ArmDeferred
    BY <2>2 DEF ArmDeferred
  <2>3. CASE ArmFails
    BY <2>3 DEF ArmFails
  <2>4. CASE EndDestroy
    BY <2>4 DEF EndDestroy
  <2> QED BY <1>5, <2>1, <2>2, <2>3, <2>4 DEF StudioStep
<1>6. CASE TimerStep
  <2>1. CASE TimerCancelled
    BY <2>1 DEF TimerCancelled
  <2>2. CASE TimerExpires
    BY <2>2 DEF TimerExpires
  <2> QED BY <1>6, <2>1, <2>2 DEF TimerStep
<1>7. ASSUME NEW t \in Callers, CallerStep(t) PROVE TypeOK'
  <2>1. CASE CancelDeferred(t)
    BY <2>1 DEF CancelDeferred, AfterCancel
  <2>2. CASE JoinDeferred(t)
    BY <2>2 DEF JoinDeferred, AfterCancel
  <2>3. CASE TryReuse(t)
    BY <2>3 DEF TryReuse
  <2>4. CASE NotifyReuse(t)
    BY <2>4 DEF NotifyReuse, AfterConnect
  <2>5. CASE StartFails(t)
    BY <2>5 DEF StartFails
  <2>6. CASE InstallSession(t)
    BY <2>6 DEF InstallSession, AfterConnect
  <2>7. ASSUME NEW s \in Sessions, StartSession(t, s) PROVE TypeOK'
    BY <2>7 DEF StartSession, ClientConnect
  <2> QED BY <1>7, <2>1, <2>2, <2>3, <2>4, <2>5, <2>6, <2>7 DEF CallerStep
<1>8. ASSUME NEW t \in Threads, StopStep(t) PROVE TypeOK'
  <2>0. pc[t] \in Holding => mine[t] \in Sessions
    BY DEF HoldPc
  <2>1. CASE TakeSession(t)
    BY <2>1 DEF TakeSession, AfterStop, AfterConnect
  <2>2. CASE StopRead(t)
    BY <2>0, <2>2 DEF StopRead, Holding
  <2>3. CASE StopRequest(t)
    BY <2>3 DEF StopRequest
  <2>4. CASE StopJoin(t)
    BY <1>0, <2>0, <2>4 DEF StopJoin, Holding, AfterStop, AfterConnect
  <2> QED BY <1>8, <2>1, <2>2, <2>3, <2>4 DEF StopStep
<1>9. ASSUME NEW d \in AutoDevs, WorkerStep(d) PROVE TypeOK'
  BY <1>9 DEF WorkerStep, EnsureFast, EnsurePoll
<1>10. ASSUME NEW s \in Sessions, Network(s) PROVE TypeOK'
  <2>1. tgt[s][1] \in Devs
    BY DEF Targets
  <2>2. CASE Connack(s)
    BY <2>2 DEF Connack
  <2>3. CASE Refused(s)
    BY <2>3 DEF Refused
  <2>4. CASE LinkLost(s)
    BY <2>4 DEF LinkLost
  <2>5. CASE CertAck(s)
    BY <2>1, <2>5 DEF CertAck, DevOf
  <2> QED BY <1>10, <2>2, <2>3, <2>4, <2>5 DEF Network
<1>11. ASSUME NEW s \in Sessions, LoopStep(s) PROVE TypeOK'
  BY <1>11 DEF LoopStep, GracefulBye, LoopExit, CallbackDisarm, CallbackReturn
<1>12. CASE Terminated
  BY <1>12 DEF Terminated, vars
<1> HIDE ConstantAssumption DEF TypeOK, Threads, Callers
<1> QED
  BY <1>1, <1>2, <1>3, <1>4, <1>5, <1>6, <1>7, <1>8, <1>9, <1>10, <1>11, <1>12
     DEF Next, Request, Hook

Ownership == NoLeak /\ SingleOwner /\ InstalledIsLive /\ HoldPc /\ HeldIsLive /\ FreeIsClean

\* Steps that move no session between shared_ptrs and stop no loop thread.
LEMMA QuietStep ==
  ASSUME TypeOK, Ownership, NEW t \in Threads,
         UNCHANGED <<lan, mine, link, quit>>,
         \A u \in Threads \ {t} : pc'[u] = pc[u] \/ (pc[u] \notin Holding /\ pc'[u] \notin Holding),
         pc'[t] \in Holding <=> pc[t] \in Holding,
         pc'[t] = "install" => pc[t] = "install"
  PROVE  Ownership'
<1> USE DEF Ownership, TypeOK
<1>1. NoLeak' /\ SingleOwner' /\ InstalledIsLive' /\ FreeIsClean'
  BY DEF NoLeak, SingleOwner, InstalledIsLive, FreeIsClean
<1>2. HoldPc'
  BY DEF HoldPc
<1>3. HeldIsLive'
  BY DEF HeldIsLive, HoldPc, Holding
<1> QED BY <1>1, <1>2, <1>3

\* Steps of the loop thread of a session that keep the thread running.
LEMMA LoopKeepsRunning ==
  ASSUME TypeOK, Ownership, NEW s \in Sessions,
         UNCHANGED <<lan, mine, pc, quit>>,
         link[s] # "free",
         link' \in [Sessions -> LinkStates],
         \A r \in Sessions \ {s} : link'[r] = link[r],
         link'[s] \in {"trying", "up"} \/ link'[s] = link[s]
  PROVE  Ownership'
<1> USE DEF Ownership, TypeOK
<1>1. NoLeak' /\ SingleOwner' /\ InstalledIsLive' /\ FreeIsClean'
  BY DEF NoLeak, SingleOwner, InstalledIsLive, FreeIsClean
<1>2. HoldPc'
  BY DEF HoldPc
<1>3. HeldIsLive'
  BY DEF HeldIsLive, HoldPc
<1> QED BY <1>1, <1>2, <1>3

\* No step re-arms a timer whose thread has not been joined.
LEMMA TimerStepFree == TypeOK /\ TimerFreeToArm /\ Next => TimerFreeToArm'
<1> SUFFICES ASSUME TypeOK, TimerFreeToArm, Next, pc'[Studio] = "arm"
    PROVE pc'[Timer] = "none"
  BY DEF TimerFreeToArm
<1> USE ConstantAssumption DEF TypeOK, TimerFreeToArm, Threads, Callers, Goto
<1>1. CASE Request
  BY <1>1 DEF Request, BeginConnect, BeginDisconnect, BeginDestroy, SelectMachine, thrVars
<1>2. CASE Hook
  BY <1>2 DEF Hook, Autostart
<1>3. CASE StudioStep
  BY <1>3 DEF StudioStep, CheckDeferred, ArmDeferred, ArmFails, EndDestroy
<1>4. CASE TimerStep
  BY <1>4 DEF TimerStep, TimerCancelled, TimerExpires
<1>5. ASSUME NEW t \in Callers, CallerStep(t) PROVE pc'[Timer] = "none"
  <2>1. CASE CancelDeferred(t)
    BY <2>1 DEF CancelDeferred
  <2>2. CASE JoinDeferred(t)
    BY <2>2 DEF JoinDeferred
  <2>3. CASE TryReuse(t) \/ NotifyReuse(t) \/ StartFails(t) \/ InstallSession(t)
    BY <2>3 DEF TryReuse, NotifyReuse, StartFails, InstallSession, AfterConnect
  <2>4. ASSUME NEW s \in Sessions, StartSession(t, s) PROVE pc'[Timer] = "none"
    BY <2>4 DEF StartSession, ClientConnect
  <2> QED BY <1>5, <2>1, <2>2, <2>3, <2>4 DEF CallerStep
<1>6. ASSUME NEW t \in Threads, StopStep(t) PROVE pc'[Timer] = "none"
  BY <1>6 DEF StopStep, TakeSession, StopRead, StopRequest, StopJoin, AfterStop,
              AfterConnect
<1>7. ASSUME NEW d \in AutoDevs, WorkerStep(d) PROVE pc'[Timer] = "none"
  BY <1>7 DEF WorkerStep, EnsureFast, EnsurePoll
<1>8. ASSUME NEW s \in Sessions, Network(s) \/ LoopStep(s) PROVE pc'[Timer] = "none"
  BY <1>8 DEF Network, LoopStep, Connack, Refused, LinkLost, CertAck, GracefulBye,
              LoopExit, CallbackDisarm, CallbackReturn, thrVars
<1>9. CASE Terminated
  BY <1>9 DEF Terminated, vars, thrVars
<1> HIDE ConstantAssumption DEF TypeOK, Threads, Callers
<1> QED
  BY <1>1, <1>2, <1>3, <1>4, <1>5, <1>6, <1>7, <1>8, <1>9 DEF Next

\* Every step of every thread preserves ownership.
LEMMA OwnershipStep ==
  TypeOK /\ TypeOK' /\ Ownership /\ TimerFreeToArm /\ Next => Ownership'
<1> SUFFICES ASSUME TypeOK, TypeOK', Ownership, TimerFreeToArm, Next
    PROVE Ownership'
  OBVIOUS
<1>0. Studio \in Threads /\ Timer \in Threads /\ Studio # Timer
      /\ AutoDevs \subseteq Threads /\ Callers \subseteq Threads /\ Timer \notin Callers
  BY ConstantAssumption DEF Threads, Callers
<1>1. ASSUME NEW tg \in Targets, BeginConnect(tg) PROVE Ownership'
  BY <1>0, <1>1, QuietStep DEF BeginConnect, TypeOK, Holding, sessVars
<1>2. CASE BeginDisconnect
  BY <1>0, <1>2, QuietStep DEF BeginDisconnect, TypeOK, Holding, sessVars, Goto
<1>3. CASE BeginDestroy
  BY <1>0, <1>3, QuietStep DEF BeginDestroy, TypeOK, Holding, sessVars, Goto
<1>4. ASSUME NEW d \in Devs, SelectMachine(d) PROVE Ownership'
  BY <1>0, <1>4, QuietStep DEF SelectMachine, TypeOK, sessVars, thrVars
<1>5. ASSUME NEW d \in AutoDevs, NEW c \in Creds, Autostart(d, c) PROVE Ownership'
  BY <1>0, <1>5, QuietStep DEF Autostart, TypeOK, Holding, sessVars
<1>6. CASE StudioStep
  <2>1. CASE CheckDeferred
    BY <1>0, <2>1, QuietStep DEF CheckDeferred, TypeOK, Holding, sessVars, Goto
  <2>2. CASE ArmDeferred
    <3>1. pc[Timer] \notin Holding
      BY <2>2 DEF ArmDeferred, TimerFreeToArm, Holding
    <3> QED BY <1>0, <2>2, <3>1, QuietStep DEF ArmDeferred, TypeOK, Holding, sessVars
  <2>3. CASE ArmFails
    BY <1>0, <2>3, QuietStep DEF ArmFails, TypeOK, Holding, sessVars, Goto
  <2>4. CASE EndDestroy
    BY <1>0, <2>4, QuietStep DEF EndDestroy, TypeOK, Holding, sessVars, Goto
  <2> QED BY <1>6, <2>1, <2>2, <2>3, <2>4 DEF StudioStep
<1>7. CASE TimerStep
  <2>1. CASE TimerCancelled
    BY <1>0, <2>1, QuietStep DEF TimerCancelled, TypeOK, Holding, sessVars, Goto
  <2>2. CASE TimerExpires
    BY <1>0, <2>2, QuietStep DEF TimerExpires, TypeOK, Holding, sessVars, Goto
  <2> QED BY <1>7, <2>1, <2>2 DEF TimerStep
<1>8. ASSUME NEW t \in Callers, CallerStep(t) PROVE Ownership'
  <2>0. t \in Threads /\ t # Timer
    BY <1>0
  <2>1. CASE CancelDeferred(t)
    BY <2>0, <2>1, QuietStep DEF CancelDeferred, AfterCancel, TypeOK, Holding, sessVars, Goto
  <2>2. CASE JoinDeferred(t)
    BY <1>0, <2>0, <2>2, QuietStep DEF JoinDeferred, AfterCancel, TypeOK, Holding, sessVars
  <2>3. CASE TryReuse(t)
    BY <2>0, <2>3, QuietStep DEF TryReuse, TypeOK, Holding, sessVars, Goto
  <2>4. CASE NotifyReuse(t)
    BY <2>0, <2>4, QuietStep DEF NotifyReuse, AfterConnect, TypeOK, Holding, sessVars, Goto
  <2>5. CASE StartFails(t)
    BY <2>0, <2>5, QuietStep DEF StartFails, TypeOK, Holding, sessVars, Goto
  <2>6. CASE InstallSession(t)
    <3> USE <2>0, <2>6 DEF InstallSession, TypeOK, Ownership, sessVars, Goto
    <3>1. mine[t] \in Sessions /\ mine[t] # lan
      BY ConstantAssumption DEF HoldPc, Holding, SingleOwner
    <3>2. NoLeak'
      BY <3>1 DEF NoLeak
    <3>3. SingleOwner'
      BY <3>1 DEF SingleOwner
    <3>4. InstalledIsLive' /\ FreeIsClean'
      BY <3>1 DEF InstalledIsLive, FreeIsClean, HeldIsLive
    <3>5. HoldPc'
      BY <3>1 DEF HoldPc, Holding, AfterConnect
    <3>6. HeldIsLive'
      BY <3>1 DEF HeldIsLive, InstalledIsLive, AfterConnect
    <3> QED BY <3>2, <3>3, <3>4, <3>5, <3>6
  <2>7. ASSUME NEW s \in Sessions, StartSession(t, s) PROVE Ownership'
    <3> USE <2>0, <2>7, ConstantAssumption DEF StartSession, ClientConnect, TypeOK, Ownership, Goto
    <3>1. /\ s # lan /\ s # NoSession
          /\ \A u \in Threads : mine[u] # s
          /\ mine[t] = NoSession
      BY DEF InstalledIsLive, HeldIsLive, HoldPc, Holding
    <3>2. NoLeak'
      BY <3>1 DEF NoLeak
    <3>3. SingleOwner'
      BY <3>1 DEF SingleOwner
    <3>4. InstalledIsLive' /\ FreeIsClean'
      BY <3>1 DEF InstalledIsLive, FreeIsClean
    <3>5. HoldPc'
      BY <3>1 DEF HoldPc, Holding
    <3>6. HeldIsLive'
      BY <3>1 DEF HeldIsLive, FreeIsClean
    <3> QED BY <3>2, <3>3, <3>4, <3>5, <3>6
  <2> QED BY <1>8, <2>1, <2>2, <2>3, <2>4, <2>5, <2>6, <2>7 DEF CallerStep
<1>9. ASSUME NEW t \in Threads, StopStep(t) PROVE Ownership'
  <2>1. CASE TakeSession(t)
    <3> USE <2>1 DEF TakeSession, TypeOK, Ownership, sessVars, Goto
    <3>1. mine[t] = NoSession
      BY DEF HoldPc, Holding
    <3>2. NoLeak'
      BY <3>1 DEF NoLeak
    <3>3. SingleOwner'
      BY <3>1 DEF SingleOwner
    <3>4. InstalledIsLive' /\ FreeIsClean'
      BY DEF InstalledIsLive, FreeIsClean
    <3>5. HoldPc'
      BY <3>1 DEF HoldPc, Holding, AfterStop, AfterConnect
    <3>6. HeldIsLive'
      BY <3>1 DEF HeldIsLive, InstalledIsLive, AfterStop, AfterConnect
    <3> QED BY <3>2, <3>3, <3>4, <3>5, <3>6
  <2>2. CASE StopRead(t)
    <3> USE <2>2 DEF StopRead, TypeOK, Ownership, Goto
    <3>1. mine[t] \in Sessions /\ mine[t] # lan
      BY DEF HoldPc, Holding, SingleOwner
    <3>2. NoLeak' /\ SingleOwner' /\ InstalledIsLive'
      BY <3>1 DEF NoLeak, SingleOwner, InstalledIsLive
    <3>5. FreeIsClean'
      BY <3>1, ConstantAssumption DEF FreeIsClean, HeldIsLive
    <3>3. HoldPc'
      BY <3>1 DEF HoldPc, Holding
    <3>4. HeldIsLive'
      BY <3>1 DEF HeldIsLive, SingleOwner
    <3> QED BY <3>2, <3>3, <3>4, <3>5
  <2>3. CASE StopRequest(t)
    BY <2>3, QuietStep DEF StopRequest, TypeOK, Holding, sessVars, Goto
  <2>4. CASE StopJoin(t)
    <3> USE <2>4, ConstantAssumption DEF StopJoin, TypeOK, Ownership, Goto
    <3>1. mine[t] \in Sessions /\ mine[t] # lan
      BY DEF HoldPc, Holding, SingleOwner
    <3>2. NoLeak'
      BY <3>1 DEF NoLeak, SingleOwner
    <3>3. SingleOwner'
      BY <3>1 DEF SingleOwner
    <3>4. InstalledIsLive' /\ FreeIsClean'
      BY <3>1 DEF InstalledIsLive, FreeIsClean
    <3>5. HoldPc'
      BY <3>1 DEF HoldPc, Holding, AfterStop, AfterConnect
    <3>6. HeldIsLive'
      BY <3>1 DEF HeldIsLive, SingleOwner
    <3> QED BY <3>2, <3>3, <3>4, <3>5, <3>6
  <2> QED BY <1>9, <2>1, <2>2, <2>3, <2>4 DEF StopStep
<1>10. ASSUME NEW d \in AutoDevs, WorkerStep(d) PROVE Ownership'
  <2>1. CASE EnsureFast(d)
    BY <1>0, <2>1, QuietStep DEF EnsureFast, TypeOK, Holding, sessVars, Goto
  <2>2. CASE EnsurePoll(d)
    BY <1>0, <2>2, QuietStep DEF EnsurePoll, TypeOK, Holding, sessVars, Goto
  <2> QED BY <1>10, <2>1, <2>2 DEF WorkerStep
<1>11. ASSUME NEW s \in Sessions, Network(s) PROVE Ownership'
  <2>1. CASE Connack(s)
    BY <2>1, LoopKeepsRunning DEF Connack, Running, TypeOK, thrVars
  <2>2. CASE Refused(s)
    BY <2>2, LoopKeepsRunning DEF Refused, Running, TypeOK, thrVars
  <2>3. CASE LinkLost(s)
    BY <2>3, LoopKeepsRunning DEF LinkLost, Running, TypeOK, thrVars
  <2>4. CASE CertAck(s)
    BY <2>4, LoopKeepsRunning DEF CertAck, Running, TypeOK, thrVars, sessVars
  <2> QED BY <1>11, <2>1, <2>2, <2>3, <2>4 DEF Network
<1>12. ASSUME NEW s \in Sessions, LoopStep(s) PROVE Ownership'
  <2>1. CASE GracefulBye(s)
    BY <2>1, LoopKeepsRunning DEF GracefulBye, Running, TypeOK, thrVars
  <2>2. CASE LoopExit(s)
    <3> USE <2>2 DEF LoopExit, TypeOK, Ownership, thrVars
    <3>1. PICK t \in Threads : mine[t] = s /\ pc[t] = "wait"
      BY DEF Stopping
    <3>2. s # lan /\ link[s] # "free"
      BY <3>1, ConstantAssumption DEF SingleOwner
    <3>3. NoLeak' /\ SingleOwner' /\ InstalledIsLive' /\ FreeIsClean'
      BY <3>2 DEF NoLeak, SingleOwner, InstalledIsLive, FreeIsClean
    <3>4. HoldPc'
      BY DEF HoldPc
    <3>5. HeldIsLive'
      BY <3>1, <3>2 DEF HeldIsLive, SingleOwner
    <3> QED BY <3>3, <3>4, <3>5
  <2>3. CASE CallbackDisarm(s)
    BY <1>0, <2>3, QuietStep DEF CallbackDisarm, TypeOK, thrVars
  <2>4. CASE CallbackReturn(s)
    BY <1>0, <2>4, QuietStep DEF CallbackReturn, TypeOK, thrVars
  <2> QED BY <1>12, <2>1, <2>2, <2>3, <2>4 DEF LoopStep
<1>13. CASE Terminated
  BY <1>0, <1>13, QuietStep DEF Terminated, vars, TypeOK, thrVars, sessVars
<1> QED
  BY <1>1, <1>2, <1>3, <1>4, <1>5, <1>6, <1>7, <1>8, <1>9, <1>10, <1>11, <1>12, <1>13
     DEF Next, Request, Hook

\* The inductive invariant holds in every reachable state.
LEMMA InductiveInvariant == Spec => []OwnershipInv
<1>1. Init => OwnershipInv
  BY InitOwnership
<1>2. OwnershipInv /\ [Next]_vars => OwnershipInv'
  <2> SUFFICES ASSUME OwnershipInv, [Next]_vars PROVE OwnershipInv'
    OBVIOUS
  <2>1. CASE Next
    <3>1. TypeOK /\ Ownership /\ HoldPc /\ TimerFreeToArm
      BY DEF OwnershipInv, Ownership
    <3>2. TypeOK'
      BY <2>1, <3>1, TypeStep
    <3>3. Ownership' /\ TimerFreeToArm'
      BY <2>1, <3>1, <3>2, OwnershipStep, TimerStepFree
    <3> QED BY <3>2, <3>3 DEF OwnershipInv, Ownership
  <2>2. CASE UNCHANGED vars
    BY <2>2 DEF vars, sessVars, thrVars, auxVars, OwnershipInv, TypeOK, NoLeak,
                SingleOwner, InstalledIsLive, HoldPc, HeldIsLive, FreeIsClean,
                TimerFreeToArm
  <2> QED BY <2>1, <2>2
<1> QED BY <1>1, <1>2, PTL DEF Spec

\* Type correctness: every reachable state of the LAN session machinery is
\* well typed, for every set of devices, workers and sessions.
THEOREM TypeCorrect == Spec => []TypeOK
<1>1. OwnershipInv => TypeOK
  BY DEF OwnershipInv
<1> QED BY <1>1, InductiveInvariant, PTL

\* In every reachable state each live LanSession has exactly one owner, and the
\* one in lan_session_ is not being disconnected: agent.cpp's rule "whoever takes
\* one out of the member must call disconnect() itself" is obeyed whatever
\* connect, disconnect, autostart, timer and teardown interleave.
THEOREM OwnershipHolds == Spec => []SessionOwnership
<1>1. OwnershipInv => SessionOwnership
  BY DEF OwnershipInv, SessionOwnership
<1> QED BY <1>1, InductiveInvariant, PTL

---------------------------------------------------------------------------
(* The grace timer and the teardown, with the slicer's thread as the only
   caller.  An autostart worker is another caller of connect_printer, and it may
   install its session while the timer of a deferred disconnect runs or after
   ~Agent has closed the session: neither property is claimed with workers. *)

\* deferred_dc_active_ is set only while the timer thread waits.
ArmedWaits == armed => pc[Timer] = "waiting"

\* Only mqtt_keep_connection ever starts the timer.
TimerNeedsKeep ==
    /\ pc[Timer] # "none" => Keep
    /\ pc[Studio] \in {"disc", "arm"} => Keep
    /\ op[Studio] = "defer" => Keep

\* Wherever a call may install or has closed the session, the timer thread has
\* been joined; only a drop that found no session runs beside it.
TimerJoined ==
    /\ pc[Studio] \in {"arm", "reuse", "notify", "start", "install", "closed", "destroyed"}
           => pc[Timer] = "none"
    /\ pc[Studio] \in {"take", "stop", "quit", "wait"} /\ op[Studio] # "drop"
           => pc[Timer] = "none"
    /\ pc[Studio] = "disc" => op[Studio] = "drop"

\* A timer that may still expire, or has expired, finds the session it was armed
\* for or none.
TimerSeesDoomed ==
    pc[Timer] = "take" \/ (pc[Timer] = "waiting" /\ armed) => lan \in {NoSession, doomed}

\* Once ~Agent has taken the session out nothing is put back.
ClosedStays ==
    pc[Studio] \in {"closed", "destroyed"}
    \/ (pc[Studio] \in {"stop", "quit", "wait"} /\ op[Studio] = "destroy")
        => lan = NoSession

\* The states of the timer thread.
TimerPcs == pc[Timer] \in {"none", "waiting", "take", "stop", "quit", "wait", "done"}

TimerInv ==
    /\ ArmedWaits /\ TimerNeedsKeep /\ TimerJoined /\ TimerSeesDoomed
    /\ ClosedStays /\ TimerPcs /\ op[Timer] \in {"none", "timer"}
    /\ pc[Timer] # "none" => op[Timer] = "timer"
    /\ TimerTakesOnlyDoomed

\* In the initial state there is no timer thread.
LEMMA TimerInit == AutoDevs = {} /\ Init => TimerInv
<1> SUFFICES ASSUME AutoDevs = {}, Init PROVE TimerInv
  OBVIOUS
<1>0. Studio # Timer /\ Callers = {Studio} /\ Threads = {Studio, Timer}
  BY ConstantAssumption DEF Callers, Threads
<1> QED
  BY <1>0 DEF Init, TimerInv, ArmedWaits, TimerNeedsKeep, TimerJoined, TimerSeesDoomed,
     ClosedStays, TimerPcs, TimerTakesOnlyDoomed

\* The slicer's thread, the timer and the loop threads preserve what the timer relies on.
LEMMA TimerNext == AutoDevs = {} /\ OwnershipInv /\ TimerInv /\ Next => TimerInv'
<1> SUFFICES ASSUME AutoDevs = {}, OwnershipInv, TimerInv, Next PROVE TimerInv'
  OBVIOUS
<1>0. Studio # Timer /\ Callers = {Studio} /\ Threads = {Studio, Timer}
  BY ConstantAssumption DEF Callers, Threads
<1>t. /\ pc \in [{Studio, Timer} -> Pcs] /\ op \in [{Studio, Timer} -> Ops]
      /\ mine \in [{Studio, Timer} -> Sessions \cup {NoSession}]
      /\ armed \in BOOLEAN /\ Keep \in BOOLEAN
      /\ mine[Timer] # NoSession <=> pc[Timer] \in Holding
  BY <1>0, ConstantAssumption DEF OwnershipInv, TypeOK, HoldPc
<1> USE <1>0, <1>t DEF TimerInv, ArmedWaits, TimerNeedsKeep, TimerJoined, TimerSeesDoomed,
        ClosedStays, TimerPcs, TimerTakesOnlyDoomed, Goto, sessVars, thrVars, auxVars
<1>1. CASE Request
  <2>1. ASSUME NEW tg \in Targets, BeginConnect(tg) PROVE TimerInv'
    BY <2>1 DEF BeginConnect
  <2>2. CASE BeginDisconnect
    BY <2>2 DEF BeginDisconnect
  <2>3. CASE BeginDestroy
    BY <2>3 DEF BeginDestroy
  <2>4. ASSUME NEW d \in Devs, SelectMachine(d) PROVE TimerInv'
    BY <2>4 DEF SelectMachine
  <2> QED
    BY <1>1, <2>1, <2>2, <2>3, <2>4 DEF Request
<1>2. CASE StudioStep
  <2>1. CASE CheckDeferred
    BY <2>1 DEF CheckDeferred
  <2>2. CASE ArmDeferred
    BY <2>2 DEF ArmDeferred, Holding
  <2>3. CASE ArmFails
    BY <2>3 DEF ArmFails
  <2>4. CASE EndDestroy
    BY <2>4 DEF EndDestroy
  <2> QED
    BY <1>2, <2>1, <2>2, <2>3, <2>4 DEF StudioStep
<1>3. CASE TimerStep
  BY <1>3 DEF TimerStep, TimerCancelled, TimerExpires, Holding
<1>4. CASE CallerStep(Studio)
  <2>1. CASE CancelDeferred(Studio)
    BY <2>1 DEF CancelDeferred, AfterCancel, Holding
  <2>2. CASE JoinDeferred(Studio)
    BY <2>2 DEF JoinDeferred, AfterCancel, Holding
  <2>3. CASE TryReuse(Studio) \/ NotifyReuse(Studio) \/ StartFails(Studio)
    BY <2>3 DEF TryReuse, NotifyReuse, StartFails, AfterConnect
  <2>4. CASE InstallSession(Studio)
    BY <2>4 DEF InstallSession, AfterConnect, Holding
  <2>5. ASSUME NEW s \in Sessions, StartSession(Studio, s) PROVE TimerInv'
    BY <2>5 DEF StartSession, ClientConnect
  <2> QED
    BY <1>4, <2>1, <2>2, <2>3, <2>4, <2>5 DEF CallerStep
<1>5. CASE StopStep(Studio)
  <2>1. CASE TakeSession(Studio)
    BY <2>1 DEF TakeSession, AfterStop, AfterConnect
  <2>2. CASE StopRead(Studio) \/ StopRequest(Studio)
    BY <2>2 DEF StopRead, StopRequest
  <2>3. CASE StopJoin(Studio)
    BY <2>3 DEF StopJoin, AfterStop, AfterConnect
  <2> QED
    BY <1>5, <2>1, <2>2, <2>3 DEF StopStep
<1>6. CASE StopStep(Timer)
  <2>1. CASE TakeSession(Timer)
    BY <2>1 DEF TakeSession, AfterStop, AfterConnect
  <2>2. CASE StopRead(Timer) \/ StopRequest(Timer)
    BY <2>2 DEF StopRead, StopRequest
  <2>3. CASE StopJoin(Timer)
    BY <2>3 DEF StopJoin, AfterStop, AfterConnect
  <2> QED
    BY <1>6, <2>1, <2>2, <2>3 DEF StopStep
<1>7. ASSUME NEW s \in Sessions, Network(s) PROVE TimerInv'
  BY <1>7 DEF Network, Connack, Refused, LinkLost, CertAck
<1>8. ASSUME NEW s \in Sessions, LoopStep(s) PROVE TimerInv'
  <2>1. CASE CallbackDisarm(s)
    BY <2>1 DEF CallbackDisarm, Holding
  <2>2. CASE GracefulBye(s) \/ LoopExit(s) \/ CallbackReturn(s)
    BY <2>2 DEF GracefulBye, LoopExit, CallbackReturn
  <2> QED
    BY <1>8, <2>1, <2>2 DEF LoopStep
<1>9. CASE Terminated
  BY <1>9 DEF Terminated, vars
<1> HIDE DEF TimerInv
<1> QED
  BY <1>0, <1>1, <1>2, <1>3, <1>4, <1>5, <1>6, <1>7, <1>8, <1>9 DEF Next, Hook

\* With the slicer's thread as the only caller the timer's invariant always holds.
LEMMA TimerAlways == ASSUME AutoDevs = {} PROVE Spec => []TimerInv
<1>1. Init => TimerInv
  BY TimerInit
<1>2. OwnershipInv /\ TimerInv /\ [Next]_vars => TimerInv'
  <2> SUFFICES ASSUME OwnershipInv, TimerInv, UNCHANGED vars PROVE TimerInv'
    BY TimerNext
  <2> QED
    BY DEF vars, sessVars, thrVars, auxVars, TimerInv, ArmedWaits, TimerNeedsKeep, TimerJoined,
       TimerSeesDoomed, ClosedStays, TimerPcs, TimerTakesOnlyDoomed
<1> QED
  BY <1>1, <1>2, InductiveInvariant, PTL DEF Spec

\* The grace timer of mqtt_keep_connection closes only the session that
\* disconnect_printer put under it: while the timer may expire no call can install another
\* one, because connect_printer cancels and joins it first (agent.cpp).
THEOREM TimerIsBound == ASSUME AutoDevs = {} PROVE Spec => []TimerTakesOnlyDoomed
<1>1. TimerInv => TimerTakesOnlyDoomed
  BY DEF TimerInv
<1> QED
  BY <1>1, TimerAlways, PTL

\* ~Agent leaves no session behind: it has joined the timer thread before it takes the
\* session out, and a session has no other owner.
THEOREM ShutdownCloses == ASSUME AutoDevs = {} PROVE Spec => []ShutdownClosesLan
<1>1. OwnershipInv /\ TimerInv => ShutdownClosesLan
  <2> SUFFICES ASSUME OwnershipInv, TimerInv, pc[Studio] \in {"closed", "destroyed"}
               PROVE  lan = NoSession /\ \A s \in Sessions : link[s] = "free"
    BY DEF ShutdownClosesLan
  <2>1. Threads = {Studio, Timer}
    BY DEF Callers, Threads
  <2>2. lan = NoSession /\ mine[Studio] = NoSession /\ mine[Timer] = NoSession
    BY <2>1 DEF TimerInv, ClosedStays, TimerJoined, OwnershipInv, HoldPc, Holding
  <2> QED
    BY <2>1, <2>2, ConstantAssumption DEF OwnershipInv, NoLeak
<1> QED
  BY <1>1, TimerAlways, InductiveInvariant, PTL

===========================================================================
