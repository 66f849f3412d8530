----------------------------- MODULE Hosts_proofs -----------------------------
(***************************************************************************)
(* TLAPS proofs about the components that MCHosts puts side by side.  A    *)
(* step of the composition is a step of one component and leaves the       *)
(* others alone, so that each component has a lemma on its own steps.      *)
(***************************************************************************)
EXTENDS MCHosts, FiniteSetTheorems, SequenceTheorems, WellFoundedInduction, TLAPS

\* What a step of the composition is for each component.
LEMMA HostSteps ==
    [Next]_hostVars => /\ [SsdpNext]_ssdpVars /\ [ServerNext]_serverVars
                       /\ [FilterNext]_filterVars /\ [ObjectsNext]_comVars
                       /\ [MachineNext]_machineVars /\ [DownloadNext]_downloadVars
                       /\ [CameraNext]_cameraVars /\ [RunnerNext]_runnerVars
                       /\ [PlayerNext]_playerVars /\ [BindNext]_bindVars
                       /\ [FeedFrames]_frameVars
<1>1. ASSUME Next
      PROVE  /\ [SsdpNext]_ssdpVars /\ [ServerNext]_serverVars
             /\ [FilterNext]_filterVars /\ [ObjectsNext]_comVars
             /\ [MachineNext]_machineVars /\ [DownloadNext]_downloadVars
             /\ [CameraNext]_cameraVars /\ [RunnerNext]_runnerVars
             /\ [PlayerNext]_playerVars /\ [BindNext]_bindVars
             /\ [FeedFrames]_frameVars
  BY <1>1 DEF Next, Only
<1> QED
  BY <1>1 DEF hostVars

-----------------------------------------------------------------------------
(* The SSDP listener.  The worker's socket is open while it runs, and it is fd_; whoever
   takes running_ back, the worker or stop(), is the one who closes it.  start_mu_ has
   one holder, which alone makes a thread or waits for one. *)
ListenerPcs == {"none", "loop", "call", "exit", "closing", "ended"}
CallPcs     == {"idle", "join", "open", "stop", "reap"}

SsdpTypes ==
    /\ listening \in BOOLEAN /\ onMsg \in BOOLEAN
    /\ fd \in 0..MaxSockets /\ opened \in 0..MaxSockets
    /\ sockets \in [1..MaxSockets -> Nat]
    /\ listener \in [pc : ListenerPcs, fd : 0..MaxSockets]
    /\ call \in [SsdpCallers -> CallPcs]

SocketsOnce == \A s \in 1..MaxSockets : /\ sockets[s] <= 1
                                        /\ s > opened => sockets[s] = 0

IsOpen(s) == s \in 1..opened /\ sockets[s] = 0

WorkerHasSocket ==
    /\ listener.pc \in {"loop", "call", "exit", "closing"} => IsOpen(listener.fd)
    /\ listening => listener.pc \in {"loop", "call", "exit"} /\ fd = listener.fd
    /\ listener.pc = "closing" => ~listening

OneStarter ==
    /\ \A c \in SsdpCallers : /\ call[c] # "idle" => startMu = {c}
                              /\ call[c] \in {"stop", "reap"} => c = Stopper
                              /\ call[c] \in {"join", "open", "stop", "reap"} => ~listening
                              /\ call[c] = "open" => listener.pc = "none"
    /\ call[Stopper] = "stop" =>
          IsOpen(fd) /\ fd = listener.fd /\ listener.pc \in {"loop", "call", "exit", "ended"}

SsdpInv == SsdpTypes /\ SocketsOnce /\ WorkerHasSocket /\ OneStarter

LEMMA SsdpInitInv == SsdpInit => SsdpInv
<1> SUFFICES ASSUME SsdpInit PROVE SsdpInv
  OBVIOUS
<1>1. SsdpTypes
  <2>1. listening \in BOOLEAN /\ onMsg \in BOOLEAN
    BY DEF SsdpInit
  <2>2. fd \in 0..MaxSockets /\ opened \in 0..MaxSockets /\ sockets \in [1..MaxSockets -> Nat]
    BY SsdpAssumption DEF SsdpInit
  <2>3. listener \in [pc : ListenerPcs, fd : 0..MaxSockets]
    BY SsdpAssumption DEF SsdpInit, ListenerPcs
  <2>4. call \in [SsdpCallers -> CallPcs]
    BY DEF SsdpInit, CallPcs
  <2> QED
    BY <2>1, <2>2, <2>3, <2>4 DEF SsdpTypes
<1>2. SocketsOnce
  BY DEF SsdpInit, SocketsOnce
<1>3. WorkerHasSocket /\ OneStarter
  BY SsdpAssumption DEF SsdpInit, WorkerHasSocket, OneStarter
<1> QED
  BY <1>1, <1>2, <1>3 DEF SsdpInv

\* The socket that is closed here was open.
LEMMA CloseFacts ==
    ASSUME SsdpTypes, SocketsOnce, NEW s \in 1..opened', opened' \in 0..MaxSockets,
           opened' >= opened, sockets[s] = 0, Close(s)
    PROVE  /\ sockets' \in [1..MaxSockets -> Nat] /\ SocketsOnce'
           /\ \A r \in 1..MaxSockets : r # s => sockets'[r] = sockets[r]
<1>1. s \in 1..MaxSockets
  BY SsdpAssumption
<1>2. sockets' = [sockets EXCEPT ![s] = 1]
  BY <1>1 DEF Close, SsdpTypes
<1> QED
  BY <1>1, <1>2, SsdpAssumption DEF SocketsOnce, SsdpTypes

LEMMA StartInv ==
    ASSUME SsdpInv, NEW c \in SsdpCallers, StartEnter(c) \/ StartJoin(c) \/ StartOpen(c)
    PROVE  SsdpInv'
<1> USE SsdpAssumption DEF SsdpInv, SsdpTypes, SocketsOnce, WorkerHasSocket, OneStarter, IsOpen,
        ListenerPcs, CallPcs
<1>1. CASE StartEnter(c)
  BY <1>1 DEF StartEnter
<1>2. CASE StartJoin(c)
  <2>1. listener'.pc = "none" /\ listener' \in [pc : ListenerPcs, fd : 0..MaxSockets]
    BY <1>2 DEF StartJoin, ListenerJoined
  <2>2. call' \in [SsdpCallers -> CallPcs] /\ call'[c] = "open"
        /\ \A d \in SsdpCallers : d # c => call'[d] = call[d] /\ call[d] = "idle"
    BY <1>2 DEF StartJoin
  <2>3. ~listening
    BY <1>2 DEF StartJoin
  <2> QED
    BY <1>2, <2>1, <2>2, <2>3 DEF StartJoin
<1>3. CASE StartOpen(c)
  <2>1. opened' = opened + 1 /\ opened' \in 1..MaxSockets /\ sockets[opened'] = 0
    BY <1>3 DEF StartOpen
  <2>2. call' = [call EXCEPT ![c] = "idle"] /\ listener.pc = "none"
        /\ \A d \in SsdpCallers : d # c => call[d] = "idle"
    BY <1>3 DEF StartOpen
  <2>3. \A d \in SsdpCallers : call'[d] = "idle"
    BY <2>2
  <2>4. CASE /\ fd' = opened' /\ listening' = TRUE
             /\ listener' = [pc |-> "loop", fd |-> opened'] /\ UNCHANGED sockets
    BY <1>3, <2>1, <2>2, <2>3, <2>4 DEF StartOpen
  <2>5. CASE Close(opened') /\ listening' = FALSE /\ fd' = 0 /\ UNCHANGED listener
    <3>1. sockets' \in [1..MaxSockets -> Nat] /\ SocketsOnce'
      BY <2>1, <2>5, CloseFacts
    <3>2. SsdpTypes'
      <4>1. onMsg' = TRUE
        BY <1>3 DEF StartOpen
      <4>2. call' \in [SsdpCallers -> CallPcs]
        BY <2>2
      <4>3. fd' \in 0..MaxSockets /\ opened' \in 0..MaxSockets
        BY <2>1, <2>5
      <4> QED
        BY <2>5, <3>1, <4>1, <4>2, <4>3
    <3>3. WorkerHasSocket' /\ OneStarter'
      BY <2>2, <2>3, <2>5
    <3> QED
      BY <3>1, <3>2, <3>3
  <2> QED
    BY <1>3, <2>4, <2>5 DEF StartOpen, Undone
<1> QED
  BY <1>1, <1>2, <1>3

LEMMA StopInv == SsdpInv /\ (StopEnter \/ StopClose_ \/ StopReap) => SsdpInv'
<1> SUFFICES ASSUME SsdpInv, StopEnter \/ StopClose_ \/ StopReap PROVE SsdpInv'
  OBVIOUS
<1> USE SsdpAssumption DEF SsdpInv, SsdpTypes, SocketsOnce, WorkerHasSocket, OneStarter, IsOpen,
        ListenerPcs, CallPcs
<1>1. CASE StopEnter
  BY <1>1 DEF StopEnter
<1>2. CASE StopClose_
  <2>1. /\ listener.pc = "ended" /\ listener'.pc = "none"
        /\ listener' \in [pc : ListenerPcs, fd : 0..MaxSockets]
    BY <1>2 DEF StopClose_, ListenerGone
  <2>2. sockets' \in [1..MaxSockets -> Nat] /\ SocketsOnce'
    BY <1>2, CloseFacts DEF StopClose_
  <2>3. call' = [call EXCEPT ![Stopper] = "idle"]
        /\ \A d \in SsdpCallers : d # Stopper => call[d] = "idle"
    BY <1>2 DEF StopClose_
  <2>4. \A d \in SsdpCallers : call'[d] = "idle"
    BY <2>3
  <2>5. ~listening /\ UNCHANGED <<listening, opened, onMsg>> /\ fd' = 0
    BY <1>2 DEF StopClose_
  <2> QED
    BY <2>1, <2>2, <2>3, <2>4, <2>5
<1>3. CASE StopReap
  BY <1>3 DEF StopReap
<1> QED
  BY <1>1, <1>2, <1>3

LEMMA WorkerInv ==
    SsdpInv /\ ((\E p \in Packets : RunPoll(p)) \/ RunCallback \/ RunError \/ RunExit \/ RunClose)
        => SsdpInv'
<1> SUFFICES ASSUME SsdpInv,
                    (\E p \in Packets : RunPoll(p)) \/ RunCallback \/ RunError \/ RunExit \/ RunClose
             PROVE  SsdpInv'
  OBVIOUS
<1> USE SsdpAssumption DEF SsdpInv, SsdpTypes, SocketsOnce, WorkerHasSocket, OneStarter, IsOpen,
        ListenerPcs, CallPcs
<1>1. CASE \E p \in Packets : RunPoll(p)
  BY <1>1 DEF RunPoll, LooksAgain
<1>2. CASE RunCallback
  BY <1>2 DEF RunCallback
<1>3. CASE RunError
  BY <1>3 DEF RunError
<1>4. CASE RunExit
  BY <1>4 DEF RunExit
<1>5. CASE RunClose
  BY <1>5 DEF RunClose, Close
<1> QED
  BY <1>1, <1>2, <1>3, <1>4, <1>5

LEMMA SsdpStepInv == SsdpInv /\ [SsdpNext]_ssdpVars => SsdpInv'
<1>1. SsdpInv /\ UNCHANGED ssdpVars => SsdpInv'
  BY DEF ssdpVars, SsdpInv, SsdpTypes, SocketsOnce, WorkerHasSocket, OneStarter, IsOpen
<1> QED
  BY <1>1, StartInv, StopInv, WorkerInv DEF SsdpNext

-----------------------------------------------------------------------------
(* The cover server.  The map's smallest key is one of its keys. *)
LEMMA LeastNumber ==
    ASSUME NEW S \in SUBSET Nat, S # {}
    PROVE  Min(S) \in S /\ \A y \in S : Min(S) <= y
<1>1. \E x \in S : \A y \in S : ~(<<y, x>> \in OpToRel(<, Nat))
  BY NatLessThanWellFounded, WFMin
<1>2. \A x, y \in S : y < x => <<y, x>> \in OpToRel(<, Nat)
  BY DEF OpToRel
<1>3. \A x, y \in S : x <= y \/ y < x
  OBVIOUS
<1>4. \E x \in S : \A y \in S : x <= y
  BY <1>1, <1>2, <1>3, Zenon
<1> QED
  BY <1>4 DEF Min

\* A thread that polls has its socket.
LEMMA ServerStepInv == PollsOpenSocket /\ [ServerNext]_serverVars => PollsOpenSocket'
BY DEF ServerNext, RegisterSubtask, CoverArrives, AcceptOne, HandleOne, StopBegin,
   AcceptLoopEnds, StopClose, JoinedThread, serverVars, PollsOpenSocket

\* Neither listener uses a socket after its close, no socket of the SSDP listener is closed
\* twice, no thread object is overwritten, and running_ is not left true by a worker that
\* has ended, for any number of callers, sockets and errors.
THEOREM ListenersHold == Spec => []ListenersSound
<1>1. Init => SsdpInv /\ PollsOpenSocket
  BY SsdpInitInv DEF Init, ServerInit, PollsOpenSocket
<1>2. SsdpInv /\ PollsOpenSocket => ListenersSound
  BY DEF SsdpInv, SsdpTypes, SocketsOnce, WorkerHasSocket, OneStarter, IsOpen,
     ListenersSound, SocketClosedOnce, OneWorker, RunningHasThread
<1> QED
  BY <1>1, <1>2, HostSteps, SsdpStepInv, ServerStepInv, PTL DEF Spec
-----------------------------------------------------------------------------
(* The DirectShow filter.  A worker runs exactly while wrunning says so, a buffer is out
   while the worker holds one, and a camera that was asked has announced its codec. *)
WorkerExists ==
    /\ ~wrunning => wpc = "none"
    /\ app = "idle" /\ state_ = "Stopped" => ~wrunning
    /\ wpc = "copy" => free < Buffers

CodecKnown ==
    /\ url.codec \in Codecs \cup {"none"} /\ url.probed \in BOOLEAN
    /\ url.scheme # "none" => url.codec \in Codecs
    /\ url.probed => url.codec = camCodec
    /\ mt # "none" /\ ~imposed => mt = url.codec
    /\ url.probed /\ mt # "none" /\ ~imposed => got \in {mt, "none"}

FilterInv == FilterTypeOK /\ WorkerExists /\ CodecKnown

LEMMA FilterInitInv == FilterInit => FilterInv
<1> SUFFICES ASSUME FilterInit PROVE FilterInv
  OBVIOUS
<1>1. /\ url.scheme = "none" /\ url.codec = "none" /\ url.probed = FALSE
      /\ mt = "none" /\ imposed = FALSE /\ free = Buffers /\ wpc = "none" /\ wrunning = FALSE
  BY DEF FilterInit, NoUrl
<1>2. FilterTypeOK
  <2>1. free \in 0..Buffers
    BY <1>1, FilterAssumption
  <2> QED
    BY <1>1, <2>1 DEF FilterTypeOK
<1>3. WorkerExists
  BY <1>1 DEF WorkerExists
<1>4. CodecKnown
  BY <1>1 DEF CodecKnown
<1> QED
  BY <1>2, <1>3, <1>4 DEF FilterInv

\* The calls of the filter graph.
LEMMA GraphInv ==
    ASSUME FilterInv, Load \/ Connect \/ Pause \/ Run \/ Stop \/ Disconnect \/ StopJoined
    PROVE  FilterInv'
<1> USE FilterAssumption DEF FilterInv, FilterTypeOK, WorkerExists, CodecKnown
<1>1. CASE Load
  <2>1. PICK s \in Schemes, held_ \in BOOLEAN :
            /\ held_ => s = "tutk"
            /\ camCodec' \in CASE s = "rtsp" -> {"h264"} [] s = "local" -> {"mjpeg"} [] OTHER -> Codecs
            /\ url' = [scheme |-> s, codec |-> Announced(s, held_), probed |-> (s # "tutk" \/ held_)]
    BY <1>1 DEF Load
  <2>2. camCodec' \in Codecs /\ Announced(s, held_) \in Codecs
        /\ ((s # "tutk" \/ held_) => Announced(s, held_) = camCodec')
    BY <2>1 DEF Announced, Schemes, Codecs
  <2>3. /\ url'.scheme \in Schemes /\ url'.codec = Announced(s, held_)
        /\ url'.probed = (s # "tutk" \/ held_)
    BY <2>1
  <2>4. url'.probed \in BOOLEAN /\ (url'.probed => url'.codec = camCodec')
    BY <2>2, <2>3, Zenon
  <2> QED
    BY <1>1, <2>2, <2>3, <2>4 DEF Load, pinVars, workVars
<1>2. CASE Connect
  <2>1. /\ url' = url /\ camCodec' = camCodec /\ free' = Buffers /\ got' = "none"
        /\ wrunning' = wrunning /\ wpc' = wpc /\ state_' = state_ /\ app' = app
    BY <1>2 DEF Connect, urlVars
  <2>2. imposed' \in BOOLEAN /\ (~imposed' => mt' = url.codec) /\ mt' \in Codecs \cup {"none"}
    BY <1>2 DEF Connect
  <2>3. wpc # "copy"
    BY <1>2 DEF Connect
  <2>4. FilterTypeOK'
    BY <2>1, <2>2
  <2>5. WorkerExists'
    BY <2>1, <2>3
  <2>6. CodecKnown'
    BY <2>1, <2>2
  <2> QED
    BY <2>4, <2>5, <2>6
<1>3. CASE Pause
  BY <1>3 DEF Pause, start_streaming, urlVars
<1>4. CASE Run
  BY <1>4 DEF Run, start_streaming, urlVars
<1>5. CASE Stop \/ Disconnect
  BY <1>5 DEF Stop, Disconnect, StopStreaming, urlVars
<1>6. CASE StopJoined
  BY <1>6 DEF StopJoined, Joined, urlVars
<1> QED
  BY <1>1, <1>2, <1>3, <1>4, <1>5, <1>6

LEMMA FilterStepInv == FilterInv /\ [FilterNext]_filterVars => FilterInv'
<1> SUFFICES ASSUME FilterInv, [FilterNext]_filterVars PROVE FilterInv'
  OBVIOUS
<1> USE FilterAssumption DEF FilterInv, FilterTypeOK, WorkerExists, CodecKnown
<1>1. CASE WorkerOpen
  BY <1>1 DEF WorkerOpen, pinVars
<1>2. CASE WorkerPull
  BY <1>2 DEF WorkerPull, Pulls, RtspPull, TutkPull, MjpegPull, pinVars, urlVars
<1>3. CASE WorkerGetBuffer
  BY <1>3 DEF WorkerGetBuffer, urlVars
<1>4. CASE WorkerReceive
  BY <1>4 DEF WorkerReceive, urlVars
<1>5. CASE RendererReturns
  BY <1>5 DEF RendererReturns, urlVars, workVars
<1>6. CASE UNCHANGED filterVars
  BY <1>6 DEF filterVars, urlVars, pinVars, workVars
<1>7. CASE WorkerLoop \/ WorkerTargets \/ WorkerDropped
  BY <1>7 DEF WorkerLoop, WorkerTargets, WorkerDropped, pinVars, urlVars
<1> QED
  BY <1>1, <1>2, <1>3, <1>4, <1>5, <1>6, <1>7, GraphInv DEF FilterNext, WorkerStep

-----------------------------------------------------------------------------
(* The COM objects.  A reference is the client's or, for the pin, one of its filter and
   one of an enumerator; the module's lock count is the number of living objects. *)
B(o) == IF Lives(o) THEN 1 ELSE 0

Living == {o \in Objects : Lives(o)}

RefsCounted ==
    /\ refs \in [Objects -> Nat] /\ held \in [Objects -> Nat]
    /\ \A o \in Objects \ {"pin"} : refs[o] = held[o]
    /\ refs["pin"] = held["pin"] + B("filter") + B("pins")

LocksCounted ==
    /\ served \in BOOLEAN
    /\ locks = Cardinality(Living) + (IF served THEN 1 ELSE 0)

ObjectsInv == RefsCounted /\ LocksCounted /\ UnloadedIsEmpty /\ OnlyOrphansDangle

LEMMA LivingFacts ==
    /\ IsFiniteSet(Objects)
    /\ \A S \in SUBSET Objects : IsFiniteSet(S) /\ Cardinality(S) \in Nat
    /\ Living \in SUBSET Objects
<1>1. IsFiniteSet(Objects)
  <2>1. IsFiniteSet({}) /\ \A S, x : IsFiniteSet(S) => IsFiniteSet(S \cup {x})
    BY FS_EmptySet, FS_AddElement
  <2>2. Objects = ((((({} \cup {"factory"}) \cup {"filter"}) \cup {"pin"}) \cup {"pins"}) \cup {"types"})
    BY DEF Objects
  <2> QED
    BY <2>1, <2>2
<1> QED
  BY <1>1, FS_Subset, FS_CardinalityType DEF Living

\* Update keeps the lock count true: it adds the births and takes off the deaths.
LEMMA UpdateLocks ==
    ASSUME RefsCounted, LocksCounted, NEW r \in [Objects -> Nat], NEW h, Update(r, h)
    PROVE  LocksCounted' /\ refs' = r /\ held' = h /\ UNCHANGED <<served, loaded>>
<1> DEFINE born == {o \in Objects : refs[o] = 0 /\ r[o] > 0}
           dead == {o \in Objects : refs[o] > 0 /\ r[o] = 0}
           left == Living \ dead
<1>1. /\ born \in SUBSET Objects /\ dead \in SUBSET Objects /\ left \in SUBSET Objects
      /\ left \cup born = Living' /\ left \cap born = {} /\ Living \cap dead = dead
  BY DEF Update, Living, Lives, RefsCounted
<1>2. locks' = locks + Cardinality(born) - Cardinality(dead)
  BY DEF Update, Locking
<1> HIDE DEF born, dead, left
<1>3. /\ Cardinality(born) \in Nat /\ Cardinality(dead) \in Nat /\ Cardinality(left) \in Nat
      /\ IsFiniteSet(born) /\ IsFiniteSet(dead) /\ IsFiniteSet(left)
      /\ IsFiniteSet(Living) /\ Cardinality(Living) \in Nat
  BY <1>1, LivingFacts
<1>4. Cardinality(left) = Cardinality(Living) - Cardinality(dead)
  <2>1. left = Living \ dead
    BY DEF left
  <2> QED
    BY <1>1, <1>3, <2>1, FS_Difference
<1>5. Cardinality(Living') = Cardinality(left) + Cardinality(born)
  <2>1. Cardinality(left \cup born) = Cardinality(left) + Cardinality(born) - Cardinality(left \cap born)
    BY <1>3, FS_Union
  <2>2. Cardinality(left \cap born) = 0
    BY <1>1, FS_EmptySet
  <2>3. Cardinality(left \cup born) = Cardinality(left) + Cardinality(born)
    BY <1>3, <2>1, <2>2
  <2> QED
    BY <1>1, <2>3
<1>6. refs' = r /\ held' = h /\ UNCHANGED <<served, loaded>>
  BY DEF Update
<1> QED
  BY <1>2, <1>3, <1>4, <1>5, <1>6 DEF LocksCounted

LEMMA ObjectsInitInv == ObjectsInit => ObjectsInv
<1> SUFFICES ASSUME ObjectsInit PROVE ObjectsInv
  OBVIOUS
<1>1. Living = {}
  BY DEF ObjectsInit, Living, Lives
<1>2. Cardinality(Living) = 0
  BY <1>1, FS_EmptySet
<1>3. RefsCounted
  BY DEF ObjectsInit, RefsCounted, B, Lives, Objects
<1>4. LocksCounted
  <2>1. locks = 0 /\ served \in BOOLEAN /\ ~served
    BY DEF ObjectsInit
  <2>2. (IF served THEN 1 ELSE 0) = 0
    BY <2>1
  <2> QED
    BY <1>2, <2>1, <2>2 DEF LocksCounted
<1>5. UnloadedIsEmpty /\ OnlyOrphansDangle
  BY DEF ObjectsInit, UnloadedIsEmpty, OnlyOrphansDangle
<1> QED
  BY <1>3, <1>4, <1>5 DEF ObjectsInv

\* Whoever holds a reference keeps the module in memory.
LEMMA HeldIsLoaded ==
    ASSUME ObjectsInv, NEW o \in Objects, held[o] > 0
    PROVE  Lives(o) /\ loaded
BY DEF ObjectsInv, RefsCounted, UnloadedIsEmpty, Lives, B, Objects

LEMMA ObjectsStepInv == ObjectsInv /\ [ObjectsNext]_comVars => ObjectsInv'
<1> SUFFICES ASSUME ObjectsInv, [ObjectsNext]_comVars PROVE ObjectsInv'
  OBVIOUS
<1> USE DEF ObjectsInv
<1>a. ASSUME NEW r \in [Objects -> Nat], NEW h, Update(r, h), loaded,
             RefsCounted', OnlyOrphansDangle'
      PROVE  ObjectsInv'
  BY <1>a, UpdateLocks DEF UnloadedIsEmpty
<1>b. \A o \in Objects : refs[o] \in Nat /\ held[o] \in Nat
  BY DEF RefsCounted
<1>1. CASE DllGetClassObject
  <2> DEFINE r == [refs EXCEPT !["factory"] = 1]
  <2>1. r \in [Objects -> Nat] /\ Update(r, Given("factory")) /\ loaded /\ OnlyOrphansDangle'
    BY <1>1 DEF DllGetClassObject, RefsCounted, OnlyOrphansDangle
  <2>2. refs' = r /\ held' = Given("factory") /\ refs["factory"] = 0
    BY <1>1, <1>b DEF DllGetClassObject, Update, Lives, Objects
  <2>3. RefsCounted'
    BY <2>2, <1>b DEF RefsCounted, Given, B, Lives, Objects
  <2> QED
    BY <1>a, <2>1, <2>3
<1>2. CASE CreateInstance
  <2> DEFINE r == [refs EXCEPT !["filter"] = InstanceRefs, !["pin"] = 1]
  <2>1. r \in [Objects -> Nat] /\ Update(r, Given("filter")) /\ loaded /\ OnlyOrphansDangle'
    BY <1>2, HeldIsLoaded DEF CreateInstance, RefsCounted, OnlyOrphansDangle, InstanceRefs, Objects
  <2>2. refs' = r /\ held' = Given("filter") /\ refs["filter"] = 0 /\ refs["pin"] = 0
    BY <1>2, <1>b DEF CreateInstance, Update, Lives, Objects
  <2>3. RefsCounted'
    BY <2>2, <1>b DEF RefsCounted, Given, B, Lives, Objects, InstanceRefs
  <2> QED
    BY <1>a, <2>1, <2>3
<1>3. ASSUME NEW o \in Objects, AddRef(o) PROVE ObjectsInv'
  <2> DEFINE r == [refs EXCEPT ![o] = @ + 1]
  <2>1. r \in [Objects -> Nat] /\ Update(r, Given(o)) /\ loaded /\ OnlyOrphansDangle' /\ Lives(o)
    BY <1>3, HeldIsLoaded DEF AddRef, RefsCounted, OnlyOrphansDangle
  <2>2. refs' = r /\ held' = Given(o)
    BY <1>3 DEF AddRef, Update
  <2>3. RefsCounted'
    BY <2>1, <2>2, <1>b DEF RefsCounted, Given, B, Lives, Objects
  <2> QED
    BY <1>a, <2>1, <2>3
<1>4. ASSUME NEW o \in Objects, Release(o) PROVE ObjectsInv'
  <2> DEFINE own  == [refs EXCEPT ![o] = @ - 1]
             down == refs[o] = 1 /\ o \in {"filter", "pins"}
             r    == IF down /\ own["pin"] > 0 THEN [own EXCEPT !["pin"] = @ - 1] ELSE own
             h    == [held EXCEPT ![o] = @ - 1]
  <2>1. Lives(o) /\ loaded /\ held[o] > 0
    BY <1>4, HeldIsLoaded DEF Release
  <2>2. own \in [Objects -> Nat] /\ h \in [Objects -> Nat]
    BY <2>1 DEF RefsCounted, Lives
  <2>3. down => own["pin"] > 0 /\ own["pin"] = refs["pin"]
    BY <1>b, <2>1 DEF RefsCounted, B, Lives, Objects
  <2>4. r \in [Objects -> Nat]
    BY <2>2, <2>3 DEF Objects
  <2>5. Update(r, h) /\ refs' = r /\ held' = h
    BY <1>4 DEF Release, Update
  <2>6. OnlyOrphansDangle'
    BY <1>4, <2>3 DEF Release, OnlyOrphansDangle
  <2>7. RefsCounted'
    <3>1. CASE down
      BY <1>b, <2>1, <2>2, <2>3, <2>4, <2>5, <3>1 DEF RefsCounted, B, Lives, Objects
    <3>2. CASE ~down
      BY <1>b, <2>1, <2>2, <2>3, <2>4, <2>5, <3>2 DEF RefsCounted, B, Lives, Objects
    <3> QED
      BY <3>1, <3>2
  <2> QED
    BY <1>a, <2>1, <2>4, <2>5, <2>6, <2>7
<1>5. CASE EnumPins
  <2> DEFINE r == [PinKept EXCEPT !["pins"] = 1]
  <2>1. r \in [Objects -> Nat] /\ Update(r, Given("pins")) /\ loaded /\ OnlyOrphansDangle'
    BY <1>5, HeldIsLoaded DEF EnumPins, RefsCounted, OnlyOrphansDangle, PinKept, Objects
  <2>2. refs' = r /\ held' = Given("pins") /\ refs["pins"] = 0
    BY <1>5, <1>b DEF EnumPins, Update, Lives, Objects
  <2>3. RefsCounted'
    BY <2>2, <1>b DEF RefsCounted, Given, B, Lives, Objects, PinKept
  <2> QED
    BY <1>a, <2>1, <2>3
<1>6. CASE FindPin \/ NextPin
  <2> DEFINE r == [refs EXCEPT !["pin"] = @ + 1]
  <2>0. loaded /\ (Lives("filter") \/ Lives("pins"))
    BY <1>6, HeldIsLoaded DEF FindPin, NextPin, Objects
  <2>1. Lives("pin")
    BY <1>b, <2>0 DEF RefsCounted, B, Lives, Objects
  <2>2. r \in [Objects -> Nat] /\ Update(r, Given("pin")) /\ OnlyOrphansDangle'
    BY <1>6, <2>1 DEF FindPin, NextPin, RefsCounted, OnlyOrphansDangle, Objects
  <2>3. refs' = r /\ held' = Given("pin")
    BY <2>2 DEF Update
  <2>4. RefsCounted'
    BY <2>1, <2>3, <1>b DEF RefsCounted, Given, B, Lives, Objects
  <2> QED
    BY <1>a, <2>0, <2>2, <2>4
<1>7. CASE EnumMediaTypes
  <2> DEFINE r == [refs EXCEPT !["types"] = 1]
  <2>1. r \in [Objects -> Nat] /\ Update(r, Given("types")) /\ loaded /\ OnlyOrphansDangle'
    BY <1>7, HeldIsLoaded DEF EnumMediaTypes, RefsCounted, OnlyOrphansDangle, Parent, Objects
  <2>2. refs' = r /\ held' = Given("types") /\ refs["types"] = 0
    BY <1>7, <1>b DEF EnumMediaTypes, Update, Lives, Objects
  <2>3. RefsCounted'
    BY <2>2, <1>b DEF RefsCounted, Given, B, Lives, Objects
  <2> QED
    BY <1>a, <2>1, <2>3
<1>8. CASE QueryPinInfo
  <2>0. loaded /\ OnlyOrphansDangle'
    BY <1>8, HeldIsLoaded DEF QueryPinInfo, OnlyOrphansDangle, Parent, Objects
  <2>1. CASE Lives("filter")
    <3> DEFINE r == [refs EXCEPT !["filter"] = @ + 1]
    <3>1. r \in [Objects -> Nat] /\ Update(r, Given("filter"))
      BY <1>8, <2>1 DEF QueryPinInfo, RefsCounted, Objects
    <3>2. refs' = r /\ held' = Given("filter")
      BY <3>1 DEF Update
    <3>3. RefsCounted'
      BY <2>1, <3>2, <1>b DEF RefsCounted, Given, B, Lives, Objects
    <3> QED
      BY <1>a, <2>0, <3>1, <3>3
  <2>2. CASE ~Lives("filter")
    BY <1>8, <2>0, <2>2 DEF QueryPinInfo, RefsCounted, B, Lives, LocksCounted, Living, UnloadedIsEmpty
  <2> QED
    BY <2>1, <2>2
<1>9. CASE LockServer
  <2>1. UNCHANGED <<refs, held, loaded, touched, Living>>
    BY <1>9 DEF LockServer, Living, Lives
  <2>2. LocksCounted'
    <3>1. Cardinality(Living) \in Nat
      BY LivingFacts
    <3>2. served' \in BOOLEAN /\ (served' <=> ~served)
      BY <1>9 DEF LockServer
    <3>3. locks' = IF served THEN locks - 1 ELSE locks + 1
      BY <1>9 DEF LockServer
    <3>4. locks = Cardinality(Living) + (IF served THEN 1 ELSE 0)
      BY DEF LocksCounted
    <3>5. locks' = Cardinality(Living) + (IF served' THEN 1 ELSE 0)
      BY <3>1, <3>2, <3>3, <3>4
    <3> QED
      BY <2>1, <3>2, <3>5 DEF LocksCounted
  <2> QED
    BY <2>1, <2>2 DEF RefsCounted, UnloadedIsEmpty, OnlyOrphansDangle, B, Lives
<1>10. CASE DllCanUnloadNow
  <2>1. UNCHANGED <<refs, held, locks, served, touched, Living>>
    BY <1>10 DEF DllCanUnloadNow, Living, Lives
  <2>2. IsFiniteSet(Living) /\ Cardinality(Living) = 0
    BY <1>10, LivingFacts DEF DllCanUnloadNow, LocksCounted
  <2>3. Living = {}
    BY <2>2, FS_EmptySet
  <2> QED
    BY <2>1, <2>3 DEF RefsCounted, UnloadedIsEmpty, OnlyOrphansDangle, B, Lives, LocksCounted, Living
<1>11. CASE UNCHANGED comVars
  BY <1>11 DEF comVars, RefsCounted, UnloadedIsEmpty, OnlyOrphansDangle, B, Lives, LocksCounted, Living
<1> QED
  BY <1>1, <1>2, <1>3, <1>4, <1>5, <1>6, <1>7, <1>8, <1>9, <1>10, <1>11 DEF ObjectsNext

\* After Stop and Disconnect nothing is delivered, samples have the codec the pins agreed
\* on, and the COM objects are counted exactly, in any order of calls and releases.
THEOREM DshowHolds == Spec => []DshowSound
<1>1. Init => FilterInv /\ ObjectsInv
  BY FilterInitInv, ObjectsInitInv DEF Init
<1>2. FilterInv => FilterTypeOK /\ StoppedIsQuiet /\ NegotiatedCodec
  BY DEF FilterInv, WorkerExists, CodecKnown, StoppedIsQuiet, NegotiatedCodec
<1>3. ObjectsInv => NothingLeaks
  <2> SUFFICES ASSUME ObjectsInv, \A o \in Objects : held[o] = 0
               PROVE  (\A o \in Objects : ~Lives(o)) /\ locks = (IF served THEN 1 ELSE 0)
    BY DEF NothingLeaks
  <2>1. \A o \in Objects : ~Lives(o)
    BY DEF ObjectsInv, RefsCounted, B, Lives, Objects
  <2>2. Living = {}
    BY <2>1 DEF Living
  <2>3. Cardinality(Living) = 0
    BY <2>2, FS_EmptySet
  <2> QED
    BY <2>1, <2>3 DEF ObjectsInv, LocksCounted
<1>4. FilterInv /\ ObjectsInv => DshowSound
  BY <1>2, <1>3 DEF DshowSound, ObjectsInv
<1> QED
  BY <1>1, <1>4, HostSteps, FilterStepInv, ObjectsStepInv, PTL DEF Spec
-----------------------------------------------------------------------------
(* The selected machine and the downloader.  A live choice is also the remembered one, so
   that nothing read later outranks it; a run that downloads was forced, or found no
   library. *)
MachineInv == BeliefIsTrue /\ (live # NoMachine => remembered = live)

DownloadInv == fetch \in {"archive", "extract"} => force \/ so = "none"

LEMMA MachineStepInv ==
    ASSUME MachineInv, [MachineNext]_machineVars
    PROVE  /\ MachineInv'
           /\ slicerRuns /\ slicerRuns' /\ user_selected_machine # NoMachine =>
                  user_selected_machine' \in {user_selected_machine, live'}
<1> USE DEF MachineInv, BeliefIsTrue, user_selected_machine
<1>1. ASSUME NEW d \in Devs \cup {NoMachine}, set_user_selected_machine(d)
      PROVE  /\ MachineInv'
             /\ user_selected_machine # NoMachine =>
                    user_selected_machine' \in {user_selected_machine, live'}
  BY <1>1 DEF set_user_selected_machine, RememberMachine, Persist
<1>2. CASE set_config_dir
  BY <1>2 DEF set_config_dir, RememberMachine, Persist, Restored
<1>3. CASE LaunchSlicer \/ EndSlicer
  BY <1>3 DEF LaunchSlicer, EndSlicer
<1>4. CASE UNCHANGED machineVars
  BY <1>4 DEF machineVars
<1> QED
  BY <1>1, <1>2, <1>3, <1>4 DEF MachineNext, SelectMachine

LEMMA DownloadStepInv ==
    ASSUME DownloadInv, [DownloadNext]_downloadVars
    PROVE  DownloadInv' /\ (so = "whole" /\ so' # "whole" => force /\ fetch = "extract")
BY DEF DownloadInv, DownloadNext, StartFetch, fetch_plugin, Cached, http_get_file,
   unzip_extract_basename, RunKilled, downloadVars

\* What the store believes to be on disk is there, the file of an earlier session never
\* outranks a choice of this one, and only a forced run that unpacks gives up a whole
\* plugin, whatever fails and whenever the process ends.
THEOREM RestartsHold == Spec => KeptOverRestarts
<1> DEFINE wins == slicerRuns /\ slicerRuns' /\ user_selected_machine # NoMachine =>
                       user_selected_machine' \in {user_selected_machine, live'}
           kept == so = "whole" /\ so' # "whole" => force /\ fetch = "extract"
<1>1. Init => MachineInv /\ DownloadInv
  BY DEF Init, MachineInit, DownloadInit, MachineInv, DownloadInv, BeliefIsTrue
<1>2. MachineInv /\ [MachineNext]_machineVars => MachineInv' /\ [wins]_machineVars
  BY MachineStepInv
<1>3. DownloadInv /\ [DownloadNext]_downloadVars => DownloadInv' /\ [kept]_downloadVars
  BY DownloadStepInv
<1>4. MachineInv => BeliefIsTrue
  BY DEF MachineInv
<1>5. Spec => []BeliefIsTrue /\ [][wins]_machineVars /\ [][kept]_downloadVars
  <2> HIDE DEF wins, kept
  <2> QED
    BY <1>1, <1>2, <1>3, <1>4, HostSteps, PTL DEF Spec
<1> QED
  BY <1>5 DEF KeptOverRestarts, LiveChoiceWins, CachedPluginKept

-----------------------------------------------------------------------------
(* The camera's address.  A call that saw LAN liveview off does not try the LAN first, and
   past the probe it knows whether the printer streams RTSPS. *)
LvHints == {NoHint, "rtsps", "off"}
CamUrls == {NoAddress, Nowhere, "lan", "tutk"}
CamStates == [pc : {"idle", "route", "mint", "wait", "done"}, lan : BOOLEAN, lv : LvHints,
              off : BOOLEAN, first : BOOLEAN, url : CamUrls, refused : BOOLEAN]

CameraInv ==
    /\ cam \in CamStates /\ lvSeen \in LvHints /\ prefer \in BOOLEAN /\ pair \in BOOLEAN
    /\ camCalls \in Nat /\ answers \in Nat
    /\ cam.off => ~cam.first
    /\ cam.pc \in {"mint", "wait"} => (322 \in lanOpen => cam.lv # NoHint)
    /\ VideoWhenPossible /\ AnsweredOnce

LEMMA CameraInitInv == CameraInit => CameraInv
<1> SUFFICES ASSUME CameraInit PROVE CameraInv
  OBVIOUS
<1>1. cam \in CamStates /\ lvSeen \in LvHints
  BY DEF CameraInit, IdleCam, CamStates, LvHints, CamUrls
<1>2. cam.pc = "idle" /\ cam.off = FALSE
  BY DEF CameraInit, IdleCam
<1>3. VideoWhenPossible /\ AnsweredOnce
  BY <1>2 DEF CameraInit, VideoWhenPossible, AnsweredOnce
<1> QED
  BY <1>1, <1>2, <1>3 DEF CameraInit, CameraInv

\* The callback ends a call.
LEMMA DeliverFacts ==
    ASSUME CameraInv, NEW c \in CamStates, NEW u \in CamUrls, Deliver(c, u),
           c.off => ~c.first, UNCHANGED <<account, lanOpen>>,
           u = "lan" => /\ c.off => ~account \/ c.refused
                        /\ 322 \in lanOpen => c.lv # NoHint,
           UNCHANGED <<lvSeen, prefer, pair>>, camCalls' \in Nat, camCalls' = answers + 1
    PROVE  CameraInv'
<1>1. cam' = [c EXCEPT !.pc = "done", !.url = u] /\ answers' = answers + 1
  BY DEF Deliver
<1>2. cam' \in CamStates /\ cam'.pc = "done" /\ cam'.url = u /\ cam'.off = c.off
      /\ cam'.refused = c.refused /\ cam'.lv = c.lv /\ cam'.first = c.first
  BY <1>1 DEF CamStates
<1> QED
  BY <1>1, <1>2 DEF CameraInv, VideoWhenPossible, AnsweredOnce

LEMMA CallInv ==
    ASSUME CameraInv, NEW spawned \in BOOLEAN, get_camera_url(spawned)
    PROVE  CameraInv'
<1> DEFINE c == [IdleCam EXCEPT !.pc = "route", !.lan = pair, !.lv = lvSeen,
                                !.off = (lvSeen = "off"), !.first = LanFirst]
<1>1. \E o, f \in BOOLEAN :
          /\ c = [IdleCam EXCEPT !.pc = "route", !.lan = pair, !.lv = lvSeen, !.off = o, !.first = f]
          /\ o => ~f
  <2> WITNESS (lvSeen = "off") \in BOOLEAN, (prefer /\ lvSeen # "off") \in BOOLEAN
  <2> QED
    BY DEF LanFirst
<1>2. PICK o \in BOOLEAN, f \in BOOLEAN :
          /\ c = [IdleCam EXCEPT !.pc = "route", !.lan = pair, !.lv = lvSeen, !.off = o, !.first = f]
          /\ o => ~f
  BY <1>1
<1> HIDE DEF c
<1>3. c \in CamStates /\ c.pc = "route" /\ (c.off => ~c.first)
  BY <1>2 DEF IdleCam, CamStates, CameraInv, CamUrls
<1>4. /\ cam.pc \in {"idle", "done"} /\ camCalls' = camCalls + 1 /\ answers = camCalls
      /\ UNCHANGED <<account, lanOpen, lvSeen, prefer, pair>>
  BY DEF get_camera_url, Env, CameraInv, AnsweredOnce
<1>5. CASE spawned
  <2>1. cam' = c /\ UNCHANGED answers
    BY <1>5 DEF get_camera_url, c
  <2> QED
    BY <1>3, <1>4, <2>1 DEF CameraInv, VideoWhenPossible, AnsweredOnce
<1>6. CASE ~spawned
  <2>1. Deliver(c, NoAddress)
    BY <1>6 DEF get_camera_url, c
  <2>2. camCalls' \in Nat /\ camCalls' = answers + 1
    BY <1>4 DEF CameraInv
  <2> QED
    BY <1>3, <1>4, <2>1, <2>2, DeliverFacts DEF CamUrls, NoAddress
<1> QED
  BY <1>5, <1>6

LEMMA RouteInv == CameraInv /\ Route => CameraInv'
<1> SUFFICES ASSUME CameraInv, Route PROVE CameraInv'
  OBVIOUS
<1> DEFINE c == append_lv_hint(cam)
<1>1. /\ c \in CamStates /\ c.pc = "route" /\ (c.off => ~c.first)
      /\ (322 \in lanOpen => c.lv # NoHint) /\ cam.pc = "route" /\ ChooseRoute(c)
  <2>1. cam \in CamStates /\ cam.pc = "route" /\ (cam.off => ~cam.first) /\ ChooseRoute(c)
    BY DEF CameraInv, Route
  <2>2. CASE cam.lv = NoHint /\ 322 \in lanOpen
    <3>1. c = [cam EXCEPT !.lv = "rtsps"] /\ "rtsps" \in LvHints /\ "rtsps" # NoHint
      BY <2>2 DEF append_lv_hint, NoHint, LvHints
    <3> HIDE DEF c
    <3> QED
      BY <2>1, <3>1 DEF CamStates
  <2>3. CASE ~(cam.lv = NoHint /\ 322 \in lanOpen)
    <3>1. c = cam
      BY <2>3 DEF append_lv_hint
    <3> QED
      BY <2>1, <2>3, <3>1
  <2> QED
    BY <2>2, <2>3
<1>2. /\ UNCHANGED <<account, lanOpen, lvSeen, prefer, pair, camCalls>>
      /\ camCalls \in Nat /\ answers \in Nat /\ camCalls = answers + 1
  BY <1>1 DEF Route, Env, CameraInv, AnsweredOnce
<1> HIDE DEF c
<1>3. CASE Deliver(c, "lan") /\ (c.first \/ ~account)
  BY <1>1, <1>2, <1>3, DeliverFacts DEF CamUrls
<1>4. CASE Deliver(c, Nowhere)
  BY <1>1, <1>2, <1>4, DeliverFacts DEF CamUrls, Nowhere
<1>5. CASE cam' = [c EXCEPT !.pc = "mint"] /\ UNCHANGED answers
  <2>1. cam' \in CamStates /\ cam'.pc = "mint" /\ cam'.off = c.off /\ cam'.first = c.first
        /\ cam'.lv = c.lv
    BY <1>1, <1>5 DEF CamStates
  <2> QED
    BY <1>1, <1>2, <1>5, <2>1 DEF CameraInv, VideoWhenPossible, AnsweredOnce
<1> QED
  BY <1>1, <1>3, <1>4, <1>5 DEF ChooseRoute

LEMMA MintInv ==
    ASSUME CameraInv, NEW a \in TtcodeAnswers, Mint(a) \/ MintFails(a) \/ WaitReady
    PROVE  CameraInv'
<1>1. /\ UNCHANGED <<account, lanOpen, lvSeen, prefer, pair, camCalls>>
      /\ cam.pc \in {"mint", "wait"} /\ cam \in CamStates
      /\ camCalls \in Nat /\ answers \in Nat /\ camCalls = answers + 1
      /\ (cam.off => ~cam.first) /\ (322 \in lanOpen => cam.lv # NoHint)
  BY DEF Mint, MintFails, WaitReady, Env, CameraInv, AnsweredOnce
<1>2. CASE Mint(a)
  <2>1. cam' = [cam EXCEPT !.pc = "wait"] /\ UNCHANGED answers
    BY <1>2 DEF Mint
  <2>2. cam' \in CamStates /\ cam'.pc = "wait" /\ cam'.off = cam.off /\ cam'.first = cam.first
        /\ cam'.lv = cam.lv
    BY <1>1, <2>1 DEF CamStates
  <2> QED
    BY <1>1, <2>1, <2>2 DEF CameraInv, VideoWhenPossible, AnsweredOnce
<1>3. CASE MintFails(a)
  <2> DEFINE c == [cam EXCEPT !.refused = TRUE]
             u == IF cam.lan /\ ~cam.first /\ lan_camera_reachable(cam) THEN "lan" ELSE Nowhere
  <2>1. Deliver(c, u)
    BY <1>3 DEF MintFails
  <2>2. c \in CamStates /\ c.refused = TRUE /\ c.off = cam.off /\ c.first = cam.first /\ c.lv = cam.lv
        /\ u \in CamUrls
    BY <1>1 DEF CamStates, CamUrls, Nowhere
  <2> HIDE DEF c, u
  <2> QED
    BY <1>1, <2>1, <2>2, DeliverFacts
<1>4. CASE WaitReady
  <2>1. Deliver(cam, "tutk")
    BY <1>4 DEF WaitReady
  <2> QED
    BY <1>1, <2>1, DeliverFacts DEF CamUrls
<1> QED
  BY <1>2, <1>3, <1>4

LEMMA CameraStepInv == CameraInv /\ [CameraNext]_cameraVars => CameraInv'
<1> SUFFICES ASSUME CameraInv, [CameraNext]_cameraVars PROVE CameraInv'
  OBVIOUS
<1>1. CASE \/ \E arrives \in BOOLEAN : PrinterGets(arrives)
           \/ ServerEnds \/ HarvestReport \/ CoolsDown \/ UNCHANGED cameraVars
           \/ \E lv \in {"rtsps", "off"} : HarvestMediaCaps(lv)
  <2>1. UNCHANGED <<cam, camCalls, answers, prefer, pair, account, lanOpen>> /\ lvSeen' \in LvHints
    BY <1>1 DEF PrinterGets, ServerEnds, HarvestReport, CoolsDown, HarvestMediaCaps, cameraVars,
       Env, CameraInv, LvHints
  <2> QED
    BY <2>1 DEF CameraInv, VideoWhenPossible, AnsweredOnce
<1>2. "tutk" \in TtcodeAnswers
  BY DEF TtcodeAnswers
<1> QED
  BY <1>1, <1>2, CallInv, RouteInv, MintInv DEF CameraNext

\* Studio's callback is called once for each call on every path, and an address without
\* video is given only when there is no better one.
THEOREM CameraHolds == Spec => []CameraSound
<1>1. Init => CameraInv
  BY CameraInitInv DEF Init
<1>2. CameraInv => CameraSound
  BY DEF CameraInv, CameraSound
<1> QED
  BY <1>1, <1>2, HostSteps, CameraStepInv, PTL DEF Spec
-----------------------------------------------------------------------------
(* The plugin runner.  AgentGuard's pointer is set exactly while the agent lives; until the
   locals go, whatever a callback refers to exists, or stands among the late ones; and a
   print's exit code is chosen after its one answer. *)
Early == {"start", "load", "dir", "create"}
InMain == {"init", "connect", "settle", "kick", "params", "dispatch", "gap", "gapWait",
           "filament", "mwSettle", "camera", "cameraWait", "cameraJoin", "ft", "ftWait",
           "ftEnd", "wait", "teardown"}
Ends == {"return", "guard", "wipe", "exited"}
BeforePrint == Early \cup {"callbacks", "init", "connect", "settle", "kick", "params", "dispatch"}

GuardInv ==
    /\ at \in Early \cup {"callbacks"} \cup InMain \cup Ends
    /\ agent \in {"none", "live", "dead"} /\ guarded \in BOOLEAN
    /\ guarded <=> agent = "live"
    /\ at \in {"callbacks"} \cup InMain => agent = "live"
    /\ at \in Early => agent = "none"
    /\ at = "wipe" => agent # "live"

FramesInv ==
    /\ at \in Early \cup {"callbacks"} => unanswered = {}
    /\ at \in InMain \/ (at = "return" /\ agent = "live") => "latches" \in frames
    /\ at \notin Ends \ {"return"} =>
          /\ "subtask" \in unanswered => "probe" \in frames
          /\ "result" \in unanswered => "job" \in frames
    /\ unanswered \subseteq {"connect", "server", "update", "subtask", "url", "lateUrl", "result", "late"}
    /\ stale \subseteq {"early", "late"}

DirInv ==
    /\ opt \in CliArgs /\ dir \in {"none", "there", "gone"}
    /\ opt.dir # "scratch" => dir # "gone"
    /\ at = "exited" /\ opt.dir = "scratch" => dir # "there"
    /\ keepalive \in {"none", "running", "told", "ended"} /\ tries \in 0..(4 + MaxFtJobs)

PrintInv ==
    opt.action \in PrintActions =>
        /\ at \in BeforePrint \cup {"wait", "teardown"} \cup Ends
        /\ at \in BeforePrint => "update" \notin seen \cup unanswered
        /\ "update" \in seen => "update" \notin unanswered
        /\ at \in {"teardown"} \cup Ends /\ code = 0
              => status = "Finished" /\ "update" \notin unanswered

RunnerInv == GuardInv /\ FramesInv /\ DirInv /\ PrintInv

LEMMA RunnerInitInv == RunnerInit => RunnerInv
<1> SUFFICES ASSUME RunnerInit PROVE RunnerInv
  OBVIOUS
<1>1. GuardInv
  BY DEF RunnerInit, GuardInv, Early, InMain, Ends
<1>2. FramesInv
  BY DEF RunnerInit, FramesInv, Early, InMain, Ends
<1>3. DirInv
  BY RunnerConstants DEF RunnerInit, DirInv
<1>4. PrintInv
  BY DEF RunnerInit, PrintInv, BeforePrint, Early, Ends
<1> QED
  BY <1>1, <1>2, <1>3, <1>4 DEF RunnerInv

\* The agent and its guard.
LEMMA GuardStep ==
    ASSUME GuardInv, MainStep
    PROVE  GuardInv'
<1> USE DEF GuardInv, Early, InMain, Ends, Goto, Return, agentVars, fast_exit, TearDown, RcEnd,
        OwnEnd, Missing
<1>0. CASE create_agent
  <2>1. CASE UNCHANGED <<agent, guarded>> /\ at' = "return"
    BY <1>0, <2>1 DEF create_agent
  <2>2. CASE agent' = "live" /\ guarded' = TRUE /\ at' = "callbacks"
    BY <2>2
  <2> QED
    BY <1>0, <2>1, <2>2 DEF create_agent
<1>1. CASE \/ parse_cli \/ load \/ MakeDataDir \/ InstallCallbacks \/ StartAgent
           \/ connect_printer \/ SessionReady \/ Kickstart \/ load_print_params
  BY <1>1 DEF parse_cli, load, MakeDataDir, InstallCallbacks, StartAgent,
     connect_printer, SessionReady, Kickstart, load_print_params
<1>2. CASE QueryProbe \/ BindProbe \/ CertProbe \/ GapShapes \/ GapConnect \/ GapEnd
  BY <1>2 DEF QueryProbe, BindProbe, CertProbe, GapShapes, GapConnect, GapEnd
<1>3. CASE HttpProbe \/ FilamentProbe \/ SoftMatchProbe \/ RegionProbe \/ MinorsProbe
           \/ MwCall \/ MwSettled \/ MwEnd
  BY <1>3 DEF HttpProbe, FilamentProbe, SoftMatchProbe, RegionProbe, MinorsProbe,
     MwCall, MwSettled, MwEnd
<1>4. CASE \/ CameraBringUp \/ AskCameraUrl \/ CameraAttemptOver \/ CameraSettled \/ CameraEnd
           \/ FtConnect \/ FtJob \/ FtJobOver \/ FtEnd
  BY <1>4 DEF CameraBringUp, AskCameraUrl, CameraAttemptOver, CameraSettled, CameraEnd,
     FtConnect, FtJob, FtJobOver, FtEnd
<1>5. CASE send_raw \/ StartPrint \/ WaitFinished
  BY <1>5 DEF send_raw, StartPrint, WaitFinished
<1>8. CASE IdleAction
  BY <1>8 DEF IdleAction
<1>9. CASE LatchesGo
  BY <1>9 DEF LatchesGo
<1>10. CASE TmpdirGoes
  BY <1>10 DEF TmpdirGoes
<1>7. CASE Finish
  <2>1. CASE at' = "exited" /\ UNCHANGED <<agent, guarded>>
    BY <1>7, <2>1 DEF Finish
  <2>2. CASE TearDown /\ at' = "return"
    BY <1>7, <2>2 DEF Finish
  <2> QED
    BY <1>7, <2>1, <2>2 DEF Finish
<1>6. CASE AgentGuardGoes
  <2>1. at' = "wipe" /\ guarded' = FALSE /\ agent' = IF guarded THEN "dead" ELSE agent
    BY <1>6 DEF AgentGuardGoes
  <2> QED
    BY <2>1
<1> QED
  BY <1>0, <1>1, <1>6, <1>7, <1>8, <1>9, <1>10, <1>2, <1>3, <1>4, <1>5 DEF MainStep

\* The stack objects the callbacks refer to.
LEMMA FramesStep ==
    ASSUME GuardInv, FramesInv, MainStep
    PROVE  FramesInv'
<1> USE DEF GuardInv, FramesInv, Early, InMain, Ends, Goto, Return, agentVars, callVars, fast_exit,
        TearDown, RcEnd, OwnEnd, Missing
<1>1. CASE \/ parse_cli \/ load \/ MakeDataDir \/ create_agent \/ InstallCallbacks \/ StartAgent
           \/ connect_printer \/ SessionReady \/ Kickstart \/ load_print_params
  BY <1>1 DEF parse_cli, load, MakeDataDir, create_agent, InstallCallbacks, StartAgent,
     connect_printer, SessionReady, Kickstart, load_print_params
<1>2. CASE QueryProbe \/ BindProbe \/ CertProbe \/ GapShapes \/ GapConnect \/ GapEnd
  BY <1>2 DEF QueryProbe, BindProbe, CertProbe, GapShapes, GapConnect, GapEnd
<1>3. CASE HttpProbe \/ FilamentProbe \/ SoftMatchProbe \/ RegionProbe \/ MinorsProbe
           \/ MwCall \/ MwSettled \/ MwEnd
  BY <1>3 DEF HttpProbe, FilamentProbe, SoftMatchProbe, RegionProbe, MinorsProbe,
     MwCall, MwSettled, MwEnd, Abandon, FrameOf
<1>4. CASE \/ CameraBringUp \/ AskCameraUrl \/ CameraAttemptOver \/ CameraSettled \/ CameraEnd
  BY <1>4 DEF CameraBringUp, AskCameraUrl, CameraAttemptOver, CameraSettled, CameraEnd
<1>5. CASE FtConnect \/ FtJob \/ FtJobOver \/ FtEnd
  BY <1>5 DEF FtConnect, FtJob, FtJobOver, FtEnd, Abandon, FrameOf
<1>6. CASE \/ IdleAction \/ send_raw \/ StartPrint \/ WaitFinished \/ Finish
           \/ LatchesGo \/ AgentGuardGoes \/ TmpdirGoes
  BY <1>6 DEF IdleAction, send_raw, StartPrint, WaitFinished, Finish, LatchesGo, AgentGuardGoes,
     TmpdirGoes
<1> QED
  BY <1>1, <1>2, <1>3, <1>4, <1>5, <1>6 DEF MainStep

\* The data directory and the counters.
LEMMA DirStep ==
    ASSUME GuardInv, DirInv, MainStep
    PROVE  DirInv'
<1> USE RunnerConstants DEF GuardInv, DirInv, Goto, Return, loopVars, fast_exit, RcEnd, OwnEnd,
        Missing, Ephemeral, Early, InMain, Ends
<1>1. CASE \/ parse_cli \/ load \/ MakeDataDir \/ create_agent \/ InstallCallbacks \/ StartAgent
           \/ connect_printer \/ SessionReady \/ Kickstart \/ load_print_params
  BY <1>1 DEF parse_cli, load, MakeDataDir, create_agent, InstallCallbacks, StartAgent,
     connect_printer, SessionReady, Kickstart, load_print_params
<1>2. CASE QueryProbe \/ BindProbe \/ CertProbe \/ GapShapes \/ GapConnect \/ GapEnd
  BY <1>2 DEF QueryProbe, BindProbe, CertProbe, GapShapes, GapConnect, GapEnd
<1>3. CASE HttpProbe \/ FilamentProbe \/ SoftMatchProbe \/ RegionProbe \/ MinorsProbe
           \/ MwSettled \/ MwEnd
  BY <1>3 DEF HttpProbe, FilamentProbe, SoftMatchProbe, RegionProbe, MinorsProbe,
     MwSettled, MwEnd
<1>7. CASE MwCall \/ AskCameraUrl
  <2>1. tries < 4 /\ tries' = tries + 1 /\ at' \in {"mwSettle", "cameraWait"}
    BY <1>7 DEF MwCall, AskCameraUrl
  <2>2. tries' \in 0..(4 + MaxFtJobs)
    BY <2>1
  <2> QED
    BY <1>7, <2>1, <2>2 DEF MwCall, AskCameraUrl
<1>4. CASE \/ CameraBringUp \/ CameraAttemptOver \/ CameraSettled \/ CameraEnd
  BY <1>4 DEF CameraBringUp, CameraAttemptOver, CameraSettled, CameraEnd,
     StopKeepalive
<1>5. CASE FtConnect \/ FtJob \/ FtJobOver \/ FtEnd
  BY <1>5 DEF FtConnect, FtJob, FtJobOver, FtEnd
<1>6. CASE \/ IdleAction \/ send_raw \/ StartPrint \/ WaitFinished \/ Finish
           \/ LatchesGo \/ AgentGuardGoes \/ TmpdirGoes
  BY <1>6 DEF IdleAction, send_raw, StartPrint, WaitFinished, Finish, LatchesGo, AgentGuardGoes,
     TmpdirGoes, Wipes
<1> QED
  BY <1>1, <1>2, <1>3, <1>4, <1>5, <1>6, <1>7 DEF MainStep

\* A print's exit code.  The probes are not prints.
LEMMA PrintStep ==
    ASSUME PrintInv, MainStep
    PROVE  PrintInv'
<1> SUFFICES ASSUME opt.action \in PrintActions, opt' = opt PROVE PrintInv'
  <2>1. opt' = opt
    BY DEF MainStep, parse_cli, load, MakeDataDir, create_agent, InstallCallbacks, StartAgent,
       connect_printer, SessionReady, Kickstart, load_print_params, QueryProbe, BindProbe,
       CertProbe, GapShapes, GapConnect, GapEnd, HttpProbe, FilamentProbe, SoftMatchProbe,
       RegionProbe, MinorsProbe, MwCall, MwSettled, MwEnd, CameraBringUp, AskCameraUrl,
       CameraAttemptOver, CameraSettled, CameraEnd, FtConnect, FtJob, FtJobOver, FtEnd,
       IdleAction, send_raw, StartPrint, WaitFinished, Finish, LatchesGo, AgentGuardGoes,
       TmpdirGoes, Missing
  <2> QED
    BY <2>1 DEF PrintInv
<1> USE DEF PrintInv, PrintActions, BeforePrint, Early, Ends, Goto, Return, callVars, fast_exit
<1>1. CASE \/ parse_cli \/ load \/ MakeDataDir \/ create_agent \/ InstallCallbacks \/ StartAgent
           \/ connect_printer \/ SessionReady \/ Kickstart \/ load_print_params
  BY <1>1 DEF parse_cli, load, MakeDataDir, create_agent, InstallCallbacks, StartAgent,
     connect_printer, SessionReady, Kickstart, load_print_params
<1>2. ~(QueryProbe \/ BindProbe \/ CertProbe \/ GapShapes \/ GapConnect \/ GapEnd)
  BY DEF QueryProbe, BindProbe, CertProbe, GapShapes, GapConnect, GapEnd
<1>3. ~(\/ HttpProbe \/ FilamentProbe \/ SoftMatchProbe \/ RegionProbe \/ MinorsProbe
        \/ MwCall \/ MwSettled \/ MwEnd)
  BY DEF HttpProbe, FilamentProbe, SoftMatchProbe, RegionProbe, MinorsProbe,
     MwCall, MwSettled, MwEnd
<1>4. ~(\/ CameraBringUp \/ AskCameraUrl \/ CameraAttemptOver \/ CameraSettled \/ CameraEnd
        \/ FtConnect \/ FtJob \/ FtJobOver \/ FtEnd \/ IdleAction \/ send_raw)
  BY DEF CameraBringUp, AskCameraUrl, CameraAttemptOver, CameraSettled, CameraEnd,
     FtConnect, FtJob, FtJobOver, FtEnd, IdleAction, send_raw
<1>5. CASE StartPrint
  BY <1>5 DEF StartPrint, Missing
<1>7. CASE WaitFinished
  <2>1. at' = "teardown" /\ UNCHANGED <<seen, unanswered, status>> /\ at = "wait"
    BY <1>7 DEF WaitFinished
  <2>2. code' = 0 => "update" \in seen /\ status = "Finished"
    BY <1>7 DEF WaitFinished, ExitCode
  <2> QED
    BY <2>1, <2>2
<1>8. CASE Finish
  <2>1. /\ at = "teardown" /\ at' \in {"exited", "return"} /\ code' = code
        /\ UNCHANGED <<seen, unanswered, status>>
    BY <1>8 DEF Finish
  <2> QED
    BY <2>1
<1>6. CASE LatchesGo \/ AgentGuardGoes \/ TmpdirGoes
  BY <1>6 DEF LatchesGo, AgentGuardGoes, TmpdirGoes
<1> QED
  BY <1>1, <1>2, <1>3, <1>4, <1>5, <1>6, <1>7, <1>8 DEF MainStep

\* A callback of the plugin.
LEMMA CallbackStep ==
    ASSUME RunnerInv, NEW c, Callback(c)
    PROVE  RunnerInv'
<1> USE DEF RunnerInv, Callback
<1>1. GuardInv'
  BY DEF GuardInv, agentVars
<1>2. DirInv'
  BY DEF DirInv, loopVars
<1>3. PrintInv'
  <2>1. CASE c = "update"
    BY <2>1 DEF PrintInv
  <2>2. CASE c # "update"
    BY <2>2 DEF PrintInv
  <2> QED
    BY <2>1, <2>2
<1>4. FramesInv'
  <2>1. at \notin {"guard", "wipe"} /\ ~Alive(FrameOf(c)) => c = "late"
    BY DEF GuardInv, FramesInv, Early, InMain, Ends, Alive, FrameOf, CamState
  <2>2. stale' \subseteq {"early", "late"}
    BY <2>1 DEF FramesInv
  <2> QED
    BY <2>2 DEF FramesInv, agentVars
<1> QED
  BY <1>1, <1>2, <1>3, <1>4

LEMMA RunnerStepInv == RunnerInv /\ [RunnerNext]_runnerVars => RunnerInv'
<1> SUFFICES ASSUME RunnerInv, [RunnerNext]_runnerVars PROVE RunnerInv'
  OBVIOUS
<1>1. CASE MainStep
  BY <1>1, GuardStep, FramesStep, DirStep, PrintStep DEF RunnerInv
<1>2. CASE KeepaliveEnds
  BY <1>2 DEF KeepaliveEnds, RunnerInv, GuardInv, FramesInv, DirInv, PrintInv, agentVars, callVars
<1>3. CASE UNCHANGED runnerVars
  BY <1>3 DEF runnerVars, RunnerInv, GuardInv, FramesInv, DirInv, PrintInv
<1> QED
  BY <1>1, <1>2, <1>3, CallbackStep DEF RunnerNext

\* However main ends, the scratch directory is gone and the user's is not, the agent is
\* destroyed once, callbacks find their objects but for the named cases, and 0 means that
\* the print finished, for every command line and any number of jobs.
THEOREM RunnerHolds == Spec => []RunnerSound
<1>1. Init => RunnerInv
  BY RunnerInitInv DEF Init
<1>2. RunnerInv => RunnerSound
  <2> SUFFICES ASSUME RunnerInv PROVE RunnerSound
    OBVIOUS
  <2>1. RunnerTypeOK
    BY DEF RunnerInv, GuardInv, DirInv, RunnerTypeOK
  <2>2. ScratchDirGoes
    BY DEF RunnerInv, DirInv, ScratchDirGoes
  <2>3. AgentDestroyedOnce /\ CallbacksFindTheirState /\ SuccessIsReported
    BY DEF RunnerInv, GuardInv, FramesInv, PrintInv, Ends, AgentDestroyedOnce,
       CallbacksFindTheirState, SuccessIsReported
  <2> QED
    BY <2>1, <2>2, <2>3 DEF RunnerSound
<1> QED
  BY <1>1, <1>2, HostSteps, RunnerStepInv, PTL DEF Spec
-----------------------------------------------------------------------------
(* The macOS player.  At most one "arm" waits on the render queue and whatever follows it is
   the last block.  The pump is armed only while it is wanted, is about to park, or a stop
   that will disarm it is queued: so that, once close has drained the queue, nothing is left
   of the session. *)
CloseApis == {"take_close", "join_close", "stop_close", "drain_close", "end_close"}
OpenApis  == {"take_open", "join_open", "stop_open", "drain_open", "end_open", "opening"}
Rpcs == {"none", "loop", "read", "frame", "recover", "sync", "queue", "arm", "shown", "leave", "done"}
Joined_ == {"stop_close", "stop_open", "drain_close", "drain_open", "end_close", "end_open", "opening"}
Holding == {"read", "frame", "recover", "queue", "arm", "shown"}
Enders  == {"stop", "drain", "flush", "flushstop"}

PlayerTypes ==
    /\ PlayerTypeOK /\ sess \in 0..MaxSessions
    /\ api \in {"idle", "reap"} \cup CloseApis \cup OpenApis /\ rpc \in Rpcs

Sessions ==
    /\ tunnel \in {0, sess}
    /\ tunnel # 0 => alive = {tunnel} /\ api \in {"idle", "reap", "take_close", "take_open"}
    /\ api = "reap" => tunnel # 0
    /\ api \in OpenApis => sess < MaxSessions
    /\ api \in Joined_ => rpc = "none" /\ alive = {} /\ ~requested
    /\ rpc \in Holding => rtun \in alive
    /\ FormatOfSession

EndReports ==
    /\ reports \in {0, 1} /\ counted \in BOOLEAN /\ reported \in BOOLEAN
    /\ reported <=> reports = 1
    /\ reports = 1 => counted
    /\ api = "opening" \/ (api = "idle" /\ tunnel = 0) => (counted => reports = 1)

NoPump == rq = <<>> /\ ~armed /\ pump = "idle"

Queued(b) == rq = <<b>> \/ rq = <<"arm", b>>
ArmQueued == rq = <<"arm">> \/ \E b \in Enders : rq = <<"arm", b>>
StopQueued == Queued("stop") \/ Queued("flushstop")

RenderQueue ==
    /\ rq \in {<<>>, <<"arm">>} \cup {<<b>> : b \in Enders} \cup {<<"arm", b>> : b \in Enders}
    /\ Queued("stop") => api \in {"stop_close", "stop_open"}
    /\ Queued("drain") => rq = <<"drain">> /\ api \in {"drain_close", "drain_open"}
    /\ Queued("flush") \/ Queued("flushstop") => rpc = "sync"

PumpWanted ==
    /\ pump # "idle" => armed
    /\ ~requested /\ ~StopQueued => (armed => pump = "park") /\ ~ArmQueued /\ rpc # "arm"
    /\ armed /\ pump # "park" => ~ArmQueued /\ rpc # "arm"
    /\ ArmQueued => rpc # "arm"

Drained ==
    /\ api \in {"drain_close", "drain_open"} => pending = 0 /\ (rq = <<>> => NoPump)
    /\ api \in {"end_close", "end_open", "opening"} => pending = 0 /\ NoPump
    /\ api = "idle" /\ tunnel = 0 =>
           rpc = "none" /\ alive = {} /\ pending = 0 /\ ~requested /\ NoPump

PlayerInv == PlayerTypes /\ Sessions /\ EndReports /\ RenderQueue /\ PumpWanted /\ Drained

LEMMA PlayerInitInv == PlayerInit => PlayerInv
<1> SUFFICES ASSUME PlayerInit PROVE PlayerInv
  OBVIOUS
<1>0. /\ requested \in BOOLEAN /\ armed \in BOOLEAN /\ counted \in BOOLEAN /\ reported \in BOOLEAN
      /\ ~requested /\ ~armed /\ ~counted /\ ~reported
  BY DEF PlayerInit
<1>1. PlayerTypes
  <2>1. /\ tunnel \in 0..MaxSessions /\ alive \subseteq 1..MaxSessions /\ fmt \in 0..MaxSessions
        /\ pending \in 0..MaxPending /\ sess \in 0..MaxSessions
    BY PlayerAssumption DEF PlayerInit
  <2> QED
    BY <1>0, <2>1 DEF PlayerInit, PlayerTypes, PlayerTypeOK, Rpcs
<1>2. Sessions /\ EndReports
  BY <1>0 DEF PlayerInit, Sessions, EndReports, FormatOfSession, OpenApis, Joined_, Holding
<1>3. RenderQueue /\ PumpWanted /\ Drained
  BY DEF PlayerInit, RenderQueue, PumpWanted, Drained, Queued, ArmQueued, StopQueued, NoPump, Enders
<1> QED
  BY <1>1, <1>2, <1>3 DEF PlayerInv

\* The UI thread: sessions and reports.
LEMMA UiSessions ==
    ASSUME PlayerInv, OpenFirst \/ CloseBegin \/ PlayTake \/ UiStep
    PROVE  PlayerTypes' /\ Sessions' /\ EndReports'
<1> USE PlayerAssumption DEF PlayerInv, PlayerTypes, PlayerTypeOK, Sessions, EndReports,
        FormatOfSession, CloseApis, OpenApis, Joined_, Holding, Rpcs, readerVars, renderVars, After
<1>1. CASE OpenFirst
  BY <1>1 DEF OpenFirst, Drained
<1>2. CASE CloseBegin
  BY <1>2 DEF CloseBegin
<1>3. CASE PlayTake
  BY <1>3 DEF PlayTake
<1>4. CASE CloseTake
  BY <1>4 DEF CloseTake
<1>5. CASE CloseJoin
  BY <1>5 DEF CloseJoin, ReaderGone
<1>6. CASE CloseStopped
  BY <1>6 DEF CloseStopped
<1>7. CASE CloseDrained
  BY <1>7 DEF CloseDrained
<1>8. CASE fireSessionEndIfNeeded
  <2>1. PlayerTypes' /\ Sessions'
    BY <1>8 DEF fireSessionEndIfNeeded
  <2>2. CASE reported \/ ~counted
    BY <1>8, <2>2 DEF fireSessionEndIfNeeded
  <2>3. CASE ~(reported \/ ~counted)
    <3>1. reported' = TRUE /\ reports' = 1 /\ counted' = counted
      BY <1>8, <2>3 DEF fireSessionEndIfNeeded, LatchReport
    <3>2. reported' \in BOOLEAN /\ reported'
      BY <3>1
    <3> QED
      BY <2>1, <2>3, <3>1, <3>2
  <2> QED
    BY <2>1, <2>2, <2>3
<1>9. CASE OpenDone
  <2>1. CASE UNCHANGED <<tunnel, alive, sess, isMjpeg, reported, reports, fmt, counted>>
    BY <1>9, <2>1 DEF OpenDone, Drained
  <2>2. CASE /\ sess' = sess + 1 /\ tunnel' = sess + 1 /\ alive' = {sess + 1}
             /\ reported' = FALSE /\ reports' = 0 /\ counted' = FALSE /\ fmt' = 0
    <3>0. /\ reported' \in BOOLEAN /\ counted' \in BOOLEAN /\ ~reported' /\ ~counted'
          /\ UNCHANGED <<requested, armed, pending, layer, pump, rpc>> /\ api' = "idle"
      BY <1>9, <2>2 DEF OpenDone
    <3>1. sess' \in 1..MaxSessions
      BY <1>9, <2>2 DEF OpenDone
    <3>2. PlayerTypes'
      BY <2>2, <3>0, <3>1
    <3>3. Sessions'
      BY <1>9, <2>2, <3>1 DEF OpenDone
    <3>4. EndReports'
      BY <2>2, <3>0, <3>1
    <3> QED
      BY <3>2, <3>3, <3>4
  <2> QED
    BY <1>9, <2>1, <2>2 DEF OpenDone, FormatAtOpen
<1>10. CASE PlayStart
  BY <1>10 DEF PlayStart
<1> QED
  BY <1>1, <1>2, <1>3, <1>4, <1>5, <1>6, <1>7, <1>8, <1>9, <1>10 DEF UiStep

\* The reader: sessions and reports.
LEMMA ReaderSessions ==
    ASSUME PlayerInv, ReaderStep
    PROVE  PlayerTypes' /\ Sessions' /\ EndReports'
<1> USE PlayerAssumption DEF PlayerInv, PlayerTypes, PlayerTypeOK, Sessions, EndReports, Drained,
        FormatOfSession, CloseApis, OpenApis, Joined_, Holding, Rpcs, apiVars, renderVars
<1>1. CASE ReaderLoop
  BY <1>1 DEF ReaderLoop
<1>2. CASE ReadSample
  BY <1>2 DEF ReadSample
<1>8. CASE ReaderLeave
  BY <1>8 DEF ReaderLeave
<1>3. CASE EnqueueSample
  BY <1>3 DEF EnqueueSample, enqueueJpeg, enqueueAnnexB
<1>4. CASE QueueSampleForDisplay
  BY <1>4 DEF QueueSampleForDisplay, QueueFull
<1>5. CASE StartRenderPump
  BY <1>5 DEF StartRenderPump, Arm
<1>6. CASE CountFrame
  BY <1>6 DEF CountFrame
<1>7. CASE ReaderRecover
  <2>1. /\ rpc' = "sync" /\ pending' = 0 /\ requested' = FALSE
        /\ UNCHANGED <<api, tunnel, alive, sess, reported, reports, rtun, fmt, counted, armed, pump, layer>>
        /\ rpc = "recover"
    BY <1>7 DEF ReaderRecover
  <2>4. requested' \in BOOLEAN
    BY <2>1
  <2>2. PlayerTypes'
    BY <2>1, <2>4
  <2>3. Sessions' /\ EndReports'
    BY <2>1
  <2> QED
    BY <2>2, <2>3
<1>9. CASE ReaderRecovered
  BY <1>9 DEF ReaderRecovered
<1> QED
  BY <1>1, <1>2, <1>3, <1>4, <1>5, <1>6, <1>7, <1>8, <1>9 DEF ReaderStep

\* The render queue's own steps: sessions and reports.
LEMMA RenderSessions ==
    ASSUME PlayerInv, RenderStep \/ LayerDrains \/ LayerFails
    PROVE  PlayerTypes' /\ Sessions' /\ EndReports'
<1> USE PlayerAssumption DEF PlayerInv, PlayerTypes, PlayerTypeOK, Sessions, EndReports, Drained,
        FormatOfSession, apiVars, readerVars
<1>1. CASE RunBlock
  BY <1>1 DEF RunBlock
<1>2. CASE PumpBegin
  BY <1>2 DEF PumpBegin
<1>5. CASE LayerDrains
  BY <1>5 DEF LayerDrains
<1>6. CASE LayerFails
  BY <1>6 DEF LayerFails
<1>3. CASE PumpPark
  <2>1. armed' \in BOOLEAN /\ pump' = "idle"
    BY <1>3 DEF PumpPark
  <2> QED
    BY <1>3, <2>1 DEF PumpPark
<1>4. CASE PumpTurn
  <2>1. /\ UNCHANGED <<api, tunnel, alive, sess, reported, reports, rpc, rtun, fmt, counted>>
        /\ requested' = requested \/ requested' = FALSE
        /\ armed' = armed \/ armed' = (armed /\ ~requested)
        /\ layer' \in {"ready", "full", "failed"} /\ pump' \in {"idle", "loop", "park"}
    BY <1>4 DEF PumpTurn, ParkedRequest
  <2>2. pending' \in 0..MaxPending
    BY <1>4 DEF PumpTurn
  <2>3. requested' \in BOOLEAN /\ (requested' => requested) /\ armed' \in BOOLEAN
    <3>3. armed' \in BOOLEAN
      BY <2>1
    <3>1. CASE requested' = requested
      BY <3>1, <3>3
    <3>2. CASE requested' = FALSE
      BY <3>2, <3>3
    <3>4. requested' = requested \/ requested' = FALSE
      BY <2>1
    <3> QED
      BY <3>1, <3>2, <3>3, <3>4
  <2>4. PlayerTypes'
    BY <2>1, <2>2, <2>3
  <2>5. Sessions' /\ EndReports'
    BY <2>1, <2>3
  <2> QED
    BY <2>4, <2>5
<1> QED
  BY <1>1, <1>2, <1>3, <1>4, <1>5, <1>6 DEF RenderStep

\* The shapes the render queue can have are different ones.
LEMMA Shapes ==
    /\ \A b \in Enders : /\ <<>> # <<b>> /\ <<>> # <<"arm", b>>
                         /\ <<"arm">> # <<b>> /\ <<"arm">> # <<"arm", b>>
                         /\ Append(<<>>, b) = <<b>> /\ Append(<<"arm">>, b) = <<"arm", b>>
                         /\ Tail(<<b>>) = <<>> /\ Head(<<b>>) = b
    /\ \A b, c \in Enders : /\ <<b>> = <<c>> => b = c
                            /\ <<"arm", b>> = <<"arm", c>> => b = c
                            /\ <<b>> # <<"arm", c>>
    /\ <<>> # <<"arm">> /\ Tail(<<"arm">>) = <<>> /\ Append(<<>>, "arm") = <<"arm">>
<1>1. \A b \in Enders : <<>> # <<b>> /\ <<>> # <<"arm", b>> /\ <<"arm">> # <<b>> /\ <<"arm">> # <<"arm", b>>
  BY DEF Enders
<1>2. \A b, c \in Enders : /\ <<b>> = <<c>> => b = c
                           /\ <<"arm", b>> = <<"arm", c>> => b = c
                           /\ <<b>> # <<"arm", c>>
  BY DEF Enders
<1>3. ASSUME NEW b \in Enders \cup {"arm"}
      PROVE  Append(<<>>, b) = <<b>> /\ Head(<<b>>) = b
  OBVIOUS
<1>4. ASSUME NEW b \in Enders
      PROVE  Append(<<"arm">>, b) = <<"arm", b>>
  <2>1. <<"arm">> \in Seq(Enders \cup {"arm"}) /\ Len(<<"arm">>) = 1 /\ <<"arm">>[1] = "arm"
    OBVIOUS
  <2>2. <<"arm", b>> \in Seq(Enders \cup {"arm"}) /\ Len(<<"arm", b>>) = 2
        /\ <<"arm", b>>[1] = "arm" /\ <<"arm", b>>[2] = b
    OBVIOUS
  <2>3. /\ Append(<<"arm">>, b) \in Seq(Enders \cup {"arm"}) /\ Len(Append(<<"arm">>, b)) = 2
        /\ Append(<<"arm">>, b)[1] = "arm" /\ Append(<<"arm">>, b)[2] = b
    BY <2>1
  <2>4. \A i \in 1 .. 2 : Append(<<"arm">>, b)[i] = <<"arm", b>>[i]
    BY <2>2, <2>3
  <2> DEFINE x == Append(<<"arm">>, b)
             y == <<"arm", b>>
  <2>6. x \in Seq(Enders \cup {"arm"}) /\ y \in Seq(Enders \cup {"arm"}) /\ Len(x) = Len(y)
        /\ \A i \in 1 .. Len(x) : x[i] = y[i]
    BY <2>2, <2>3, <2>4
  <2> HIDE DEF x, y
  <2>7. x = y
    BY <2>6, SeqEqual
  <2> QED
    BY <2>7 DEF x, y
<1>5. ASSUME NEW b \in Enders \cup {"arm"}
      PROVE  Tail(<<b>>) = <<>>
  OBVIOUS
<1>6. <<>> # <<"arm">>
  OBVIOUS
<1> QED
  BY <1>1, <1>2, <1>3, <1>4, <1>5, <1>6

\* What waits on the queue, by its shape.
LEMMA QueueFacts ==
    ASSUME RenderQueue
    PROVE  /\ rq = <<>> => ~ArmQueued /\ \A b \in Enders : ~Queued(b)
           /\ rq = <<"arm">> => ArmQueued /\ \A b \in Enders : ~Queued(b)
           /\ \A b \in Enders : Queued(b) => rq # <<>> /\ rq # <<"arm">>
           /\ \A b, c \in Enders : Queued(b) /\ Queued(c) => b = c
           /\ (\A b \in Enders : ~Queued(b)) => rq \in {<<>>, <<"arm">>}
           /\ \A b \in Enders : Queued(b) => b \in {rq[i] : i \in DOMAIN rq}
<1> USE DEF Enders
<1>1. \A b \in Enders : <<>> # <<b>> /\ <<>> # <<"arm", b>> /\ <<"arm">> # <<b>> /\ <<"arm">> # <<"arm", b>>
  OBVIOUS
<1>2. \A b, c \in Enders : /\ <<b>> = <<c>> => b = c
                           /\ <<"arm", b>> = <<"arm", c>> => b = c
                           /\ <<b>> # <<"arm", c>>
  OBVIOUS
<1>3. \A b \in Enders : Queued(b) => b \in {rq[i] : i \in DOMAIN rq}
  BY DEF Queued
<1> HIDE DEF Enders
<1> QED
  BY <1>1, <1>2, <1>3 DEF RenderQueue, Queued, ArmQueued

\* The UI thread: the render queue.
LEMMA UiQueue ==
    ASSUME PlayerInv, OpenFirst \/ CloseBegin \/ PlayTake \/ UiStep
    PROVE  RenderQueue' /\ PumpWanted' /\ Drained'
<1> USE QueueFacts DEF PlayerInv, Sessions, Joined_, readerVars, renderVars, After, NoPump
<1> DEFINE same == UNCHANGED <<rq, pump, armed, requested, rpc>>
<1>a. ASSUME same, Queued("stop") => api' \in {"stop_close", "stop_open"},
             Queued("drain") => api' \in {"drain_close", "drain_open"}
      PROVE  RenderQueue' /\ PumpWanted'
  BY <1>a DEF RenderQueue, PumpWanted, Queued, ArmQueued, StopQueued
<1>1. CASE OpenFirst
  BY <1>1, <1>a DEF OpenFirst, RenderQueue, Drained, PlayerTypes, Enders
<1>2. CASE CloseBegin \/ PlayTake \/ CloseTake
  BY <1>2, <1>a DEF CloseBegin, PlayTake, CloseTake, RenderQueue, Drained
<1>3. CASE CloseJoin
  <2>1. /\ rpc \in {"none", "done"} /\ rpc' = "none" /\ requested' = FALSE
        /\ UNCHANGED <<pump, armed>> /\ api' \in {"stop_close", "stop_open"}
        /\ rq' = IF requested THEN Append(rq, "stop") ELSE rq
    BY <1>3 DEF CloseJoin, ReaderGone, MustStopPump
  <2>2. rq \in {<<>>, <<"arm">>}
    BY <1>3, <2>1 DEF CloseJoin, RenderQueue, Enders
  <2>3. CASE requested
    <3>0. "stop" \in Enders
      BY DEF Enders
    <3>1. rq' = Append(rq, "stop") /\ rq' \in {<<"stop">>, <<"arm", "stop">>}
      BY <2>1, <2>2, <2>3, <3>0, Shapes
    <3>2. RenderQueue'
      BY <2>1, <3>1 DEF RenderQueue, Queued, Enders
    <3>4. StopQueued'
      BY <3>1 DEF StopQueued, Queued
    <3>5. ArmQueued' => ArmQueued
      BY <2>2, <3>0, <3>1, Shapes DEF ArmQueued
    <3>3. PumpWanted'
      BY <2>1, <3>4, <3>5 DEF PumpWanted
    <3> QED
      BY <2>1, <3>2, <3>3 DEF Drained
  <2>4. CASE ~requested
    <3>1. rq = <<>> /\ rq' = <<>>
      BY <2>1, <2>2, <2>4 DEF PumpWanted, StopQueued, Enders
    <3>2. RenderQueue'
      BY <2>1, <3>1 DEF RenderQueue, Queued, Enders
    <3>3. ~StopQueued /\ ~ArmQueued'
      BY <3>1 DEF StopQueued, Queued, ArmQueued, Enders
    <3>4. PumpWanted'
      BY <2>1, <2>4, <3>3 DEF PumpWanted
    <3> QED
      BY <2>1, <3>2, <3>4 DEF Drained
  <2> QED
    BY <2>3, <2>4
<1>4. CASE CloseStopped
  <2>1. /\ api \in {"stop_close", "stop_open"} /\ api' \in {"drain_close", "drain_open"}
        /\ pending' = 0 /\ rq' = Append(rq, "drain") /\ UNCHANGED <<pump, armed, requested, rpc>>
        /\ "stop" \notin {rq[i] : i \in DOMAIN rq}
    BY <1>4 DEF CloseStopped
  <2>2. rpc = "none" /\ ~requested
    BY <2>1
  <2>3. \A b \in Enders : ~Queued(b)
    BY <2>1, <2>2 DEF RenderQueue, Enders
  <2>4. rq = <<>>
    BY <2>2, <2>3 DEF PumpWanted, StopQueued, Enders
  <2>5. rq' = <<"drain">>
    BY <2>1, <2>4
  <2>6. RenderQueue'
    <3>1. "drain" \in Enders /\ \A b \in {"stop", "flush", "flushstop"} : b \in Enders /\ b # "drain"
      BY DEF Enders
    <3>2. \A b \in {"stop", "flush", "flushstop"} : ~Queued(b)'
      BY <2>5, <3>1, Shapes DEF Queued
    <3> QED
      BY <2>1, <2>5, <3>1, <3>2 DEF RenderQueue
  <2>7. ~StopQueued /\ ~ArmQueued'
    BY <2>4, <2>5 DEF StopQueued, Queued, ArmQueued, Enders
  <2>8. PumpWanted'
    BY <2>1, <2>2, <2>7 DEF PumpWanted
  <2> QED
    BY <2>1, <2>5, <2>6, <2>8 DEF Drained
<1>5. CASE CloseDrained \/ fireSessionEndIfNeeded \/ OpenDone
  <2>1. /\ UNCHANGED <<rq, pump, armed, requested, rpc, pending>> /\ rq = <<>>
        /\ api' \in {"end_close", "end_open", "opening", "idle"} /\ api \in Joined_
    BY <1>5 DEF CloseDrained, fireSessionEndIfNeeded, OpenDone, Drained
  <2>2. NoPump /\ pending = 0
    BY <1>5, <2>1 DEF CloseDrained, fireSessionEndIfNeeded, OpenDone, Drained
  <2>3. RenderQueue' /\ PumpWanted'
    BY <1>a, <2>1 DEF Enders
  <2>4. api' = "idle" /\ tunnel' = 0 => alive' = {}
    BY <1>5 DEF CloseDrained, fireSessionEndIfNeeded, OpenDone, PlayerTypes
  <2> QED
    BY <2>1, <2>2, <2>3, <2>4 DEF Drained
<1>6. CASE PlayStart
  <2>1. /\ UNCHANGED <<rq, pump, armed, requested, pending>> /\ rpc \in {"none", "done"}
        /\ rpc' = "loop" /\ api = "reap" /\ api' = "idle" /\ tunnel' # 0
    BY <1>6 DEF PlayStart
  <2>2. RenderQueue'
    BY <2>1 DEF RenderQueue, Queued
  <2>3. PumpWanted'
    BY <2>1 DEF PumpWanted, StopQueued, ArmQueued, Queued
  <2> QED
    BY <2>1, <2>2, <2>3 DEF Drained
<1> QED
  BY <1>1, <1>2, <1>3, <1>4, <1>5, <1>6 DEF UiStep

\* The reader: the render queue.
LEMMA ReaderQueue ==
    ASSUME PlayerInv, ReaderStep
    PROVE  RenderQueue' /\ PumpWanted' /\ Drained'
<1> USE QueueFacts DEF PlayerInv, Sessions, Joined_, apiVars, renderVars, NoPump
<1>0. /\ UNCHANGED <<api, tunnel, alive>>
      /\ api \notin Joined_ /\ ~(api = "idle" /\ tunnel = 0) /\ rpc # "none"
  BY DEF ReaderStep, ReaderLoop, ReadSample, ReaderLeave, EnqueueSample, QueueSampleForDisplay,
     StartRenderPump, CountFrame, ReaderRecover, ReaderRecovered, Drained
<1>a. Drained'
  BY <1>0 DEF Drained
<1>b. ~Queued("stop") /\ ~Queued("drain")
  BY <1>0 DEF RenderQueue
<1>1. CASE ReaderLoop \/ ReadSample \/ ReaderLeave \/ EnqueueSample \/ CountFrame \/ ReaderRecovered
  <2>1. UNCHANGED <<rq, pump, armed, requested>> /\ rpc' # "arm"
    BY <1>1 DEF ReaderLoop, ReadSample, ReaderLeave, EnqueueSample, CountFrame, ReaderRecovered
  <2>2. ~Queued("flush") /\ ~Queued("flushstop")
    BY <1>1 DEF ReaderLoop, ReadSample, ReaderLeave, EnqueueSample, CountFrame, ReaderRecovered,
       RenderQueue, Enders
  <2>3. RenderQueue'
    BY <1>0, <2>1, <2>2 DEF RenderQueue, Queued
  <2>4. PumpWanted'
    BY <2>1 DEF PumpWanted, StopQueued, ArmQueued, Queued
  <2> QED
    BY <1>a, <2>3, <2>4
<1>2. CASE QueueSampleForDisplay
  <2>1. /\ UNCHANGED <<rq, pump, armed>> /\ requested' = TRUE /\ rpc = "queue"
        /\ rpc' = IF requested THEN "shown" ELSE "arm"
    BY <1>2 DEF QueueSampleForDisplay
  <2>2. ~Queued("flush") /\ ~Queued("flushstop")
    BY <2>1 DEF RenderQueue
  <2>3. RenderQueue'
    BY <1>0, <2>1, <2>2 DEF RenderQueue, Queued
  <2>4. UNCHANGED <<StopQueued, ArmQueued>> /\ ~StopQueued
    BY <1>b, <2>1, <2>2 DEF StopQueued, ArmQueued, Queued
  <2>5. PumpWanted'
    BY <2>1, <2>4 DEF PumpWanted
  <2> QED
    BY <1>a, <2>3, <2>5
<1>3. CASE StartRenderPump
  <2>1. /\ UNCHANGED <<pump, armed, requested>> /\ rpc = "arm" /\ rpc' = "shown"
        /\ rq' = Append(rq, "arm")
    BY <1>3 DEF StartRenderPump, Arm
  <2>2. \A b \in Enders : ~Queued(b)
    BY <1>b, <2>1 DEF RenderQueue, Enders
  <2>3. rq = <<>>
    BY <2>1, <2>2 DEF PumpWanted
  <2>4. rq' = <<"arm">>
    BY <2>1, <2>3
  <2>5. RenderQueue'
    BY <2>4 DEF RenderQueue, Queued, Enders
  <2>6. ~StopQueued
    BY <2>2 DEF StopQueued, Enders
  <2>7. requested /\ (armed => pump = "park")
    BY <2>1, <2>6 DEF PumpWanted
  <2>8. PumpWanted'
    BY <2>1, <2>7 DEF PumpWanted
  <2> QED
    BY <1>a, <2>5, <2>8
<1>4. CASE ReaderRecover
  <2>1. /\ UNCHANGED <<pump, armed>> /\ rpc = "recover" /\ rpc' = "sync" /\ requested' = FALSE
        /\ rq' = Append(rq, IF requested THEN "flushstop" ELSE "flush")
    BY <1>4 DEF ReaderRecover
  <2>2. \A b \in Enders : ~Queued(b)
    BY <1>b, <2>1 DEF RenderQueue, Enders
  <2>3. rq \in {<<>>, <<"arm">>}
    BY <2>2
  <2>4. CASE requested
    <3>0. "flushstop" \in Enders
      BY DEF Enders
    <3>1. rq' = Append(rq, "flushstop") /\ rq' \in {<<"flushstop">>, <<"arm", "flushstop">>}
      BY <2>1, <2>3, <2>4, <3>0, Shapes
    <3>2. RenderQueue'
      BY <2>1, <3>1 DEF RenderQueue, Queued, Enders
    <3>5. StopQueued'
      BY <3>1 DEF StopQueued, Queued
    <3>6. ArmQueued' => ArmQueued
      BY <2>3, <3>0, <3>1, Shapes DEF ArmQueued
    <3>3. StopQueued' /\ (ArmQueued' => ArmQueued)
      BY <3>5, <3>6
    <3>4. PumpWanted'
      BY <2>1, <3>3 DEF PumpWanted
    <3> QED
      BY <1>a, <3>2, <3>4
  <2>5. CASE ~requested
    <3>1. rq = <<>> /\ ~StopQueued
      BY <2>2, <2>3, <2>5 DEF PumpWanted, StopQueued, Enders
    <3>2. rq' = <<"flush">>
      BY <2>1, <2>5, <3>1
    <3>6. "flush" \in Enders /\ \A b \in {"stop", "drain", "flushstop"} : b \in Enders /\ b # "flush"
      BY DEF Enders
    <3>7. \A b \in {"stop", "drain", "flushstop"} : ~Queued(b)'
      BY <3>2, <3>6, Shapes DEF Queued
    <3>3. RenderQueue'
      BY <2>1, <3>2, <3>6, <3>7 DEF RenderQueue
    <3>4. ~ArmQueued'
      BY <3>2, <3>6, Shapes DEF ArmQueued
    <3>5. PumpWanted'
      BY <2>1, <2>5, <3>1, <3>4 DEF PumpWanted
    <3> QED
      BY <1>a, <3>3, <3>5
  <2> QED
    BY <2>4, <2>5
<1> QED
  BY <1>1, <1>2, <1>3, <1>4 DEF ReaderStep

\* The blocks of the render queue, the pump and the layer.
LEMMA RenderQueueSteps ==
    ASSUME PlayerInv, RenderStep \/ LayerDrains \/ LayerFails
    PROVE  RenderQueue' /\ PumpWanted' /\ Drained'
<1> USE QueueFacts DEF PlayerInv, apiVars, readerVars, NoPump
<1>1. CASE RunBlock
  <2>1. /\ pump = "idle" /\ pump' = "idle" /\ rq # <<>> /\ rq' = Tail(rq)
        /\ UNCHANGED <<api, tunnel, alive, rpc, requested, pending>>
        /\ armed' = CASE Head(rq) = "arm" -> TRUE
                       [] Head(rq) \in {"stop", "flushstop"} -> FALSE
                       [] OTHER -> armed
    BY <1>1 DEF RunBlock
  <2>2. CASE rq = <<"arm">>
    <3>1. rq' = <<>> /\ armed'
      BY <2>1, <2>2
    <3>2. ArmQueued /\ ~StopQueued
      BY <2>2 DEF StopQueued, Enders
    <3>3. requested /\ rpc # "arm"
      BY <3>2 DEF PumpWanted
    <3>6. ~ArmQueued' /\ \A b \in Enders : ~Queued(b)'
      BY <3>1, Shapes DEF ArmQueued, Queued
    <3>4. RenderQueue' /\ ~ArmQueued'
      BY <3>1, <3>6 DEF RenderQueue, Enders
    <3>5. PumpWanted'
      BY <2>1, <3>3, <3>4 DEF PumpWanted
    <3> QED
      BY <2>1, <3>3, <3>4, <3>5, <2>2 DEF Drained, Sessions, Joined_
  <2>3. ASSUME NEW b \in Enders, rq = <<"arm", b>> PROVE RenderQueue' /\ PumpWanted' /\ Drained'
    <3>1. rq' = <<b>> /\ armed'
      BY <2>1, <2>3
    <3>2. ArmQueued /\ Queued(b) /\ Queued(b)'
      BY <2>3, <3>1 DEF ArmQueued, Queued
    <3>3. b # "drain" /\ rpc # "arm"
      BY <2>3, <3>2 DEF RenderQueue, PumpWanted, Enders
    <3>4. ~ArmQueued' /\ \A c \in Enders : Queued(c)' <=> c = b
      BY <3>1 DEF ArmQueued, Enders, Queued
    <3>5. RenderQueue'
      BY <2>1, <3>1, <3>2, <3>3, <3>4 DEF RenderQueue, Enders
    <3>6. requested \/ StopQueued'
      BY <3>1, <3>2, <3>4, <2>3 DEF PumpWanted, StopQueued, Enders
    <3>7. PumpWanted'
      BY <2>1, <3>3, <3>4, <3>6 DEF PumpWanted
    <3>8. Drained'
      BY <2>1, <2>3, <3>1, <3>2, <3>3 DEF Drained, RenderQueue, Enders
    <3> QED
      BY <3>5, <3>7, <3>8
  <2>4. ASSUME NEW b \in Enders, rq = <<b>> PROVE RenderQueue' /\ PumpWanted' /\ Drained'
    <3>0. Head(rq) = b /\ Tail(rq) = <<>> /\ b # "arm"
      BY <2>4, Shapes DEF Enders
    <3>1. rq' = <<>> /\ armed' = IF b \in {"stop", "flushstop"} THEN FALSE ELSE armed
      BY <2>1, <3>0
    <3>2. Queued(b) /\ ~ArmQueued' /\ \A c \in Enders : ~Queued(c)'
      BY <2>4, <3>1 DEF ArmQueued, Queued, Enders
    <3>3. RenderQueue'
      BY <2>1, <3>1, <3>2 DEF RenderQueue, Enders
    <3>4. rpc # "arm" /\ (~requested => ~armed')
      BY <2>1, <2>4, <3>1, <3>2 DEF PumpWanted, RenderQueue, StopQueued, Enders, Sessions, Joined_
    <3>5. PumpWanted'
      BY <2>1, <3>2, <3>4 DEF PumpWanted
    <3>6. Drained'
      BY <2>1, <2>4, <3>1, <3>2, <3>4 DEF Drained, Sessions, Joined_
    <3> QED
      BY <3>3, <3>5, <3>6
  <2> QED
    BY <2>1, <2>2, <2>3, <2>4 DEF RenderQueue
<1>2. CASE PumpBegin
  <2>1. /\ pump = "idle" /\ armed /\ pump' = "loop"
        /\ UNCHANGED <<api, tunnel, alive, rpc, requested, pending, rq, armed>>
    BY <1>2 DEF PumpBegin
  <2>2. RenderQueue' /\ PumpWanted'
    BY <2>1 DEF RenderQueue, PumpWanted, StopQueued, ArmQueued, Queued
  <2> QED
    BY <2>1, <2>2 DEF Drained
<1>3. CASE PumpPark
  <2>1. /\ pump = "park" /\ pump' = "idle" /\ armed' = FALSE
        /\ UNCHANGED <<api, tunnel, alive, rpc, requested, pending, rq>>
    BY <1>3 DEF PumpPark
  <2>2. RenderQueue' /\ PumpWanted'
    BY <2>1 DEF RenderQueue, PumpWanted, StopQueued, ArmQueued, Queued
  <2> QED
    BY <2>1, <2>2 DEF Drained
<1>4. CASE LayerDrains \/ LayerFails
  <2>1. UNCHANGED <<api, tunnel, alive, rpc, requested, pending, rq, armed, pump>>
    BY <1>4 DEF LayerDrains, LayerFails
  <2> QED
    BY <2>1 DEF Drained, RenderQueue, PumpWanted, StopQueued, ArmQueued, Queued
<1>5. CASE PumpTurn
  <2>1. pump = "loop" /\ armed /\ UNCHANGED <<api, tunnel, alive, rpc, rq>>
    BY <1>5 DEF PumpTurn, PumpWanted
  <2>2. RenderQueue' /\ UNCHANGED <<StopQueued, ArmQueued>>
    BY <2>1 DEF RenderQueue, StopQueued, ArmQueued, Queued
  <2>3. ~ArmQueued /\ rpc # "arm" /\ (requested \/ StopQueued)
    BY <2>1 DEF PumpWanted
  <2>4. pending = 0 => pending' = 0
    BY <1>5 DEF PumpTurn, PlayerTypes, PlayerTypeOK
  <2>5. PumpWanted'
    <3>1. CASE layer = "full" \/ (layer = "ready" /\ pending # 0)
      <4>1. UNCHANGED <<requested, armed>> /\ pump' \in {"idle", "loop"}
        BY <1>5, <2>1, <3>1 DEF PumpTurn
      <4> QED
        BY <2>1, <2>2, <2>3, <4>1 DEF PumpWanted
    <3>2. CASE layer = "failed"
      <4>1. pump' = "idle" /\ requested' = FALSE /\ (armed' <=> armed /\ ~requested)
        BY <1>5, <3>2 DEF PumpTurn
      <4> QED
        BY <2>1, <2>2, <2>3, <4>1 DEF PumpWanted
    <3>3. CASE layer = "ready" /\ pending = 0
      <4>1. pump' = "park" /\ UNCHANGED armed
        BY <1>5, <3>3 DEF PumpTurn
      <4> QED
        BY <2>1, <2>2, <2>3, <4>1 DEF PumpWanted
    <3> QED
      BY <3>1, <3>2, <3>3 DEF PlayerTypes, PlayerTypeOK
  <2>6. ~(api \in {"end_close", "end_open", "opening"}) /\ ~(api = "idle" /\ tunnel = 0)
        /\ ~(api \in {"drain_close", "drain_open"} /\ rq = <<>>)
    BY <2>1 DEF Drained
  <2> QED
    BY <2>1, <2>2, <2>4, <2>5, <2>6 DEF Drained
<1> QED
  BY <1>1, <1>2, <1>3, <1>4, <1>5 DEF RenderStep

LEMMA PlayerStepInv == PlayerInv /\ [PlayerNext]_playerVars => PlayerInv'
<1> SUFFICES ASSUME PlayerInv, [PlayerNext]_playerVars PROVE PlayerInv'
  OBVIOUS
<1>1. CASE UNCHANGED playerVars
  BY <1>1 DEF playerVars, apiVars, readerVars, renderVars, PlayerInv, PlayerTypes, PlayerTypeOK,
     Sessions, EndReports, RenderQueue, PumpWanted, Drained, NoPump, StopQueued, ArmQueued, Queued,
     FormatOfSession
<1>2. CASE PlayerNext
  <2>1. PlayerTypes' /\ Sessions' /\ EndReports'
    BY <1>2, UiSessions, ReaderSessions, RenderSessions DEF PlayerNext
  <2>2. RenderQueue' /\ PumpWanted' /\ Drained'
    BY <1>2, UiQueue, ReaderQueue, RenderQueueSteps DEF PlayerNext
  <2> QED
    BY <2>1, <2>2 DEF PlayerInv
<1> QED
  BY <1>1, <1>2

\* Once close has returned nothing of a session is left, nothing of it is shown in the next
\* one, its end is reported exactly once, and no reader uses a tunnel that is destroyed, for
\* any number of sessions, frames and failures of the layer.
THEOREM PlayerHolds == Spec => []PlayerSound
<1>1. Init => PlayerInv
  BY PlayerInitInv DEF Init
<1>2. PlayerInv => PlayerSound
  BY DEF PlayerInv, PlayerTypes, Sessions, EndReports, Drained, NoPump, Holding, PlayerSound,
     TunnelOutlivesReader, QuietAfterClose, EndReportedOnce
<1> QED
  BY <1>1, <1>2, HostSteps, PlayerStepInv, PTL DEF Spec

-----------------------------------------------------------------------------
(* Binding.  A session that goes on has posted nothing or has the cloud's consent, and the
   ticket it keeps is the first that was reported. *)
BindTypes ==
    /\ bindPc \in {"idle", "session", "done"} /\ bindKind \in {"bind", "detect"}
    /\ ticket \in Tickets \cup {NoTicket} /\ cloudDone \in BOOLEAN
    /\ offered \in Seq(Reports)

TicketPosted ==
    /\ bindKind = "detect" => ticket = NoTicket
    /\ bindKind = "bind" => ticket = FirstTicket
    /\ posted \in {<<>>, <<ticket>>}
    /\ posted # <<>> => ticket # NoTicket /\ (bindPc = "session" => cloudDone)
    /\ bindPc = "idle" => posted = <<>> /\ ticket = NoTicket /\ FirstTicket = NoTicket

StagesTold == bindPc # "done" => stages = <<>>

BindInv == BindTypes /\ TicketPosted /\ StagesTold /\ BoundByCloud /\ FinishedOnce

LEMMA One == \A x : Append(<<>>, x) = <<x>>
OBVIOUS

\* The first report with a ticket, in any sequence of reports.
LEMMA FirstOf ==
    ASSUME NEW s \in Seq(Reports)
    PROVE  LET tickets == {i \in DOMAIN s : s[i].status = "wait_auth"}
               first == IF tickets = {} THEN NoTicket
                        ELSE s[CHOOSE i \in tickets : \A j \in tickets : i <= j].ticket
           IN  /\ (\A i \in 1..Len(s) : s[i].status # "wait_auth") => first = NoTicket
               /\ \A i \in 1..Len(s) :
                    s[i].status = "wait_auth"
                      /\ (\A j \in 1..Len(s) : s[j].status = "wait_auth" => i <= j)
                        => first = s[i].ticket
<1> DEFINE tickets == {i \in DOMAIN s : s[i].status = "wait_auth"}
           first == IF tickets = {} THEN NoTicket
                    ELSE s[CHOOSE i \in tickets : \A j \in tickets : i <= j].ticket
<1>1. DOMAIN s = 1..Len(s) /\ Len(s) \in Nat
  BY LenProperties
<1>2. ASSUME \A i \in 1..Len(s) : s[i].status # "wait_auth" PROVE first = NoTicket
  BY <1>1, <1>2
<1>3. ASSUME NEW i \in 1..Len(s), s[i].status = "wait_auth",
             \A j \in 1..Len(s) : s[j].status = "wait_auth" => i <= j
      PROVE  first = s[i].ticket
  <2>1. i \in tickets /\ \A j \in tickets : i <= j
    BY <1>1, <1>3
  <2>2. \A k \in tickets : (\A j \in tickets : k <= j) => k = i
    BY <1>1, <2>1
  <2>3. (CHOOSE k \in tickets : \A j \in tickets : k <= j) = i
    BY <2>1, <2>2
  <2> QED
    BY <2>1, <2>3
<1> QED
  BY <1>2, <1>3

LEMMA TicketIsFound ==
    ASSUME NEW s \in Seq(Reports), NEW i \in 1..Len(s), s[i].status = "wait_auth"
    PROVE  \E k \in 1..Len(s) :
               s[k].status = "wait_auth"
                 /\ \A j \in 1..Len(s) : s[j].status = "wait_auth" => k <= j
<1> DEFINE tickets == {k \in 1..Len(s) : s[k].status = "wait_auth"}
<1>1. tickets \subseteq Nat /\ tickets # {} /\ Len(s) \in Nat
  BY LenProperties
<1>2. PICK k \in tickets : \A j \in tickets : k <= j
  BY <1>1, LeastNumber
<1> QED
  BY <1>2

LEMMA FirstTicketKept ==
    ASSUME BindTypes, NEW r \in Reports, offered' = Append(offered, r),
           NoTicket \notin Tickets
    PROVE  /\ offered' \in Seq(Reports)
           /\ FirstTicket \in Tickets \cup {NoTicket}
           /\ r.status # "wait_auth" => FirstTicket' = FirstTicket
           /\ r.status = "wait_auth" =>
                /\ r.ticket \in Tickets
                /\ FirstTicket' = IF FirstTicket = NoTicket THEN r.ticket ELSE FirstTicket
<1>1. /\ offered' \in Seq(Reports) /\ Len(offered) \in Nat /\ Len(offered') = Len(offered) + 1
      /\ \A i \in 1..Len(offered) : offered'[i] = offered[i] /\ offered[i] \in Reports
      /\ offered'[Len(offered) + 1] = r
  BY AppendProperties, LenProperties, ElementOfSeq DEF BindTypes
<1>2. \A q \in Reports : /\ q.status = "wait_auth" => q.ticket \in Tickets
  BY DEF Reports
<1>3. /\ (\A i \in 1..Len(offered) : offered[i].status # "wait_auth") => FirstTicket = NoTicket
      /\ \A i \in 1..Len(offered) :
           offered[i].status = "wait_auth"
             /\ (\A j \in 1..Len(offered) : offered[j].status = "wait_auth" => i <= j)
               => FirstTicket = offered[i].ticket
  BY FirstOf DEF FirstTicket, BindTypes
<1>4. /\ (\A i \in 1..Len(offered') : offered'[i].status # "wait_auth") => FirstTicket' = NoTicket
      /\ \A i \in 1..Len(offered') :
           offered'[i].status = "wait_auth"
             /\ (\A j \in 1..Len(offered') : offered'[j].status = "wait_auth" => i <= j)
               => FirstTicket' = offered'[i].ticket
  BY <1>1, FirstOf DEF FirstTicket
<1>5. CASE \A i \in 1..Len(offered) : offered[i].status # "wait_auth"
  <2>1. FirstTicket = NoTicket
    BY <1>3, <1>5
  <2>2. \A j \in 1..Len(offered') : j \in 1..Len(offered) \/ j = Len(offered) + 1
    BY <1>1
  <2>3. ASSUME r.status # "wait_auth" PROVE FirstTicket' = NoTicket
    BY <1>1, <1>4, <1>5, <2>2, <2>3
  <2>4. ASSUME r.status = "wait_auth" PROVE FirstTicket' = r.ticket
    <3>1. Len(offered) + 1 \in 1..Len(offered')
      BY <1>1
    <3>2. \A j \in 1..Len(offered') : offered'[j].status = "wait_auth" => j = Len(offered) + 1
      BY <1>1, <1>5, <2>2
    <3> QED
      BY <1>1, <1>4, <2>4, <3>1, <3>2
  <2> QED
    BY <1>1, <1>2, <2>1, <2>3, <2>4
<1>6. ASSUME NEW i \in 1..Len(offered), offered[i].status = "wait_auth"
      PROVE  FirstTicket \in Tickets /\ FirstTicket' = FirstTicket
  <2>1. PICK k \in 1..Len(offered) :
           offered[k].status = "wait_auth"
             /\ \A j \in 1..Len(offered) : offered[j].status = "wait_auth" => k <= j
    BY <1>6, TicketIsFound DEF BindTypes
  <2>2. FirstTicket = offered[k].ticket
    BY <1>3, <2>1
  <2>3. k \in 1..Len(offered') /\ \A j \in 1..Len(offered') : j \in 1..Len(offered) \/ k <= j
    BY <1>1
  <2>4. offered'[k] = offered[k] /\ offered[k] \in Reports
    BY <1>1
  <2>5. \A j \in 1..Len(offered') : offered'[j].status = "wait_auth" => k <= j
    BY <1>1, <2>1, <2>3
  <2>6. FirstTicket' = offered'[k].ticket
    BY <1>4, <2>1, <2>3, <2>4, <2>5
  <2> QED
    BY <1>2, <2>1, <2>2, <2>4, <2>6
<1> QED
  BY <1>1, <1>2, <1>5, <1>6

LEMMA BindInitInv == BindInit => BindInv
<1> SUFFICES ASSUME BindInit PROVE BindInv
  OBVIOUS
<1>1. offered \in Seq(Reports) /\ Len(offered) = 0
  BY DEF BindInit
<1>2. FirstTicket = NoTicket
  BY <1>1, FirstOf DEF FirstTicket
<1> QED
  BY <1>1, <1>2 DEF BindInit, BindInv, BindTypes, TicketPosted, StagesTold, BoundByCloud,
     FinishedOnce

LEMMA BindStepInv == BindInv /\ [BindNext]_bindVars => BindInv'
<1> SUFFICES ASSUME BindInv, [BindNext]_bindVars PROVE BindInv'
  OBVIOUS
<1> USE DEF BindInv, BindTypes
<1>1. offered' = offered => FirstTicket' = FirstTicket
  BY DEF FirstTicket
<1>2. ASSUME NEW k \in {"bind", "detect"}, NEW ok \in BOOLEAN, BindStart(k, ok) PROVE BindInv'
  BY <1>1, <1>2, One DEF BindStart, Finished, TicketPosted, StagesTold, BoundByCloud, FinishedOnce
<1>3. ASSUME NEW r \in Reports, BindReport(r) PROVE BindInv'
  <2>1. /\ offered' = Append(offered, r) /\ bindPc = "session"
        /\ UNCHANGED <<bindKind, cloudDone, posted>>
    BY <1>3 DEF BindReport
  <2>2. /\ offered' \in Seq(Reports)
        /\ r.status # "wait_auth" => FirstTicket' = FirstTicket
        /\ r.status = "wait_auth" =>
             /\ r.ticket \in Tickets
             /\ FirstTicket' = IF FirstTicket = NoTicket THEN r.ticket ELSE FirstTicket
    BY <2>1, FirstTicketKept, BindAssumption
  <2>3. CASE r.status = "FAILURE"
    BY <1>3, <2>1, <2>2, <2>3, One DEF BindReport, BindEnds, Finished, TicketPosted, StagesTold,
       BoundByCloud, FinishedOnce
  <2>4. CASE r.status # "FAILURE" /\ bindKind = "detect"
    BY <1>3, <2>1, <2>2, <2>4, One DEF BindReport, BindEnds, Finished, TicketPosted, StagesTold,
       BoundByCloud, FinishedOnce
  <2>5. CASE r.status # "FAILURE" /\ bindKind = "bind"
    <3>1. ticket' = KeptTicket(r) /\ UNCHANGED <<bindPc, bindRc, stages>>
      BY <1>3, <2>5 DEF BindReport
    <3>2. ticket' = FirstTicket' /\ (ticket # NoTicket => ticket' = ticket)
      BY <2>2, <2>5, <3>1 DEF KeptTicket, TicketPosted
    <3> QED
      BY <2>1, <2>2, <2>5, <3>1, <3>2 DEF TicketPosted, StagesTold, BoundByCloud, FinishedOnce,
         KeptTicket
  <2> QED
    BY <2>3, <2>4, <2>5
<1>4. ASSUME NEW ok \in BOOLEAN, BindCloud(ok) PROVE BindInv'
  <2>1. /\ bindPc = "session" /\ ticket # NoTicket /\ ~cloudDone /\ posted' = Append(posted, ticket)
        /\ UNCHANGED <<bindKind, ticket, offered>>
    BY <1>4 DEF BindCloud, TicketPending
  <2>2. posted' = <<ticket>> /\ bindKind = "bind" /\ FirstTicket' = ticket'
    BY <1>1, <2>1, One DEF TicketPosted
  <2> QED
    BY <1>4, <2>1, <2>2, One DEF BindCloud, BindEnds, Finished, TicketPosted, StagesTold,
       BoundByCloud, FinishedOnce
<1>5. CASE BindPoll
  BY <1>1, <1>5, One DEF BindPoll, BindEnds, BothDone, Finished, TicketPosted, StagesTold,
     BoundByCloud, FinishedOnce
<1>6. CASE UNCHANGED bindVars
  BY <1>1, <1>6 DEF bindVars, TicketPosted, StagesTold, BoundByCloud, FinishedOnce
<1> QED
  BY <1>2, <1>3, <1>4, <1>5, <1>6 DEF BindNext

(* A binding: the printer is reported as bound only after the cloud took a ticket, the
   cloud is given one ticket, once, and that is the first the printer showed, and the dialog
   of the slicer is told the end once, with the result (lan_bind_tcp.cpp, bind_cloud.cpp):
   for any tickets, any number of reports and any deadline. *)
THEOREM BindingHolds == Spec => [](BoundByCloud /\ FinishedOnce)
<1>1. Init => BindInv
  BY BindInitInv DEF Init
<1>2. BindInv => BoundByCloud /\ FinishedOnce
  BY DEF BindInv
<1> QED
  BY <1>1, <1>2, BindStepInv, HostSteps, PTL DEF Spec
-----------------------------------------------------------------------------
(* The frames of a binding.  drain_frames is defined by recursion on the buffer: that there
   is such a function is shown from its approximations on buffers of at most n bytes. *)
ByteStrings == Seq(Nat)

DrainOf(f, b) ==
    LET c == From(b, FirstMagic(b))
    IN  CASE FirstMagic(b) = 0 -> [out |-> <<>>, rest |-> <<>>]
          [] FirstMagic(b) # 0 /\ Len(c) < 4 -> [out |-> <<>>, rest |-> Incomplete(c)]
          [] FirstMagic(b) # 0 /\ Len(c) >= 4 /\ Claimed(c) < 6 -> f[From(c, 3)]
          [] FirstMagic(b) # 0 /\ Len(c) >= 4 /\ Claimed(c) >= 6 /\ Len(c) < Claimed(c) ->
                 [out |-> <<>>, rest |-> Incomplete(c)]
          [] OTHER ->
                 IF WellEnded(c)
                 THEN LET d == f[From(c, Claimed(c) + 1)]
                      IN  [out |-> <<SubSeq(c, 5, Claimed(c) - 2)>> \o d.out, rest |-> d.rest]
                 ELSE f[From(c, 3)]

LEMMA FromIs ==
    ASSUME NEW b \in ByteStrings, NEW i \in 1..Len(b) + 1
    PROVE  /\ From(b, i) \in ByteStrings /\ Len(From(b, i)) = Len(b) - i + 1
           /\ \A k \in 1..Len(b) - i + 1 : From(b, i)[k] = b[i + k - 1]
<1>1. Len(b) \in Nat /\ i \in Int /\ Len(b) \in Int
  BY LenProperties DEF ByteStrings
<1>2. \A k \in i..Len(b) : b[k] \in Nat
  <2>1. \A k \in i..Len(b) : k \in 1..Len(b)
    BY <1>1
  <2> QED
    BY <2>1, ElementOfSeq DEF ByteStrings
<1>3. /\ SubSeq(b, i, Len(b)) \in Seq(Nat)
      /\ Len(SubSeq(b, i, Len(b))) = IF i <= Len(b) THEN Len(b) - i + 1 ELSE 0
      /\ \A k \in 1..Len(b) - i + 1 : SubSeq(b, i, Len(b))[k] = b[i + k - 1]
  BY <1>1, <1>2, SubSeqProperties
<1> QED
  BY <1>1, <1>3 DEF From, ByteStrings

LEMMA MagicIs ==
    ASSUME NEW b \in ByteStrings
    PROVE  /\ FirstMagic(b) = 0 \/ FirstMagic(b) \in 1..Len(b) - 1
           /\ FirstMagic(b) = 0 => \A i \in 1..Len(b) - 1 : ~IsMagic(b, i)
           /\ FirstMagic(b) # 0 => /\ IsMagic(b, FirstMagic(b))
                                   /\ \A i \in 1..FirstMagic(b) - 1 : ~IsMagic(b, i)
<1> DEFINE heads == {i \in 1..Len(b) - 1 : IsMagic(b, i)}
<1>1. Len(b) \in Nat /\ heads \in SUBSET Nat
  BY LenProperties DEF ByteStrings
<1>2. CASE heads = {}
  BY <1>2 DEF FirstMagic
<1>3. CASE heads # {}
  <2>1. \E i \in heads : \A j \in heads : i <= j
    BY <1>1, <1>3, LeastNumber
  <2>2. PICK m \in heads : m = FirstMagic(b) /\ \A j \in heads : m <= j
    BY <1>3, <2>1 DEF FirstMagic
  <2>3. \A i \in 1..m - 1 : i \in 1..Len(b) - 1 /\ ~(m <= i)
    BY <1>1, <2>2
  <2> QED
    BY <1>1, <2>2, <2>3
<1> QED
  BY <1>2, <1>3

LEMMA MagicAt ==
    ASSUME NEW b \in ByteStrings, NEW i \in 1..Len(b) - 1, IsMagic(b, i),
           \A j \in 1..i - 1 : ~IsMagic(b, j)
    PROVE  FirstMagic(b) = i
<1>1. Len(b) \in Nat
  BY LenProperties DEF ByteStrings
<1>2. FirstMagic(b) # 0
  BY MagicIs
<1>3. FirstMagic(b) \in 1..Len(b) - 1 /\ IsMagic(b, FirstMagic(b))
      /\ \A j \in 1..FirstMagic(b) - 1 : ~IsMagic(b, j)
  BY <1>2, MagicIs
<1> QED
  BY <1>1, <1>3

\* What the first magic bytes leave of a buffer.
LEMMA HeadIs ==
    ASSUME NEW b \in ByteStrings, FirstMagic(b) # 0, NEW c, c = From(b, FirstMagic(b))
    PROVE  /\ c \in ByteStrings /\ Len(c) \in Nat /\ Len(c) >= 2 /\ Len(c) <= Len(b)
           /\ Len(c) = Len(b) - FirstMagic(b) + 1
           /\ From(c, 3) \in ByteStrings /\ Len(From(c, 3)) = Len(c) - 2
           /\ Len(c) >= 4 => Claimed(c) \in Nat
           /\ Len(c) >= 4 /\ Claimed(c) <= Len(c) =>
                /\ From(c, Claimed(c) + 1) \in ByteStrings
                /\ Len(From(c, Claimed(c) + 1)) = Len(c) - Claimed(c)
<1>1. Len(b) \in Nat /\ FirstMagic(b) \in 1..Len(b) - 1 /\ FirstMagic(b) \in 1..Len(b) + 1
  BY LenProperties, MagicIs DEF ByteStrings
<1>2. c \in ByteStrings /\ Len(c) = Len(b) - FirstMagic(b) + 1
  BY <1>1, FromIs
<1>3. Len(c) \in Nat /\ Len(c) >= 2 /\ Len(c) <= Len(b) /\ 3 \in 1..Len(c) + 1
  BY <1>1, <1>2
<1>4. From(c, 3) \in ByteStrings /\ Len(From(c, 3)) = Len(c) - 2
  BY <1>2, <1>3, FromIs
<1>5. ASSUME Len(c) >= 4 PROVE Claimed(c) \in Nat
  <2>1. 3 \in 1..Len(c) /\ 4 \in 1..Len(c)
    BY <1>3, <1>5
  <2>2. c[3] \in Nat /\ c[4] \in Nat
    BY <1>2, <2>1, ElementOfSeq DEF ByteStrings
  <2> QED
    BY <2>2 DEF Claimed
<1>6. ASSUME Len(c) >= 4, Claimed(c) <= Len(c)
      PROVE  /\ From(c, Claimed(c) + 1) \in ByteStrings
             /\ Len(From(c, Claimed(c) + 1)) = Len(c) - Claimed(c)
  <2>1. PICK k \in Nat : k = Claimed(c)
    BY <1>5, <1>6
  <2>2. k + 1 \in 1..Len(c) + 1
    BY <1>3, <1>6, <2>1
  <2>3. From(c, k + 1) \in ByteStrings /\ Len(From(c, k + 1)) = Len(c) - (k + 1) + 1
    BY <1>2, <2>2, FromIs
  <2> QED
    BY <1>3, <2>1, <2>3
<1> QED
  BY <1>2, <1>3, <1>4, <1>5, <1>6

\* One step of the recursion looks at shorter buffers only.
LEMMA DrainsShorter ==
    ASSUME NEW b \in ByteStrings, NEW f, NEW g,
           \A x \in ByteStrings : Len(x) < Len(b) => f[x] = g[x]
    PROVE  DrainOf(f, b) = DrainOf(g, b)
<1>1. CASE FirstMagic(b) = 0
  BY <1>1 DEF DrainOf
<1>2. CASE FirstMagic(b) # 0
  <2>1. PICK c : c = From(b, FirstMagic(b))
    OBVIOUS
  <2>2. Len(b) \in Nat
    BY LenProperties DEF ByteStrings
  <2>3. f[From(c, 3)] = g[From(c, 3)]
    <3>1. Len(From(c, 3)) < Len(b)
      BY <1>2, <2>1, <2>2, HeadIs
    <3> QED
      BY <1>2, <2>1, <3>1, HeadIs
  <2>4. Len(c) >= 4 /\ Claimed(c) >= 6 /\ ~(Len(c) < Claimed(c)) =>
          f[From(c, Claimed(c) + 1)] = g[From(c, Claimed(c) + 1)]
    <3> SUFFICES ASSUME Len(c) >= 4, Claimed(c) >= 6, ~(Len(c) < Claimed(c))
                 PROVE  f[From(c, Claimed(c) + 1)] = g[From(c, Claimed(c) + 1)]
      OBVIOUS
    <3>1. Claimed(c) \in Nat /\ Len(c) \in Nat /\ Len(c) <= Len(b)
      BY <1>2, <2>1, HeadIs
    <3>2. Claimed(c) <= Len(c)
      BY <3>1
    <3>3. /\ From(c, Claimed(c) + 1) \in ByteStrings
          /\ Len(From(c, Claimed(c) + 1)) = Len(c) - Claimed(c)
      BY <1>2, <2>1, <3>2, HeadIs
    <3>4. Len(From(c, Claimed(c) + 1)) < Len(b)
      BY <2>2, <3>1, <3>3
    <3> QED
      BY <3>3, <3>4
  <2>5. Len(c) \in Nat /\ (Len(c) >= 4 => Claimed(c) \in Nat)
    BY <1>2, <2>1, HeadIs
  <2>6. CASE Len(c) < 4
    BY <1>2, <2>1, <2>5, <2>6 DEF DrainOf
  <2>7. CASE Len(c) >= 4 /\ Claimed(c) < 6
    BY <1>2, <2>1, <2>3, <2>5, <2>7 DEF DrainOf
  <2>8. CASE Len(c) >= 4 /\ Claimed(c) >= 6 /\ Len(c) < Claimed(c)
    BY <1>2, <2>1, <2>5, <2>8 DEF DrainOf
  <2>9. CASE Len(c) >= 4 /\ Claimed(c) >= 6 /\ ~(Len(c) < Claimed(c))
    BY <1>2, <2>1, <2>3, <2>4, <2>5, <2>9 DEF DrainOf
  <2> QED
    BY <2>5, <2>6, <2>7, <2>8, <2>9
<1> QED
  BY <1>1, <1>2

\* f drains every buffer of at most n bytes as drain_frames does.
DrainsTo(f, n) == \A b \in ByteStrings : Len(b) <= n => f[b] = DrainOf(f, b)

LEMMA DrainsAgree ==
    ASSUME NEW f, NEW g, NEW n \in Nat, NEW m \in Nat, DrainsTo(f, n), DrainsTo(g, m), n <= m
    PROVE  \A b \in ByteStrings : Len(b) <= n => f[b] = g[b]
<1> DEFINE S == {k \in Nat : \E b \in ByteStrings : Len(b) = k /\ k <= n /\ f[b] # g[b]}
<1> SUFFICES ASSUME S # {} PROVE FALSE
  <2>1. \A b \in ByteStrings : Len(b) \in Nat
    BY LenProperties DEF ByteStrings
  <2> QED
    BY <2>1
<1>1. S \in SUBSET Nat
  OBVIOUS
<1>2. PICK k \in S : \A j \in S : k <= j
  BY <1>1, LeastNumber
<1>3. PICK b \in ByteStrings : Len(b) = k /\ k <= n /\ f[b] # g[b] /\ k \in Nat
  BY <1>2
<1>4. ASSUME NEW x \in ByteStrings, Len(x) < Len(b) PROVE f[x] = g[x]
  <2>1. Len(x) \in Nat /\ Len(x) <= n /\ ~(k <= Len(x))
    BY <1>3, <1>4, LenProperties DEF ByteStrings
  <2> QED
    BY <1>2, <2>1
<1>5. DrainOf(f, b) = DrainOf(g, b)
  BY <1>4, DrainsShorter
<1>6. f[b] = DrainOf(f, b) /\ g[b] = DrainOf(g, b)
  BY <1>3 DEF DrainsTo
<1> QED
  BY <1>3, <1>5, <1>6

LEMMA DrainsExist ==
    ASSUME NEW n \in Nat
    PROVE  \E f : DrainsTo(f, n)
<1> DEFINE S == {k \in Nat : ~ \E f : DrainsTo(f, k)}
<1> SUFFICES ASSUME S # {} PROVE FALSE
  OBVIOUS
<1>1. S \in SUBSET Nat
  OBVIOUS
<1>2. PICK k \in S : \A j \in S : k <= j
  BY <1>1, LeastNumber
<1>3. k \in Nat /\ ~ \E f : DrainsTo(f, k)
  BY <1>2
<1>4. PICK f : k # 0 => DrainsTo(f, k - 1)
  <2>1. k # 0 => k - 1 \in Nat /\ k - 1 \notin S
    BY <1>2, <1>3
  <2> QED
    BY <2>1
<1> DEFINE g == [b \in ByteStrings |-> DrainOf(f, b)]
<1>5. ASSUME NEW b \in ByteStrings, Len(b) <= k PROVE g[b] = DrainOf(g, b)
  <2>1. ASSUME NEW x \in ByteStrings, Len(x) < Len(b) PROVE f[x] = g[x]
    <3>1. k # 0 /\ Len(x) <= k - 1
      BY <1>3, <1>5, <2>1, LenProperties DEF ByteStrings
    <3>2. f[x] = DrainOf(f, x)
      BY <1>4, <3>1 DEF DrainsTo
    <3> QED
      BY <3>2
  <2>2. g[b] = DrainOf(f, b)
    OBVIOUS
  <2> HIDE DEF g
  <2>3. DrainOf(f, b) = DrainOf(g, b)
    BY <2>1, DrainsShorter
  <2> QED
    BY <2>2, <2>3
<1>6. DrainsTo(g, k)
  BY <1>5 DEF DrainsTo
<1> QED
  BY <1>3, <1>6

LEMMA DrainIs == \A b \in ByteStrings : drain_frames[b] = DrainOf(drain_frames, b)
<1> DEFINE At(n) == CHOOSE f : DrainsTo(f, n)
           F == [b \in ByteStrings |-> At(Len(b))[b]]
<1>1. \A n \in Nat : DrainsTo(At(n), n)
  BY DrainsExist
<1>2. \A b \in ByteStrings : Len(b) \in Nat
  BY LenProperties DEF ByteStrings
<1>3. ASSUME NEW b \in ByteStrings PROVE F[b] = DrainOf(F, b)
  <2>1. PICK f : f = At(Len(b)) /\ DrainsTo(f, Len(b))
    BY <1>1, <1>2
  <2>2. ASSUME NEW x \in ByteStrings, Len(x) < Len(b) PROVE f[x] = F[x]
    <3>1. PICK h : h = At(Len(x)) /\ DrainsTo(h, Len(x))
      BY <1>1, <1>2
    <3>2. Len(x) <= Len(b)
      BY <1>2, <2>2
    <3>3. h[x] = f[x]
      BY <1>2, <2>1, <3>1, <3>2, DrainsAgree
    <3> QED
      BY <3>1, <3>3
  <2>3. F[b] = f[b]
    BY <2>1
  <2>4. f[b] = DrainOf(f, b)
    BY <1>2, <2>1 DEF DrainsTo
  <2> HIDE DEF F
  <2>5. DrainOf(f, b) = DrainOf(F, b)
    BY <2>2, DrainsShorter
  <2> QED
    BY <2>3, <2>4, <2>5
<1>4. \E f : f = [b \in ByteStrings |-> DrainOf(f, b)]
  <2>1. F = [b \in ByteStrings |-> DrainOf(F, b)]
    BY <1>3
  <2> QED
    BY <2>1
<1>5. drain_frames = CHOOSE f : f = [b \in ByteStrings |-> DrainOf(f, b)]
  BY DEF drain_frames, DrainOf, ByteStrings
<1>6. drain_frames = [b \in ByteStrings |-> DrainOf(drain_frames, b)]
  BY <1>4, <1>5
<1> QED
  BY <1>6

LEMMA NoMagic ==
    ASSUME NEW b \in ByteStrings, FirstMagic(b) = 0
    PROVE  drain_frames[b] = [out |-> <<>>, rest |-> <<>>]
BY DrainIs DEF DrainOf

\* The four things that can be done with the buffer from its first magic bytes on.
LEMMA Waits ==
    ASSUME NEW b \in ByteStrings, FirstMagic(b) # 0, NEW c, c = From(b, FirstMagic(b)),
           Len(c) < 4 \/ (Claimed(c) >= 6 /\ Len(c) < Claimed(c))
    PROVE  drain_frames[b] = [out |-> <<>>, rest |-> c]
<1>1. Len(c) \in Nat /\ (Len(c) >= 4 => Claimed(c) \in Nat)
  BY HeadIs
<1>2. drain_frames[b] = DrainOf(drain_frames, b)
  BY DrainIs
<1>3. CASE Len(c) < 4
  BY <1>1, <1>2, <1>3 DEF DrainOf, Incomplete
<1>4. CASE Len(c) >= 4 /\ Claimed(c) >= 6 /\ Len(c) < Claimed(c)
  BY <1>1, <1>2, <1>4 DEF DrainOf, Incomplete
<1> QED
  BY <1>1, <1>3, <1>4

LEMMA Skips ==
    ASSUME NEW b \in ByteStrings, FirstMagic(b) # 0, NEW c, c = From(b, FirstMagic(b)),
           Len(c) >= 4, Claimed(c) < 6 \/ (Claimed(c) <= Len(c) /\ ~WellEnded(c))
    PROVE  drain_frames[b] = drain_frames[From(c, 3)]
<1>1. Len(c) \in Nat /\ Claimed(c) \in Nat
  BY HeadIs
<1>2. drain_frames[b] = DrainOf(drain_frames, b)
  BY DrainIs
<1>3. CASE Claimed(c) < 6
  BY <1>1, <1>2, <1>3 DEF DrainOf
<1>4. CASE Claimed(c) >= 6 /\ Claimed(c) <= Len(c) /\ ~WellEnded(c)
  BY <1>1, <1>2, <1>4 DEF DrainOf
<1> QED
  BY <1>1, <1>3, <1>4

LEMMA Takes ==
    ASSUME NEW b \in ByteStrings, FirstMagic(b) # 0, NEW c, c = From(b, FirstMagic(b)),
           Len(c) >= 4, Claimed(c) >= 6, Claimed(c) <= Len(c), WellEnded(c)
    PROVE  /\ drain_frames[b].out = <<SubSeq(c, 5, Claimed(c) - 2)>>
                                   \o drain_frames[From(c, Claimed(c) + 1)].out
           /\ drain_frames[b].rest = drain_frames[From(c, Claimed(c) + 1)].rest
<1>1. Len(c) \in Nat /\ Claimed(c) \in Nat
  BY HeadIs
<1>2. drain_frames[b] = [out |-> <<SubSeq(c, 5, Claimed(c) - 2)>>
                                 \o drain_frames[From(c, Claimed(c) + 1)].out,
                         rest |-> drain_frames[From(c, Claimed(c) + 1)].rest]
  <2>1. drain_frames[b] = DrainOf(drain_frames, b)
    BY DrainIs
  <2> QED
    BY <1>1, <2>1 DEF DrainOf
<1> QED
  BY <1>2

LEMMA DrainTypes ==
    \A b \in ByteStrings : /\ drain_frames[b].out \in Seq(ByteStrings)
                           /\ drain_frames[b].rest \in ByteStrings
<1> DEFINE Good(b) == /\ drain_frames[b].out \in Seq(ByteStrings)
                      /\ drain_frames[b].rest \in ByteStrings
           S == {k \in Nat : \E b \in ByteStrings : Len(b) = k /\ ~Good(b)}
<1> SUFFICES ASSUME S # {} PROVE FALSE
  <2>1. \A b \in ByteStrings : Len(b) \in Nat
    BY LenProperties DEF ByteStrings
  <2> QED
    BY <2>1
<1>1. S \in SUBSET Nat
  OBVIOUS
<1>2. PICK k \in S : \A j \in S : k <= j
  BY <1>1, LeastNumber
<1>3. PICK b \in ByteStrings : Len(b) = k /\ ~Good(b) /\ k \in Nat
  BY <1>2
<1>4. \A x \in ByteStrings : Len(x) < Len(b) => Good(x)
  <2> SUFFICES ASSUME NEW x \in ByteStrings, Len(x) < Len(b), ~Good(x) PROVE FALSE
    OBVIOUS
  <2>1. Len(x) \in S /\ Len(x) \in Nat
    BY LenProperties DEF ByteStrings
  <2> QED
    BY <1>2, <1>3, <2>1
<1>5. <<>> \in Seq(ByteStrings) /\ <<>> \in ByteStrings
  BY DEF ByteStrings
<1>6. FirstMagic(b) # 0
  <2> SUFFICES ASSUME FirstMagic(b) = 0 PROVE FALSE
    OBVIOUS
  <2>1. drain_frames[b] = [out |-> <<>>, rest |-> <<>>]
    BY NoMagic
  <2> QED
    BY <1>3, <1>5, <2>1
<1>7. PICK c : c = From(b, FirstMagic(b))
  OBVIOUS
<1>8. c \in ByteStrings /\ Len(c) \in Nat /\ Len(c) <= Len(b) /\ (Len(c) >= 4 => Claimed(c) \in Nat)
      /\ Len(b) \in Nat
  BY <1>3, <1>6, <1>7, HeadIs
<1>9. ~(Len(c) < 4 \/ (Claimed(c) >= 6 /\ Len(c) < Claimed(c)))
  <2> SUFFICES ASSUME Len(c) < 4 \/ (Claimed(c) >= 6 /\ Len(c) < Claimed(c)) PROVE FALSE
    OBVIOUS
  <2>1. drain_frames[b] = [out |-> <<>>, rest |-> c]
    BY <1>6, <1>7, Waits
  <2> QED
    BY <1>3, <1>5, <1>8, <2>1
<1>10. ~(Claimed(c) < 6 \/ (Claimed(c) <= Len(c) /\ ~WellEnded(c)))
  <2> SUFFICES ASSUME Claimed(c) < 6 \/ (Claimed(c) <= Len(c) /\ ~WellEnded(c)) PROVE FALSE
    OBVIOUS
  <2>1. drain_frames[b] = drain_frames[From(c, 3)]
    BY <1>6, <1>7, <1>8, <1>9, Skips
  <2>2. From(c, 3) \in ByteStrings /\ Len(From(c, 3)) < Len(b)
    BY <1>6, <1>7, <1>8, HeadIs
  <2> QED
    BY <1>3, <1>4, <2>1, <2>2
<1>11. Len(c) >= 4 /\ Claimed(c) >= 6 /\ Claimed(c) <= Len(c) /\ WellEnded(c)
  BY <1>8, <1>9, <1>10
<1>12. PICK d : d = drain_frames[From(c, Claimed(c) + 1)]
  OBVIOUS
<1>13. d.out \in Seq(ByteStrings) /\ d.rest \in ByteStrings
  <2>1. /\ From(c, Claimed(c) + 1) \in ByteStrings
        /\ Len(From(c, Claimed(c) + 1)) = Len(c) - Claimed(c)
    BY <1>6, <1>7, <1>11, HeadIs
  <2>2. Len(From(c, Claimed(c) + 1)) < Len(b)
    BY <1>8, <1>11, <2>1
  <2> QED
    BY <1>4, <1>12, <2>1, <2>2
<1>14. SubSeq(c, 5, Claimed(c) - 2) \in ByteStrings
  <2>1. PICK n \in Nat : n = Claimed(c) /\ n <= Len(c)
    BY <1>8, <1>11
  <2>2. n - 2 \in Int /\ 5 \in Int
    BY <2>1
  <2>3. \A i \in 5..n - 2 : c[i] \in Nat
    <3>1. \A i \in 5..n - 2 : i \in 1..Len(c)
      BY <1>8, <2>1
    <3> QED
      BY <1>8, <3>1, ElementOfSeq DEF ByteStrings
  <2> QED
    BY <2>1, <2>2, <2>3, SubSeqProperties DEF ByteStrings
<1>15. <<SubSeq(c, 5, Claimed(c) - 2)>> \o d.out \in Seq(ByteStrings)
  BY <1>13, <1>14, ConcatProperties
<1>16. drain_frames[b].out \in Seq(ByteStrings) /\ drain_frames[b].rest \in ByteStrings
  <2> HIDE DEF S, Good
  <2>1. /\ drain_frames[b].out = <<SubSeq(c, 5, Claimed(c) - 2)>> \o d.out
        /\ drain_frames[b].rest = d.rest
    BY <1>6, <1>7, <1>11, <1>12, Takes
  <2> QED
    BY <1>13, <1>15, <2>1
<1> QED
  BY <1>3, <1>16

\* Only the buffer from its first magic bytes on counts.
LEMMA SameHead ==
    ASSUME NEW a \in ByteStrings, NEW b \in ByteStrings, FirstMagic(a) # 0, FirstMagic(b) # 0,
           From(a, FirstMagic(a)) = From(b, FirstMagic(b))
    PROVE  drain_frames[a] = drain_frames[b]
<1>1. DrainOf(drain_frames, a) = DrainOf(drain_frames, b)
  BY DEF DrainOf
<1> QED
  BY <1>1, DrainIs

LEMMA CatIs ==
    ASSUME NEW a \in ByteStrings, NEW b \in ByteStrings
    PROVE  /\ a \o b \in ByteStrings /\ Len(a) \in Nat /\ Len(b) \in Nat
           /\ Len(a \o b) = Len(a) + Len(b)
           /\ \A i \in 1..Len(a) : (a \o b)[i] = a[i]
           /\ \A i \in 1..Len(b) : (a \o b)[Len(a) + i] = b[i]
<1>1. Len(a) \in Nat /\ Len(b) \in Nat
  BY LenProperties DEF ByteStrings
<1>2. /\ a \o b \in Seq(Nat) /\ Len(a \o b) = Len(a) + Len(b)
      /\ \A i \in 1..Len(a) + Len(b) :
           (a \o b)[i] = IF i <= Len(a) THEN a[i] ELSE b[i - Len(a)]
  BY ConcatProperties DEF ByteStrings
<1>3. \A i \in 1..Len(a) : i \in 1..Len(a) + Len(b) /\ i <= Len(a)
  BY <1>1
<1>4. \A i \in 1..Len(b) : /\ Len(a) + i \in 1..Len(a) + Len(b) /\ ~(Len(a) + i <= Len(a))
                           /\ (Len(a) + i) - Len(a) = i
  BY <1>1
<1> QED
  BY <1>1, <1>2, <1>3, <1>4 DEF ByteStrings

LEMMA CatFrom ==
    ASSUME NEW a \in ByteStrings, NEW b \in ByteStrings, NEW i \in 1..Len(a) + 1
    PROVE  From(a \o b, i) = From(a, i) \o b
<1>1. PICK x : x = a \o b
  OBVIOUS
<1>2. PICK y : y = From(a, i)
  OBVIOUS
<1>3. /\ x \in ByteStrings /\ Len(a) \in Nat /\ Len(b) \in Nat /\ Len(x) = Len(a) + Len(b)
      /\ \A k \in 1..Len(a) : x[k] = a[k]
      /\ \A k \in 1..Len(b) : x[Len(a) + k] = b[k]
  BY <1>1, CatIs
<1>4. i \in 1..Len(x) + 1 /\ i \in Nat
  BY <1>3
<1>5. /\ From(x, i) \in ByteStrings /\ Len(From(x, i)) = Len(x) - i + 1
      /\ \A k \in 1..Len(x) - i + 1 : From(x, i)[k] = x[i + k - 1]
  BY <1>3, <1>4, FromIs
<1>6. /\ y \in ByteStrings /\ Len(y) = Len(a) - i + 1
      /\ \A k \in 1..Len(a) - i + 1 : y[k] = a[i + k - 1]
  BY <1>2, FromIs
<1>7. /\ y \o b \in ByteStrings /\ Len(y \o b) = Len(y) + Len(b)
      /\ \A k \in 1..Len(y) : (y \o b)[k] = y[k]
      /\ \A k \in 1..Len(b) : (y \o b)[Len(y) + k] = b[k]
  BY <1>6, CatIs
<1>8. Len(From(x, i)) = Len(y \o b)
  BY <1>3, <1>4, <1>5, <1>6, <1>7
<1>9. ASSUME NEW k \in 1..Len(From(x, i)) PROVE From(x, i)[k] = (y \o b)[k]
  <2>1. From(x, i)[k] = x[i + k - 1]
    BY <1>5
  <2>2. CASE k <= Len(y)
    <3>1. k \in 1..Len(y) /\ i + k - 1 \in 1..Len(a) /\ k \in 1..Len(a) - i + 1
      BY <1>3, <1>4, <1>6, <2>2
    <3> QED
      BY <1>3, <1>6, <1>7, <2>1, <3>1
  <2>3. CASE ~(k <= Len(y))
    <3>3. Len(y) \in Nat /\ k \in Nat
      BY <1>6, LenProperties DEF ByteStrings
    <3>1. PICK j \in Nat : j = k - Len(y)
      BY <2>3, <3>3
    <3>2. j \in 1..Len(b) /\ k = Len(y) + j /\ i + k - 1 = Len(a) + j
      BY <1>3, <1>4, <1>5, <1>6, <2>3, <3>1
    <3> QED
      BY <1>3, <1>7, <2>1, <3>2
  <2> QED
    BY <2>2, <2>3
<1>10. From(x, i) = y \o b
  BY <1>5, <1>7, <1>8, <1>9, SeqEqual DEF ByteStrings
<1> QED
  BY <1>1, <1>2, <1>10

LEMMA CatBeyond ==
    ASSUME NEW a \in ByteStrings, NEW b \in ByteStrings, NEW m \in 1..Len(b) + 1
    PROVE  From(a \o b, Len(a) + m) = From(b, m)
<1>1. PICK x : x = a \o b
  OBVIOUS
<1>2. /\ x \in ByteStrings /\ Len(a) \in Nat /\ Len(b) \in Nat /\ Len(x) = Len(a) + Len(b)
      /\ \A k \in 1..Len(b) : x[Len(a) + k] = b[k]
  BY <1>1, CatIs
<1>3. Len(a) + m \in 1..Len(x) + 1 /\ m \in Nat
  BY <1>2
<1>4. /\ From(x, Len(a) + m) \in ByteStrings
      /\ Len(From(x, Len(a) + m)) = Len(x) - (Len(a) + m) + 1
      /\ \A k \in 1..Len(x) - (Len(a) + m) + 1 :
           From(x, Len(a) + m)[k] = x[(Len(a) + m) + k - 1]
  BY <1>2, <1>3, FromIs
<1>5. /\ From(b, m) \in ByteStrings /\ Len(From(b, m)) = Len(b) - m + 1
      /\ \A k \in 1..Len(b) - m + 1 : From(b, m)[k] = b[m + k - 1]
  BY FromIs
<1>6. Len(x) - (Len(a) + m) + 1 = Len(b) - m + 1
  BY <1>2, <1>3
<1>7. ASSUME NEW k \in 1..Len(b) - m + 1 PROVE From(x, Len(a) + m)[k] = From(b, m)[k]
  <2>1. PICK j \in Nat : j = m + k - 1
    BY <1>2, <1>3
  <2>2. j \in 1..Len(b) /\ (Len(a) + m) + k - 1 = Len(a) + j
    BY <1>2, <1>3, <2>1
  <2> QED
    BY <1>2, <1>4, <1>5, <1>6, <2>1, <2>2
<1>9. Len(From(x, Len(a) + m)) = Len(b) - m + 1 /\ Len(From(b, m)) = Len(b) - m + 1
  BY <1>4, <1>5, <1>6
<1>8. From(x, Len(a) + m) = From(b, m)
  <2>1. From(x, Len(a) + m) \in Seq(Nat) /\ From(b, m) \in Seq(Nat)
    BY <1>4, <1>5 DEF ByteStrings
  <2>2. \A k \in 1..Len(From(x, Len(a) + m)) : From(x, Len(a) + m)[k] = From(b, m)[k]
    BY <1>7, <1>9
  <2> QED
    BY <1>9, <2>1, <2>2, SeqEqual
<1> QED
  BY <1>1, <1>8

\* The cut between the pieces a and b is not between two magic bytes.
CutApart(a, b) == ~(Len(a) > 0 /\ Len(b) > 0 /\ a[Len(a)] = A5 /\ b[1] = A5)

\* Draining a piece and then what it leaves with the next is draining both at once.
JoinsUp(a, b) ==
    LET p == drain_frames[a]
        q == drain_frames[p.rest \o b]
    IN  /\ drain_frames[a \o b].out = p.out \o q.out
        /\ drain_frames[a \o b].rest = q.rest

LEMMA JoinedBehindNothing ==
    ASSUME NEW a \in ByteStrings, NEW b \in ByteStrings, FirstMagic(a) = 0, CutApart(a, b)
    PROVE  JoinsUp(a, b)
<1>1. PICK x : x = a \o b
  OBVIOUS
<1>2. /\ x \in ByteStrings /\ Len(a) \in Nat /\ Len(b) \in Nat /\ Len(x) = Len(a) + Len(b)
      /\ \A k \in 1..Len(a) : x[k] = a[k]
      /\ \A k \in 1..Len(b) : x[Len(a) + k] = b[k]
  BY <1>1, CatIs
<1>3. drain_frames[a] = [out |-> <<>>, rest |-> <<>>]
  BY NoMagic
<1>4. <<>> \o b = b /\ <<>> \o drain_frames[b].out = drain_frames[b].out
  <2>1. drain_frames[b].out \in Seq(ByteStrings)
    BY DrainTypes
  <2> QED
    BY <2>1, ConcatEmptySeq DEF ByteStrings
<1>5. \A i \in 1..Len(a) : i <= Len(x) - 1 => ~IsMagic(x, i)
  <2> SUFFICES ASSUME NEW i \in 1..Len(a), i <= Len(x) - 1, IsMagic(x, i) PROVE FALSE
    OBVIOUS
  <2>1. x[i] = A5 /\ x[i + 1] = A5
    BY DEF IsMagic
  <2>2. CASE i < Len(a)
    <3>1. i \in 1..Len(a) - 1 /\ i + 1 \in 1..Len(a)
      BY <1>2, <2>2
    <3>2. IsMagic(a, i)
      BY <1>2, <2>1, <3>1 DEF IsMagic
    <3> QED
      BY <3>1, <3>2, MagicIs
  <2>3. CASE i = Len(a)
    <3>1. Len(a) > 0 /\ Len(b) > 0 /\ 1 \in 1..Len(b)
      BY <1>2, <2>3
    <3>2. a[Len(a)] = A5 /\ b[1] = A5
      BY <1>2, <2>1, <2>3, <3>1
    <3> QED
      BY <3>1, <3>2 DEF CutApart
  <2> QED
    BY <1>2, <2>2, <2>3
<1>6. CASE FirstMagic(b) = 0
  <2>1. \A i \in 1..Len(x) - 1 : ~IsMagic(x, i)
    <3> SUFFICES ASSUME NEW i \in 1..Len(x) - 1, ~(i \in 1..Len(a)), IsMagic(x, i) PROVE FALSE
      BY <1>5
    <3>0. i \in Nat /\ i > Len(a)
      BY <1>2
    <3>1. PICK j \in Nat : j = i - Len(a)
      <4>1. Len(a) \in Nat
        BY <1>2
      <4> QED
        BY <3>0, <4>1
    <3>2. j \in 1..Len(b) - 1 /\ j + 1 \in 1..Len(b) /\ i = Len(a) + j /\ i + 1 = Len(a) + (j + 1)
          /\ j \in 1..Len(b)
      BY <1>2, <3>1
    <3>3. IsMagic(b, j)
      BY <1>2, <3>2 DEF IsMagic
    <3> QED
      BY <1>6, <3>2, <3>3, MagicIs
  <2>2. FirstMagic(x) = 0
    BY <1>2, <2>1, MagicIs
  <2>3. drain_frames[x] = [out |-> <<>>, rest |-> <<>>] /\ drain_frames[b] = drain_frames[x]
    BY <1>2, <1>6, <2>2, NoMagic
  <2> QED
    BY <1>1, <1>3, <1>4, <2>3 DEF JoinsUp
<1>7. CASE FirstMagic(b) # 0
  <2>1. PICK m \in 1..Len(b) - 1 : m = FirstMagic(b) /\ IsMagic(b, m)
                                   /\ \A i \in 1..m - 1 : ~IsMagic(b, i)
    BY <1>7, MagicIs
  <2>2. PICK k \in Nat : k = Len(a) + m
    BY <1>2
  <2>3. k \in 1..Len(x) - 1 /\ m \in 1..Len(b) /\ m + 1 \in 1..Len(b) /\ k + 1 = Len(a) + (m + 1)
        /\ m \in 1..Len(b) + 1
    BY <1>2, <2>2
  <2>4. IsMagic(x, k)
    BY <1>2, <2>1, <2>2, <2>3 DEF IsMagic
  <2>5. \A i \in 1..k - 1 : ~IsMagic(x, i)
    <3> SUFFICES ASSUME NEW i \in 1..k - 1, ~(i \in 1..Len(a)), IsMagic(x, i) PROVE FALSE
      BY <1>2, <1>5, <2>3
    <3>0. i \in Nat /\ i > Len(a)
      <4>1. k \in Nat /\ i \in Nat /\ i >= 1 /\ ~(i <= Len(a))
        BY <1>2, <2>2
      <4> QED
        BY <1>2, <4>1
    <3>1. PICK j \in Nat : j = i - Len(a)
      <4>1. Len(a) \in Nat
        BY <1>2
      <4> QED
        BY <3>0, <4>1
    <3>2. j \in 1..m - 1 /\ j + 1 \in 1..Len(b) /\ i = Len(a) + j /\ i + 1 = Len(a) + (j + 1)
          /\ j \in 1..Len(b)
      BY <1>2, <2>2, <3>1
    <3>3. IsMagic(b, j)
      BY <1>2, <3>2 DEF IsMagic
    <3> QED
      BY <2>1, <3>2, <3>3
  <2>6. FirstMagic(x) = k /\ k # 0
    BY <1>2, <2>3, <2>4, <2>5, MagicAt
  <2>7. From(x, k) = From(b, m)
    BY <1>1, <2>2, <2>3, CatBeyond
  <2>8. drain_frames[x] = drain_frames[b]
    BY <1>2, <1>7, <2>1, <2>6, <2>7, SameHead
  <2>9. PICK p : p = drain_frames[a] /\ p.out = <<>> /\ p.rest = <<>>
    BY <1>3
  <2>10. p.rest \o b = b
    BY <1>4, <2>9
  <2>11. p.out \o drain_frames[b].out = drain_frames[b].out
    BY <1>4, <2>9
  <2> QED
    BY <1>1, <2>8, <2>9, <2>10, <2>11 DEF JoinsUp
<1> QED
  BY <1>6, <1>7

\* With magic bytes in a, both buffers have the same head and c \o b is what follows.
LEMMA CatHead ==
    ASSUME NEW a \in ByteStrings, NEW b \in ByteStrings, FirstMagic(a) # 0,
           NEW c, c = From(a, FirstMagic(a))
    PROVE  /\ FirstMagic(a \o b) = FirstMagic(a) /\ FirstMagic(a \o b) # 0
           /\ From(a \o b, FirstMagic(a \o b)) = c \o b
           /\ c \o b \in ByteStrings /\ Len(c \o b) = Len(c) + Len(b)
           /\ FirstMagic(c \o b) = 1 /\ From(c \o b, 1) = c \o b
           /\ Len(c) >= 4 => Claimed(c \o b) = Claimed(c)
           /\ Len(c) >= 4 /\ Claimed(c) >= 6 /\ Claimed(c) <= Len(c) =>
                /\ WellEnded(c \o b) <=> WellEnded(c)
                /\ SubSeq(c \o b, 5, Claimed(c) - 2) = SubSeq(c, 5, Claimed(c) - 2)
<1>1. PICK m \in 1..Len(a) - 1 : m = FirstMagic(a) /\ IsMagic(a, m)
                                 /\ \A i \in 1..m - 1 : ~IsMagic(a, i)
  BY MagicIs
<1>2. PICK x : x = a \o b
  OBVIOUS
<1>3. /\ x \in ByteStrings /\ Len(a) \in Nat /\ Len(b) \in Nat /\ Len(x) = Len(a) + Len(b)
      /\ \A k \in 1..Len(a) : x[k] = a[k]
  BY <1>2, CatIs
<1>4. m \in 1..Len(x) - 1 /\ m # 0 /\ \A i \in 1..m : i \in 1..Len(a) /\ i + 1 \in 1..Len(a)
  BY <1>1, <1>3
<1>5. IsMagic(x, m) /\ \A i \in 1..m - 1 : ~IsMagic(x, i)
  <2>1. \A i \in 1..m : x[i] = a[i] /\ x[i + 1] = a[i + 1]
    BY <1>3, <1>4
  <2>2. \A i \in 1..m : IsMagic(x, i) <=> IsMagic(a, i)
    BY <2>1 DEF IsMagic
  <2>3. m \in 1..m /\ \A i \in 1..m - 1 : i \in 1..m
    BY <1>1, <1>3
  <2> QED
    BY <1>1, <2>2, <2>3
<1>6. FirstMagic(x) = m
  BY <1>3, <1>4, <1>5, MagicAt
<1>7. /\ c \in ByteStrings /\ Len(c) \in Nat /\ Len(c) >= 2 /\ (Len(c) >= 4 => Claimed(c) \in Nat)
      /\ \A k \in 1..Len(c) : c[k] = a[m + k - 1] /\ c[k] \in Nat
  <2>1. m \in 1..Len(a) + 1
    BY <1>1, <1>3
  <2>2. Len(c) = Len(a) - m + 1 /\ \A k \in 1..Len(a) - m + 1 : c[k] = a[m + k - 1]
    BY <1>1, <2>1, FromIs
  <2>3. c \in ByteStrings /\ Len(c) \in Nat /\ Len(c) >= 2 /\ (Len(c) >= 4 => Claimed(c) \in Nat)
    BY HeadIs
  <2> QED
    BY <2>2, <2>3, ElementOfSeq DEF ByteStrings
<1>8. From(x, m) = c \o b
  <2>1. m \in 1..Len(a) + 1
    BY <1>1, <1>3
  <2> QED
    BY <1>1, <1>2, <2>1, CatFrom
<1>9. PICK e : e = c \o b
  OBVIOUS
<1>10. /\ e \in ByteStrings /\ Len(e) = Len(c) + Len(b)
       /\ \A k \in 1..Len(c) : e[k] = c[k]
  BY <1>7, <1>9, CatIs
<1>11. e[1] = A5 /\ e[2] = A5
  <2>1. 1 \in 1..Len(c) /\ 2 \in 1..Len(c) /\ m + 1 - 1 = m /\ m + 2 - 1 = m + 1
    BY <1>1, <1>7
  <2>2. c[1] = a[m] /\ c[2] = a[m + 1]
    BY <1>7, <2>1
  <2> QED
    BY <1>1, <1>10, <2>1, <2>2 DEF IsMagic
<1>12. FirstMagic(e) = 1
  <2>1. 1 \in 1..Len(e) - 1 /\ \A j \in 1..1 - 1 : ~IsMagic(e, j)
    BY <1>3, <1>7, <1>10
  <2>2. IsMagic(e, 1)
    BY <1>11 DEF IsMagic
  <2> QED
    BY <1>10, <2>1, <2>2, MagicAt
<1>13. From(e, 1) = e
  BY <1>10, SubSeqFull DEF From, ByteStrings
<1>14. Len(c) >= 4 => Claimed(e) = Claimed(c)
  <2> SUFFICES ASSUME Len(c) >= 4 PROVE Claimed(e) = Claimed(c)
    OBVIOUS
  <2>1. 3 \in 1..Len(c) /\ 4 \in 1..Len(c)
    BY <1>7
  <2> QED
    BY <1>10, <2>1 DEF Claimed
<1>15. ASSUME Len(c) >= 4, Claimed(c) >= 6, Claimed(c) <= Len(c)
       PROVE  /\ WellEnded(e) <=> WellEnded(c)
              /\ SubSeq(e, 5, Claimed(c) - 2) = SubSeq(c, 5, Claimed(c) - 2)
  <2>1. PICK n \in Nat : n = Claimed(c) /\ n >= 6 /\ n <= Len(c)
    BY <1>7, <1>15
  <2>2. n \in 1..Len(c) /\ n - 1 \in 1..Len(c) /\ n - 2 \in Int /\ 5 \in Int
    BY <2>1
  <2>3. WellEnded(e) <=> WellEnded(c)
    BY <1>10, <1>14, <1>15, <2>1, <2>2 DEF WellEnded
  <2>4. \A k \in 5..n - 2 : k \in 1..Len(c)
    BY <1>7, <2>1
  <2>5. \A k \in 5..n - 2 : e[k] = c[k] /\ c[k] \in Nat /\ e[k] \in Nat
    BY <1>7, <1>10, <2>4
  <2>6. /\ SubSeq(e, 5, n - 2) \in Seq(Nat)
        /\ Len(SubSeq(e, 5, n - 2)) = IF 5 <= n - 2 THEN n - 2 - 5 + 1 ELSE 0
        /\ \A i \in 1..n - 2 - 5 + 1 : SubSeq(e, 5, n - 2)[i] = e[5 + i - 1]
    BY <2>2, <2>5, SubSeqProperties
  <2>7. /\ SubSeq(c, 5, n - 2) \in Seq(Nat)
        /\ Len(SubSeq(c, 5, n - 2)) = IF 5 <= n - 2 THEN n - 2 - 5 + 1 ELSE 0
        /\ \A i \in 1..n - 2 - 5 + 1 : SubSeq(c, 5, n - 2)[i] = c[5 + i - 1]
    BY <2>2, <2>5, SubSeqProperties
  <2>8. \A i \in 1..Len(SubSeq(e, 5, n - 2)) : SubSeq(e, 5, n - 2)[i] = SubSeq(c, 5, n - 2)[i]
    <3> SUFFICES ASSUME NEW i \in 1..Len(SubSeq(e, 5, n - 2))
                 PROVE  SubSeq(e, 5, n - 2)[i] = SubSeq(c, 5, n - 2)[i]
      OBVIOUS
    <3>1. i \in 1..n - 2 - 5 + 1 /\ 5 + i - 1 \in 5..n - 2
      BY <2>1, <2>6
    <3> QED
      BY <2>5, <2>6, <2>7, <3>1
  <2>9. SubSeq(e, 5, n - 2) = SubSeq(c, 5, n - 2)
    BY <2>6, <2>7, <2>8, SeqEqual
  <2> QED
    BY <2>1, <2>3, <2>9
<1> QED
  BY <1>1, <1>2, <1>4, <1>6, <1>8, <1>9, <1>10, <1>12, <1>13, <1>14, <1>15

\* However a stream of bytes is cut, unless the cut parts two magic bytes none of which is kept.
THEOREM PiecesJoin ==
    \A a, b \in ByteStrings : drain_frames[a].rest # <<>> \/ CutApart(a, b) => JoinsUp(a, b)
<1> DEFINE Fine(a, b) == drain_frames[a].rest # <<>> \/ CutApart(a, b) => JoinsUp(a, b)
           S == {k \in Nat : \E a, b \in ByteStrings : Len(a) = k /\ ~Fine(a, b)}
<1> SUFFICES ASSUME S # {} PROVE FALSE
  <2>1. \A a \in ByteStrings : Len(a) \in Nat
    BY LenProperties DEF ByteStrings
  <2> QED
    BY <2>1
<1>1. S \in SUBSET Nat
  OBVIOUS
<1>2. PICK k \in S : \A j \in S : k <= j
  BY <1>1, LeastNumber
<1>3. PICK a \in ByteStrings, b \in ByteStrings : Len(a) = k /\ ~Fine(a, b) /\ k \in Nat
  BY <1>2
<1>4. \A x \in ByteStrings : Len(x) < Len(a) => Fine(x, b)
  <2> SUFFICES ASSUME NEW x \in ByteStrings, Len(x) < Len(a), ~Fine(x, b) PROVE FALSE
    OBVIOUS
  <2>1. Len(x) \in S /\ Len(x) \in Nat
    BY LenProperties DEF ByteStrings
  <2> QED
    BY <1>2, <1>3, <2>1
<1>5. (drain_frames[a].rest # <<>> \/ CutApart(a, b)) /\ ~JoinsUp(a, b)
  BY <1>3
<1> HIDE DEF S
<1>6. FirstMagic(a) # 0
  <2> SUFFICES ASSUME FirstMagic(a) = 0 PROVE FALSE
    OBVIOUS
  <2>1. drain_frames[a].rest = <<>>
    BY NoMagic
  <2> QED
    BY <1>5, <2>1, JoinedBehindNothing
<1>7. PICK c : c = From(a, FirstMagic(a))
  OBVIOUS
<1>8. /\ c \in ByteStrings /\ Len(c) \in Nat /\ Len(c) >= 2 /\ Len(c) <= Len(a)
      /\ (Len(c) >= 4 => Claimed(c) \in Nat)
      /\ Len(a) \in Nat /\ Len(b) \in Nat
  BY <1>6, <1>7, HeadIs, CatIs
<1>9. PICK x : x = a \o b
  OBVIOUS
<1>10. PICK e : e = c \o b
  OBVIOUS
<1>11. /\ x \in ByteStrings /\ FirstMagic(x) # 0 /\ From(x, FirstMagic(x)) = e
       /\ e \in ByteStrings /\ Len(e) = Len(c) + Len(b)
       /\ FirstMagic(e) = 1 /\ From(e, 1) = e
       /\ (Len(c) >= 4 => Claimed(e) = Claimed(c))
       /\ (Len(c) >= 4 /\ Claimed(c) >= 6 /\ Claimed(c) <= Len(c) =>
                /\ WellEnded(e) <=> WellEnded(c)
                /\ SubSeq(e, 5, Claimed(c) - 2) = SubSeq(c, 5, Claimed(c) - 2))
  <2>1. a \o b \in ByteStrings /\ c \o b \in ByteStrings /\ Len(c \o b) = Len(c) + Len(b)
    BY <1>8, CatIs
  <2> HIDE DEF Fine
  <2>2. /\ FirstMagic(a \o b) # 0 /\ From(a \o b, FirstMagic(a \o b)) = c \o b
        /\ FirstMagic(c \o b) = 1 /\ From(c \o b, 1) = c \o b
        /\ (Len(c) >= 4 => Claimed(c \o b) = Claimed(c))
    <3>1. FirstMagic(a \o b) # 0
      BY <1>6, <1>7, CatHead
    <3>2. From(a \o b, FirstMagic(a \o b)) = c \o b
      BY <1>6, <1>7, CatHead
    <3>3. FirstMagic(c \o b) = 1 /\ From(c \o b, 1) = c \o b
      <4>1. FirstMagic(c \o b) = 1
        BY <1>6, <1>7, CatHead
      <4>2. From(c \o b, 1) = c \o b
        BY <2>1, SubSeqFull DEF From, ByteStrings
      <4> QED
        BY <4>1, <4>2
    <3>4. ASSUME Len(c) >= 4 PROVE Claimed(c \o b) = Claimed(c)
      <4>1. 3 \in 1..Len(c) /\ 4 \in 1..Len(c)
        BY <1>8, <3>4
      <4>2. \A i \in 1..Len(c) : (c \o b)[i] = c[i]
        BY <1>8, CatIs
      <4> QED
        BY <4>1, <4>2 DEF Claimed
    <3> QED
      BY <3>1, <3>2, <3>3, <3>4
  <2>3. ASSUME Len(c) >= 4, Claimed(c) >= 6, Claimed(c) <= Len(c)
        PROVE  /\ WellEnded(c \o b) <=> WellEnded(c)
               /\ SubSeq(c \o b, 5, Claimed(c) - 2) = SubSeq(c, 5, Claimed(c) - 2)
    <3>1. SubSeq(c \o b, 5, Claimed(c) - 2) = SubSeq(c, 5, Claimed(c) - 2)
      BY <1>6, <1>7, <2>3, CatHead
    <3>2. WellEnded(c \o b) <=> WellEnded(c)
      BY <1>6, <1>7, <2>3, CatHead
    <3> QED
      BY <3>1, <3>2
  <2> QED
    BY <1>9, <1>10, <2>1, <2>2, <2>3
<1>12. drain_frames[x] = drain_frames[e]
  BY <1>11, SameHead
<1>13. \A p, q : drain_frames[a] = p /\ drain_frames[p.rest \o b] = q
                 /\ drain_frames[x].out = p.out \o q.out /\ drain_frames[x].rest = q.rest => FALSE
  BY <1>5, <1>9 DEF JoinsUp
<1>14. /\ drain_frames[e].out \in Seq(ByteStrings)
       /\ <<>> \o drain_frames[e].out = drain_frames[e].out
  BY <1>11, DrainTypes, ConcatEmptySeq
<1>15. ~(Len(c) < 4 \/ (Claimed(c) >= 6 /\ Len(c) < Claimed(c)))
  <2> SUFFICES ASSUME Len(c) < 4 \/ (Claimed(c) >= 6 /\ Len(c) < Claimed(c)) PROVE FALSE
    OBVIOUS
  <2>1. drain_frames[a] = [out |-> <<>>, rest |-> c]
    BY <1>6, <1>7, Waits
  <2>2. PICK p : p = drain_frames[a] /\ p.out = <<>> /\ p.rest = c
    BY <2>1
  <2>3. PICK q : q = drain_frames[e]
    OBVIOUS
  <2>4. drain_frames[p.rest \o b] = q
    BY <1>10, <2>2, <2>3
  <2>5. drain_frames[x].out = p.out \o q.out /\ drain_frames[x].rest = q.rest
    BY <1>12, <1>14, <2>2, <2>3
  <2> QED
    BY <1>13, <2>2, <2>4, <2>5
\* The magic bytes are skipped, or a frame is taken: both leave a shorter buffer t of a,
\* and t \o b of the whole.
<1>16. ASSUME NEW t \in ByteStrings, Len(t) < Len(a), drain_frames[a] = drain_frames[t],
              drain_frames[e] = drain_frames[t \o b], CutApart(a, b) => CutApart(t, b)
       PROVE  FALSE
  <2>1. JoinsUp(t, b)
    BY <1>4, <1>5, <1>16
  <2> HIDE DEF Fine
  <2>2. PICK p : p = drain_frames[t]
    OBVIOUS
  <2>3. PICK q : q = drain_frames[p.rest \o b]
    OBVIOUS
  <2>4. drain_frames[t \o b].out = p.out \o q.out /\ drain_frames[t \o b].rest = q.rest
    BY <2>1, <2>2, <2>3 DEF JoinsUp
  <2> QED
    BY <1>12, <1>13, <1>16, <2>2, <2>3, <2>4
<1>17. \A i \in 1..Len(c) + 1 : /\ From(c, i) \in ByteStrings /\ Len(From(c, i)) = Len(c) - i + 1
                                /\ From(e, i) = From(c, i) \o b
                                /\ (CutApart(a, b) => CutApart(From(c, i), b))
  <2> SUFFICES ASSUME NEW i \in 1..Len(c) + 1
               PROVE  /\ From(c, i) \in ByteStrings /\ Len(From(c, i)) = Len(c) - i + 1
                      /\ From(e, i) = From(c, i) \o b
                      /\ (CutApart(a, b) => CutApart(From(c, i), b))
    OBVIOUS
  <2>1. PICK t : t = From(c, i)
    OBVIOUS
  <2>2. /\ t \in ByteStrings /\ Len(t) = Len(c) - i + 1
        /\ \A j \in 1..Len(c) - i + 1 : t[j] = c[i + j - 1]
    BY <1>8, <2>1, FromIs
  <2>3. From(e, i) = t \o b
    BY <1>8, <1>10, <2>1, CatFrom
  <2>4. ASSUME Len(t) > 0 PROVE t[Len(t)] = a[Len(a)]
    <3>1. Len(t) \in 1..Len(c) - i + 1 /\ i + Len(t) - 1 = Len(c)
      BY <1>8, <2>2, <2>4
    <3>2. t[Len(t)] = c[Len(c)]
      BY <2>2, <3>1
    <3>3. PICK m \in 1..Len(a) - 1 : m = FirstMagic(a)
      BY <1>6, MagicIs
    <3>4. m \in 1..Len(a) + 1 /\ Len(c) = Len(a) - m + 1
      BY <1>6, <1>7, <1>8, <3>3, HeadIs
    <3>5. \A j \in 1..Len(a) - m + 1 : c[j] = a[m + j - 1]
      BY <1>7, <3>3, <3>4, FromIs
    <3>6. Len(c) \in 1..Len(a) - m + 1 /\ m + Len(c) - 1 = Len(a)
      BY <1>8, <3>4
    <3>7. c[Len(c)] = a[Len(a)]
      BY <3>5, <3>6
    <3> QED
      BY <3>2, <3>7
  <2>5. CutApart(a, b) => CutApart(t, b)
    BY <1>8, <2>4 DEF CutApart
  <2> QED
    BY <2>1, <2>2, <2>3, <2>5
<1>18. ~(Claimed(c) < 6 \/ (Claimed(c) <= Len(c) /\ ~WellEnded(c)))
  <2> SUFFICES ASSUME Claimed(c) < 6 \/ (Claimed(c) <= Len(c) /\ ~WellEnded(c)) PROVE FALSE
    OBVIOUS
  <2>0. Len(c) >= 4 /\ Claimed(c) \in Nat /\ Len(e) >= 4 /\ 3 \in 1..Len(c) + 1
    BY <1>8, <1>11, <1>15
  <2>1. drain_frames[a] = drain_frames[From(c, 3)]
    BY <1>6, <1>7, <2>0, Skips
  <2>2. Claimed(e) < 6 \/ (Claimed(e) <= Len(e) /\ ~WellEnded(e))
    BY <1>8, <1>11, <2>0
  <2>3. drain_frames[x] = drain_frames[From(e, 3)]
    BY <1>11, <2>0, <2>2, Skips
  <2>4. From(c, 3) \in ByteStrings /\ Len(From(c, 3)) < Len(a)
    <3>1. Len(From(c, 3)) = Len(c) - 3 + 1
      BY <1>17, <2>0
    <3> QED
      BY <1>8, <1>17, <2>0, <3>1
  <2>5. From(e, 3) = From(c, 3) \o b /\ (CutApart(a, b) => CutApart(From(c, 3), b))
    BY <1>17, <2>0
  <2> QED
    BY <1>12, <1>16, <2>1, <2>3, <2>4, <2>5
<1>19. Len(c) >= 4 /\ Claimed(c) \in Nat /\ Claimed(c) >= 6 /\ Claimed(c) <= Len(c) /\ WellEnded(c)
  BY <1>8, <1>15, <1>18
<1>20. PICK n \in Nat : n = Claimed(c) /\ n >= 6 /\ n <= Len(c) /\ n + 1 \in 1..Len(c) + 1
  BY <1>8, <1>19
<1>21. PICK t : t = From(c, n + 1)
  OBVIOUS
<1>22. /\ t \in ByteStrings /\ From(e, n + 1) = t \o b
       /\ (CutApart(a, b) => CutApart(t, b))
  BY <1>17, <1>20, <1>21
<1>23. Len(t) < Len(a)
  <2>1. Len(t) = Len(c) - (n + 1) + 1
    BY <1>17, <1>20, <1>21
  <2> QED
    BY <1>8, <1>20, <2>1
<1>24. PICK w : w = <<SubSeq(c, 5, n - 2)>>
  OBVIOUS
<1>25. drain_frames[a].out = w \o drain_frames[t].out /\ drain_frames[a].rest = drain_frames[t].rest
  BY <1>6, <1>7, <1>19, <1>20, <1>21, <1>24, Takes
<1>26. /\ drain_frames[x].out = w \o drain_frames[t \o b].out
       /\ drain_frames[x].rest = drain_frames[t \o b].rest
  <2>1. /\ Len(e) >= 4 /\ Claimed(e) = n /\ Claimed(e) >= 6 /\ Claimed(e) <= Len(e) /\ WellEnded(e)
        /\ SubSeq(e, 5, n - 2) = SubSeq(c, 5, n - 2)
    <3>1. Claimed(e) = n /\ (WellEnded(e) <=> WellEnded(c))
          /\ SubSeq(e, 5, n - 2) = SubSeq(c, 5, n - 2)
      BY <1>11, <1>19, <1>20
    <3>2. Len(e) = Len(c) + Len(b)
      BY <1>11
    <3>3. WellEnded(e) /\ Len(c) \in Nat /\ Len(b) \in Nat /\ Len(c) >= 4
      BY <1>8, <1>19, <3>1
    <3> QED
      BY <1>20, <3>1, <3>2, <3>3
  <2>2. /\ drain_frames[x].out = <<SubSeq(e, 5, Claimed(e) - 2)>>
                                 \o drain_frames[From(e, Claimed(e) + 1)].out
        /\ drain_frames[x].rest = drain_frames[From(e, Claimed(e) + 1)].rest
    BY <1>11, <2>1, Takes
  <2> QED
    BY <1>22, <1>24, <2>1, <2>2
<1>27. JoinsUp(t, b)
  <2>1. Fine(t, b)
    BY <1>4, <1>22, <1>23
  <2> QED
    BY <1>5, <1>22, <1>25, <2>1
<1> HIDE DEF Fine
<1>28. PICK p : p = drain_frames[t]
  OBVIOUS
<1>29. PICK q : q = drain_frames[p.rest \o b]
  OBVIOUS
<1>30. drain_frames[t \o b].out = p.out \o q.out /\ drain_frames[t \o b].rest = q.rest
  BY <1>27, <1>28, <1>29 DEF JoinsUp
<1>31. w \in Seq(ByteStrings) /\ p.out \in Seq(ByteStrings) /\ p.rest \in ByteStrings
  <2>1. SubSeq(c, 5, n - 2) \in ByteStrings
    <3>2. n - 2 \in Int /\ 5 \in Int
      BY <1>20
    <3>3. \A i \in 5..n - 2 : c[i] \in Nat
      <4>1. \A i \in 5..n - 2 : i \in 1..Len(c)
        BY <1>8, <1>20
      <4> QED
        BY <1>8, <4>1, ElementOfSeq DEF ByteStrings
    <3> QED
      BY <3>2, <3>3, SubSeqProperties DEF ByteStrings
  <2> QED
    BY <1>22, <1>24, <1>28, <2>1, DrainTypes
<1>32. p.rest \o b \in ByteStrings
  BY <1>31, CatIs
<1>33. q.out \in Seq(ByteStrings)
  BY <1>29, <1>32, DrainTypes
<1>34. w \o (p.out \o q.out) = (w \o p.out) \o q.out
  <2>1. ASSUME NEW u \in Seq(ByteStrings), NEW v \in Seq(ByteStrings), NEW y \in Seq(ByteStrings)
        PROVE  u \o (v \o y) = (u \o v) \o y
    BY ConcatAssociative
  <2> QED
    BY <1>31, <1>33, <2>1
<1>35. drain_frames[drain_frames[a].rest \o b] = q
  BY <1>25, <1>28, <1>29
<1>36. PICK r : r = drain_frames[a] /\ r.out = w \o p.out /\ r.rest = p.rest
  BY <1>25, <1>28
<1>37. drain_frames[x].out = r.out \o q.out /\ drain_frames[x].rest = q.rest
  BY <1>26, <1>30, <1>34, <1>36
<1> QED
  BY <1>13, <1>29, <1>36, <1>37

LEMMA PartIs ==
    ASSUME NEW b \in ByteStrings, NEW i \in 1..Len(b) + 1, NEW k \in i - 1..Len(b)
    PROVE  /\ SubSeq(b, i, k) \in ByteStrings /\ Len(SubSeq(b, i, k)) = k - i + 1
           /\ \A j \in 1..k - i + 1 : SubSeq(b, i, k)[j] = b[i + j - 1]
<1>1. Len(b) \in Nat /\ i \in Int /\ k \in Int
  BY LenProperties DEF ByteStrings
<1>2. \A j \in i..k : b[j] \in Nat
  <2>1. \A j \in i..k : j \in 1..Len(b)
    BY <1>1
  <2> QED
    BY <2>1, ElementOfSeq DEF ByteStrings
<1>3. /\ SubSeq(b, i, k) \in Seq(Nat)
      /\ Len(SubSeq(b, i, k)) = IF i <= k THEN k - i + 1 ELSE 0
      /\ \A j \in 1..k - i + 1 : SubSeq(b, i, k)[j] = b[i + j - 1]
  BY <1>1, <1>2, SubSeqProperties
<1> QED
  BY <1>1, <1>3 DEF ByteStrings

LEMMA PartsJoin ==
    ASSUME NEW b \in ByteStrings, NEW i \in 0..Len(b), NEW k \in i..Len(b)
    PROVE  SubSeq(b, 1, k) = SubSeq(b, 1, i) \o SubSeq(b, i + 1, k)
<1>1. Len(b) \in Nat /\ i \in Nat /\ k \in Nat
  BY LenProperties DEF ByteStrings
<1>2. PICK x : x = SubSeq(b, 1, k)
  OBVIOUS
<1>3. PICK y : y = SubSeq(b, 1, i)
  OBVIOUS
<1>4. PICK z : z = SubSeq(b, i + 1, k)
  OBVIOUS
<1>5. x \in ByteStrings /\ Len(x) = k /\ \A j \in 1..k : x[j] = b[j]
  <2>1. 1 \in 1..Len(b) + 1 /\ k \in 1 - 1..Len(b)
    BY <1>1
  <2>2. /\ x \in ByteStrings /\ Len(x) = k - 1 + 1
        /\ \A j \in 1..k - 1 + 1 : x[j] = b[1 + j - 1]
    BY <1>2, <2>1, PartIs
  <2> QED
    BY <1>1, <2>2
<1>6. y \in ByteStrings /\ Len(y) = i /\ \A j \in 1..i : y[j] = b[j]
  <2>1. 1 \in 1..Len(b) + 1 /\ i \in 1 - 1..Len(b)
    BY <1>1
  <2>2. /\ y \in ByteStrings /\ Len(y) = i - 1 + 1
        /\ \A j \in 1..i - 1 + 1 : y[j] = b[1 + j - 1]
    BY <1>3, <2>1, PartIs
  <2> QED
    BY <1>1, <2>2
<1>7. z \in ByteStrings /\ Len(z) = k - i /\ \A j \in 1..k - i : z[j] = b[i + j]
  <2>1. i + 1 \in 1..Len(b) + 1 /\ k \in i + 1 - 1..Len(b)
    BY <1>1
  <2>2. /\ z \in ByteStrings /\ Len(z) = k - (i + 1) + 1
        /\ \A j \in 1..k - (i + 1) + 1 : z[j] = b[i + 1 + j - 1]
    BY <1>4, <2>1, PartIs
  <2> QED
    BY <1>1, <2>2
<1>8. /\ y \o z \in ByteStrings /\ Len(y \o z) = Len(y) + Len(z)
      /\ \A j \in 1..Len(y) : (y \o z)[j] = y[j]
      /\ \A j \in 1..Len(z) : (y \o z)[Len(y) + j] = z[j]
  BY <1>6, <1>7, CatIs
<1>9. ASSUME NEW j \in 1..k PROVE x[j] = (y \o z)[j]
  <2>1. CASE j <= i
    BY <1>1, <1>5, <1>6, <1>8, <2>1
  <2>2. CASE j > i
    <3>1. PICK h \in Nat : h = j - i
      BY <1>1, <2>2
    <3>2. h \in 1..k - i /\ j = i + h /\ h \in 1..Len(z)
      BY <1>1, <1>7, <2>2, <3>1
    <3> QED
      BY <1>5, <1>6, <1>7, <1>8, <3>2
  <2>3. j \in Nat /\ i \in Nat
    BY <1>1
  <2>4. j <= i \/ j > i
    BY <2>3
  <2> QED
    BY <2>1, <2>2, <2>4
<1>10. Len(y \o z) = k
  BY <1>1, <1>6, <1>7, <1>8
<1>11. x = y \o z
  BY <1>5, <1>8, <1>9, <1>10, SeqEqual DEF ByteStrings
<1> QED
  BY <1>2, <1>3, <1>4, <1>11

\* The part of a \o b up to k.
LEMMA PartOfCat ==
    ASSUME NEW a \in ByteStrings, NEW b \in ByteStrings, NEW k \in 0..Len(a) + Len(b)
    PROVE  /\ k <= Len(a) => SubSeq(a \o b, 1, k) = SubSeq(a, 1, k)
           /\ k >= Len(a) => SubSeq(a \o b, 1, k) = a \o SubSeq(b, 1, k - Len(a))
<1>1. PICK x : x = a \o b
  OBVIOUS
<1>2. /\ x \in ByteStrings /\ Len(a) \in Nat /\ Len(b) \in Nat /\ Len(x) = Len(a) + Len(b)
      /\ \A i \in 1..Len(a) : x[i] = a[i]
      /\ \A i \in 1..Len(b) : x[Len(a) + i] = b[i]
  BY <1>1, CatIs
<1>3. PICK y : y = SubSeq(x, 1, k)
  OBVIOUS
<1>4. y \in ByteStrings /\ Len(y) = k /\ \A j \in 1..k : y[j] = x[j]
  <2>1. 1 \in 1..Len(x) + 1 /\ k \in 1 - 1..Len(x)
    BY <1>2
  <2>2. /\ y \in ByteStrings /\ Len(y) = k - 1 + 1
        /\ \A j \in 1..k - 1 + 1 : y[j] = x[1 + j - 1]
    BY <1>2, <1>3, <2>1, PartIs
  <2> QED
    BY <1>2, <2>2
<1>5. ASSUME k <= Len(a) PROVE y = SubSeq(a, 1, k)
  <2>1. PICK z : z = SubSeq(a, 1, k)
    OBVIOUS
  <2>2. 1 \in 1..Len(a) + 1 /\ k \in 1 - 1..Len(a)
    BY <1>2, <1>5
  <2>3. /\ z \in ByteStrings /\ Len(z) = k - 1 + 1
        /\ \A j \in 1..k - 1 + 1 : z[j] = a[1 + j - 1]
    BY <2>1, <2>2, PartIs
  <2>4. Len(z) = k /\ \A j \in 1..k : z[j] = a[j]
    BY <1>2, <2>3
  <2>5. \A j \in 1..k : y[j] = z[j]
    BY <1>2, <1>4, <1>5, <2>4
  <2>6. y = z
    BY <1>4, <2>3, <2>4, <2>5, SeqEqual DEF ByteStrings
  <2> QED
    BY <2>1, <2>6
<1>6. ASSUME k >= Len(a) PROVE y = a \o SubSeq(b, 1, k - Len(a))
  <2>0. k \in Nat /\ Len(a) \in Nat /\ Len(b) \in Nat /\ k <= Len(a) + Len(b)
    BY <1>2
  <2>1. PICK h \in Nat : h = k - Len(a) /\ h <= Len(b)
    <3>1. k - Len(a) \in Nat /\ k - Len(a) <= Len(b)
      BY <1>6, <2>0
    <3> QED
      BY <3>1
  <2>2. PICK z : z = SubSeq(b, 1, h)
    OBVIOUS
  <2>3. z \in ByteStrings /\ Len(z) = h /\ \A j \in 1..h : z[j] = b[j]
    <3>1. 1 \in 1..Len(b) + 1 /\ h \in 1 - 1..Len(b)
      BY <1>2, <2>1
    <3>2. /\ z \in ByteStrings /\ Len(z) = h - 1 + 1
          /\ \A j \in 1..h - 1 + 1 : z[j] = b[1 + j - 1]
      BY <2>2, <3>1, PartIs
    <3> QED
      BY <2>1, <3>2
  <2>4. /\ a \o z \in ByteStrings /\ Len(a \o z) = Len(a) + Len(z)
        /\ \A j \in 1..Len(a) : (a \o z)[j] = a[j]
        /\ \A j \in 1..Len(z) : (a \o z)[Len(a) + j] = z[j]
    BY <2>3, CatIs
  <2>5. ASSUME NEW j \in 1..k PROVE y[j] = (a \o z)[j]
    <3>1. CASE j <= Len(a)
      BY <1>2, <1>4, <2>4, <3>1
    <3>2. CASE j > Len(a)
      <4>1. PICK i \in Nat : i = j - Len(a)
        BY <1>2, <3>2
      <4>2. i \in 1..Len(b) /\ i \in 1..Len(z) /\ i \in 1..h /\ j = Len(a) + i
        BY <1>2, <2>1, <2>3, <3>2, <4>1
      <4> QED
        BY <1>2, <1>4, <2>3, <2>4, <4>2
    <3>3. j \in Nat /\ Len(a) \in Nat
      BY <1>2
    <3>4. j <= Len(a) \/ j > Len(a)
      BY <3>3
    <3> QED
      BY <3>1, <3>2, <3>4
  <2>6. Len(a \o z) = k
    BY <1>2, <2>1, <2>3, <2>4
  <2>7. y = a \o z
    BY <1>4, <2>4, <2>5, <2>6, SeqEqual DEF ByteStrings
  <2> QED
    BY <2>1, <2>2, <2>7
<1> QED
  BY <1>1, <1>3, <1>5, <1>6

LEMMA DivByBytes ==
    \A n \in Nat : n % 256 \in Nat /\ n \div 256 \in Nat /\ (n % 256) + 256 * (n \div 256) = n
OBVIOUS

\* A frame, whatever its payload holds.
LEMMA FrameIs ==
    ASSUME NEW p \in ByteStrings, NEW e, e = encode_frame(p)
    PROVE  /\ e \in ByteStrings /\ Len(p) \in Nat /\ Len(e) = Len(p) + 6
           /\ FirstMagic(e) = 1 /\ From(e, 1) = e /\ e[1] = A5 /\ e[2] = A5
           /\ e[Len(e)] = A7
           /\ Claimed(e) = Len(e) /\ WellEnded(e) /\ SubSeq(e, 5, Len(e) - 2) = p
<1>1. Len(p) \in Nat
  BY LenProperties DEF ByteStrings
<1>2. PICK n \in Nat : n = Len(p)
  BY <1>1
<1>3. PICK t \in Nat : t = 6 + n /\ t >= 6
  BY <1>2
<1>4. PICK lo \in Nat, hi \in Nat : lo = t % 256 /\ hi = t \div 256 /\ lo + 256 * hi = t
  BY DivByBytes
<1>5. PICK h : h = <<A5, A5>> \o <<lo, hi>>
  OBVIOUS
<1>6. /\ h \in ByteStrings /\ Len(h) = 4
      /\ h[1] = A5 /\ h[2] = A5 /\ h[3] = lo /\ h[4] = hi
  BY <1>4, <1>5 DEF ByteStrings, A5
<1>7. PICK x : x = h \o p
  OBVIOUS
<1>8. /\ x \in ByteStrings /\ Len(x) = 4 + n
      /\ \A i \in 1..4 : x[i] = h[i]
      /\ \A i \in 1..n : x[4 + i] = p[i]
  <2>1. /\ x \in ByteStrings /\ Len(x) = Len(h) + Len(p)
        /\ \A i \in 1..Len(h) : x[i] = h[i]
        /\ \A i \in 1..Len(p) : x[Len(h) + i] = p[i]
    BY <1>6, <1>7, CatIs
  <2> QED
    BY <1>2, <1>6, <2>1
<1>9. PICK z : z = <<A7, A7>>
  OBVIOUS
<1>10. z \in ByteStrings /\ Len(z) = 2 /\ z[1] = A7 /\ z[2] = A7
  BY <1>9 DEF ByteStrings, A7
<1>11. e = x \o z
  BY <1>2, <1>3, <1>4, <1>5, <1>7, <1>9 DEF encode_frame
<1>12. /\ e \in ByteStrings /\ Len(e) = t
       /\ \A i \in 1..4 + n : e[i] = x[i]
       /\ e[4 + n + 1] = A7 /\ e[4 + n + 2] = A7
  <2>1. /\ e \in ByteStrings /\ Len(e) = Len(x) + Len(z)
        /\ \A i \in 1..Len(x) : e[i] = x[i]
        /\ \A i \in 1..Len(z) : e[Len(x) + i] = z[i]
    <3>1. /\ x \o z \in ByteStrings /\ Len(x \o z) = Len(x) + Len(z)
          /\ \A i \in 1..Len(x) : (x \o z)[i] = x[i]
          /\ \A i \in 1..Len(z) : (x \o z)[Len(x) + i] = z[i]
      BY <1>8, <1>10, CatIs
    <3> QED
      BY <1>11, <3>1
  <2>2. 1 \in 1..Len(z) /\ 2 \in 1..Len(z)
    BY <1>10
  <2> QED
    BY <1>2, <1>3, <1>8, <1>10, <2>1, <2>2
<1>13. e[1] = A5 /\ e[2] = A5 /\ e[3] = lo /\ e[4] = hi /\ \A i \in 1..n : e[4 + i] = p[i]
  <2>1. 1 \in 1..4 + n /\ 2 \in 1..4 + n /\ 3 \in 1..4 + n /\ 4 \in 1..4 + n
    BY <1>2
  <2>2. \A i \in 1..n : 4 + i \in 1..4 + n
    BY <1>2
  <2> QED
    BY <1>6, <1>8, <1>12, <2>1, <2>2
<1>14. Claimed(e) = t
  BY <1>4, <1>13 DEF Claimed
<1>15. t - 1 = 4 + n + 1 /\ t = 4 + n + 2
  BY <1>2, <1>3
<1>16. WellEnded(e) /\ e[t] = A7
  BY <1>12, <1>14, <1>15 DEF WellEnded
<1>17. FirstMagic(e) = 1 /\ From(e, 1) = e
  <2>1. 1 \in 1..Len(e) - 1 /\ \A j \in 1..1 - 1 : ~IsMagic(e, j)
    BY <1>3, <1>12
  <2>2. IsMagic(e, 1)
    BY <1>13 DEF IsMagic
  <2>3. FirstMagic(e) = 1
    BY <1>12, <2>1, <2>2, MagicAt
  <2> QED
    BY <1>12, <2>3, SubSeqFull DEF From, ByteStrings
<1>18. SubSeq(e, 5, t - 2) = p
  <2>1. 5 \in 1..Len(e) + 1 /\ t - 2 \in 5 - 1..Len(e)
    BY <1>2, <1>3, <1>12
  <2>2. PICK y : y = SubSeq(e, 5, t - 2)
    OBVIOUS
  <2>3. /\ y \in ByteStrings /\ Len(y) = t - 2 - 5 + 1
        /\ \A i \in 1..t - 2 - 5 + 1 : y[i] = e[5 + i - 1]
    BY <1>12, <2>1, <2>2, PartIs
  <2>4. Len(y) = n /\ \A i \in 1..n : y[i] = e[4 + i]
    <3>1. t - 2 - 5 + 1 = n /\ \A i \in 1..n : 5 + i - 1 = 4 + i
      BY <1>2, <1>3
    <3> QED
      BY <2>3, <3>1
  <2>5. y = p
    BY <1>2, <1>13, <2>3, <2>4, SeqEqual DEF ByteStrings
  <2> QED
    BY <2>2, <2>5
<1> QED
  BY <1>1, <1>2, <1>3, <1>12, <1>13, <1>14, <1>16, <1>17, <1>18

\* A whole frame is taken; the rest is drained as if it stood alone.
LEMMA FrameTaken ==
    \A p, r \in ByteStrings :
        /\ drain_frames[encode_frame(p) \o r].out = <<p>> \o drain_frames[r].out
        /\ drain_frames[encode_frame(p) \o r].rest = drain_frames[r].rest
<1> SUFFICES ASSUME NEW p \in ByteStrings, NEW r \in ByteStrings, NEW e, e = encode_frame(p)
             PROVE  /\ drain_frames[e \o r].out = <<p>> \o drain_frames[r].out
                    /\ drain_frames[e \o r].rest = drain_frames[r].rest
  OBVIOUS
<1>1. /\ e \in ByteStrings /\ Len(p) \in Nat /\ Len(e) = Len(p) + 6
      /\ FirstMagic(e) = 1 /\ From(e, 1) = e
      /\ Claimed(e) = Len(e) /\ WellEnded(e) /\ SubSeq(e, 5, Len(e) - 2) = p
  BY FrameIs
<1>2. Len(e) >= 4 /\ Claimed(e) >= 6 /\ Claimed(e) <= Len(e) /\ Len(e) \in Nat
  BY <1>1
<1>3. FirstMagic(e) # 0 /\ e = From(e, FirstMagic(e))
  BY <1>1
<1>4. PICK x : x = e \o r
  OBVIOUS
<1>5. x \in ByteStrings /\ FirstMagic(x) # 0
  <2>1. FirstMagic(e \o r) # 0
    BY <1>1, <1>3, CatHead
  <2> QED
    BY <1>1, <1>4, <2>1, CatIs
<1>6. From(x, FirstMagic(x)) = x
  <2>1. From(e \o r, FirstMagic(e \o r)) = e \o r
    BY <1>1, <1>3, CatHead
  <2> QED
    BY <1>4, <2>1
<1>7. Claimed(x) = Len(e)
  <2>1. Claimed(e \o r) = Claimed(e)
    BY <1>1, <1>2, <1>3, CatHead
  <2> QED
    BY <1>1, <1>4, <2>1
<1>8. SubSeq(x, 5, Len(e) - 2) = p
  <2>1. SubSeq(e \o r, 5, Claimed(e) - 2) = SubSeq(e, 5, Claimed(e) - 2)
    BY <1>1, <1>2, <1>3, CatHead
  <2> QED
    BY <1>1, <1>4, <2>1
<1>9. WellEnded(x)
  <2>1. WellEnded(e \o r) <=> WellEnded(e)
    BY <1>1, <1>2, <1>3, CatHead
  <2> QED
    BY <1>1, <1>4, <2>1
<1>10. Len(x) = Len(e) + Len(r) /\ Len(r) \in Nat
  BY <1>1, <1>4, CatIs
<1>11. Len(x) >= 4 /\ Claimed(x) >= 6 /\ Claimed(x) <= Len(x)
  BY <1>1, <1>2, <1>7, <1>10
<1>12. From(x, Len(e) + 1) = r
  <2>1. 1 \in 1..Len(r) + 1
    BY <1>10
  <2>2. From(x, Len(e) + 1) = From(r, 1)
    BY <1>1, <1>4, <2>1, CatBeyond
  <2>3. From(r, 1) = r
    BY SubSeqFull DEF From, ByteStrings
  <2> QED
    BY <2>2, <2>3
<1>13. /\ drain_frames[x].out = <<SubSeq(x, 5, Claimed(x) - 2)>>
                                \o drain_frames[From(x, Claimed(x) + 1)].out
       /\ drain_frames[x].rest = drain_frames[From(x, Claimed(x) + 1)].rest
  BY <1>5, <1>6, <1>9, <1>11, Takes
<1> QED
  BY <1>4, <1>7, <1>8, <1>12, <1>13

\* The first bytes of a frame, two at least, are kept until the rest comes.
Kept(u, k) == /\ u \in ByteStrings /\ Len(u) = k /\ u[1] = A5
              /\ drain_frames[u] = [out |-> <<>>, rest |-> u]

LEMMA PartWaits ==
    \A p \in ByteStrings : \A k \in 2..Len(encode_frame(p)) - 1 :
        Kept(SubSeq(encode_frame(p), 1, k), k)
<1> SUFFICES ASSUME NEW p \in ByteStrings, NEW k \in 2..Len(encode_frame(p)) - 1,
                    NEW u, u = SubSeq(encode_frame(p), 1, k)
             PROVE  Kept(u, k)
  OBVIOUS
<1>0. PICK e : e = encode_frame(p)
  OBVIOUS
<1>1. /\ e \in ByteStrings /\ Len(p) \in Nat /\ Len(e) = Len(p) + 6
      /\ e[1] = A5 /\ e[2] = A5 /\ Claimed(e) = Len(e)
  BY <1>0, FrameIs
<1>2. Len(e) \in Nat /\ k \in Nat /\ k >= 2 /\ k < Len(e)
  BY <1>0, <1>1
<1>3. u \in ByteStrings /\ Len(u) = k /\ \A i \in 1..k : u[i] = e[i]
  <2>1. 1 \in 1..Len(e) + 1 /\ k \in 1 - 1..Len(e)
    BY <1>2
  <2>2. /\ u \in ByteStrings /\ Len(u) = k - 1 + 1
        /\ \A j \in 1..k - 1 + 1 : u[j] = e[1 + j - 1]
    BY <1>0, <1>1, <2>1, PartIs
  <2> QED
    BY <1>2, <2>2
<1>4. u[1] = A5 /\ u[2] = A5
  BY <1>1, <1>2, <1>3
<1>5. FirstMagic(u) = 1
  <2>1. 1 \in 1..Len(u) - 1 /\ \A j \in 1..1 - 1 : ~IsMagic(u, j)
    BY <1>2, <1>3
  <2>2. IsMagic(u, 1)
    BY <1>4 DEF IsMagic
  <2> QED
    BY <1>3, <2>1, <2>2, MagicAt
<1>6. From(u, 1) = u
  BY <1>3, SubSeqFull DEF From, ByteStrings
<1>7. FirstMagic(u) # 0 /\ u = From(u, FirstMagic(u))
  BY <1>5, <1>6
<1>8. ASSUME k < 4 PROVE drain_frames[u] = [out |-> <<>>, rest |-> u]
  BY <1>3, <1>7, <1>8, Waits
<1>9. ASSUME k >= 4 PROVE drain_frames[u] = [out |-> <<>>, rest |-> u]
  <2>1. Claimed(u) = Len(e)
    <3>1. 3 \in 1..k /\ 4 \in 1..k
      BY <1>2, <1>9
    <3> QED
      BY <1>1, <1>3, <3>1 DEF Claimed
  <2>2. Claimed(u) >= 6 /\ Len(u) < Claimed(u)
    BY <1>1, <1>2, <1>3, <2>1
  <2> QED
    BY <1>3, <1>7, <2>2, Waits
<1>10. drain_frames[u] = [out |-> <<>>, rest |-> u]
  BY <1>2, <1>8, <1>9
<1> QED
  BY <1>3, <1>4, <1>10 DEF Kept

\* Noise is dropped, alone or with what follows it.
LEMMA NoiseDropped ==
    ASSUME NEW g \in ByteStrings, FirstMagic(g \o <<A5>>) = 0
    PROVE  /\ \A i \in 1..Len(g) : ~(g[i] = A5 /\ (i < Len(g) => g[i + 1] = A5))
           /\ \A u \in ByteStrings : u[1] = A5 =>
                /\ drain_frames[g \o u].out = drain_frames[u].out
                /\ drain_frames[g \o u].rest = drain_frames[u].rest
<1>1. PICK w : w = <<A5>>
  OBVIOUS
<1>2. w \in ByteStrings /\ Len(w) = 1 /\ w[1] = A5
  BY <1>1 DEF ByteStrings, A5
<1>3. PICK x : x = g \o w
  OBVIOUS
<1>4. /\ x \in ByteStrings /\ Len(g) \in Nat /\ Len(x) = Len(g) + 1
      /\ \A i \in 1..Len(g) : x[i] = g[i]
      /\ x[Len(g) + 1] = A5
  <2>1. 1 \in 1..Len(w)
    BY <1>2
  <2>2. /\ x \in ByteStrings /\ Len(g) \in Nat /\ Len(x) = Len(g) + Len(w)
        /\ \A i \in 1..Len(g) : x[i] = g[i]
        /\ \A i \in 1..Len(w) : x[Len(g) + i] = w[i]
    BY <1>2, <1>3, CatIs
  <2> QED
    BY <1>2, <2>1, <2>2
<1>5. \A i \in 1..Len(g) : ~IsMagic(x, i)
  <2>1. \A i \in 1..Len(x) - 1 : ~IsMagic(x, i)
    BY <1>1, <1>3, <1>4, MagicIs
  <2> QED
    BY <1>4, <2>1
<1>6. \A i \in 1..Len(g) : ~(g[i] = A5 /\ (i < Len(g) => g[i + 1] = A5))
  <2> SUFFICES ASSUME NEW i \in 1..Len(g), g[i] = A5, i < Len(g) => g[i + 1] = A5 PROVE FALSE
    OBVIOUS
  <2>1. x[i] = A5
    BY <1>4
  <2>2. x[i + 1] = A5
    <3>1. CASE i < Len(g)
      <4>1. i + 1 \in 1..Len(g)
        BY <1>4, <3>1
      <4> QED
        BY <1>4, <3>1, <4>1
    <3>2. CASE i = Len(g)
      BY <1>4, <3>2
    <3> QED
      BY <1>4, <3>1, <3>2
  <2> QED
    BY <1>5, <2>1, <2>2 DEF IsMagic
<1>7. FirstMagic(g) = 0
  <2> SUFFICES ASSUME FirstMagic(g) # 0 PROVE FALSE
    OBVIOUS
  <2>1. PICK m \in 1..Len(g) - 1 : IsMagic(g, m)
    BY MagicIs
  <2>2. m \in 1..Len(g) /\ g[m] = A5 /\ g[m + 1] = A5
    BY <1>4, <2>1 DEF IsMagic
  <2> QED
    BY <1>6, <2>2
<1>8. ASSUME NEW u \in ByteStrings, u[1] = A5
      PROVE  /\ drain_frames[g \o u].out = drain_frames[u].out
             /\ drain_frames[g \o u].rest = drain_frames[u].rest
  <2>1. CutApart(g, u)
    <3> SUFFICES ASSUME Len(g) > 0, g[Len(g)] = A5 PROVE FALSE
      BY DEF CutApart
    <3>1. Len(g) \in 1..Len(g) /\ ~(Len(g) < Len(g))
      BY <1>4
    <3> QED
      BY <1>6, <3>1
  <2>2. JoinsUp(g, u)
    BY <1>7, <2>1, JoinedBehindNothing
  <2>3. PICK p : p = drain_frames[g] /\ p.out = <<>> /\ p.rest = <<>>
    BY <1>7, NoMagic
  <2>4. PICK q : q = drain_frames[p.rest \o u]
    OBVIOUS
  <2>5. drain_frames[g \o u].out = p.out \o q.out /\ drain_frames[g \o u].rest = q.rest
    BY <2>2, <2>3, <2>4 DEF JoinsUp
  <2>6. q = drain_frames[u]
    <3>1. <<>> \o u = u
      BY ConcatEmptySeq DEF ByteStrings
    <3> QED
      BY <2>3, <2>4, <3>1
  <2>7. <<>> \o q.out = q.out
    <3>1. q.out \in Seq(ByteStrings)
      BY <2>6, DrainTypes
    <3> QED
      BY <3>1, ConcatEmptySeq
  <2> QED
    BY <2>3, <2>5, <2>6, <2>7
<1> QED
  BY <1>6, <1>8

\* What is kept and what was taken are what draining the received part at once would give.
FrameInv ==
    /\ sent \in Payloads \X Payloads
    /\ stream \in {encode_frame(sent[1]) \o g \o encode_frame(sent[2]) : g \in Noise}
    /\ fed \in 0..Len(stream) /\ ~CutsMagic(fed)
    /\ buf = drain_frames[SubSeq(stream, 1, fed)].rest
    /\ drained = drain_frames[SubSeq(stream, 1, fed)].out

LEMMA StringsAre ==
    ASSUME NEW n \in Nat
    PROVE  Strings(n) \subseteq ByteStrings
<1> SUFFICES ASSUME NEW s \in Strings(n) PROVE s \in ByteStrings
  OBVIOUS
<1>1. PICK k \in Nat : s \in [1..k -> Bytes]
  BY DEF Strings
<1>2. s \in [1..k -> Nat]
  <2>1. \A x \in Bytes : x \in Nat
    BY FramesAssumption
  <2>2. \A i \in 1..k : s[i] \in Nat
    BY <1>1, <2>1
  <2> QED
    BY <1>1, <2>2
<1>3. s \in Seq(Nat)
  BY <1>2, SeqDef
<1> QED
  BY <1>3 DEF ByteStrings

LEMMA PayloadIs == \A p \in Payloads : p \in ByteStrings
<1>1. MaxPayload \in Nat
  BY FramesAssumption
<1>2. Strings(MaxPayload) \subseteq ByteStrings
  BY <1>1, StringsAre
<1> QED
  BY <1>2 DEF Payloads

LEMMA NoiseIs == \A g \in Noise : g \in ByteStrings /\ FirstMagic(g \o <<A5>>) = 0
<1>1. Strings(MaxNoise) \subseteq ByteStrings
  BY StringsAre, FramesAssumption
<1> QED
  BY <1>1 DEF Noise

\* The stream of two frames around noise, and what a part of it leaves in the buffer.
LEMMA PairIs == \A p, r \in ByteStrings : <<p>> \o <<r>> = <<p, r>>
<1> SUFFICES ASSUME NEW p \in ByteStrings, NEW r \in ByteStrings PROVE <<p>> \o <<r>> = <<p, r>>
  OBVIOUS
<1>1. PICK x, y, z : x = <<p>> /\ y = <<r>> /\ z = <<p, r>>
  OBVIOUS
<1>2. /\ x \in Seq(ByteStrings) /\ y \in Seq(ByteStrings) /\ z \in Seq(ByteStrings)
      /\ Len(x) = 1 /\ Len(y) = 1 /\ Len(z) = 2 /\ x[1] = p /\ y[1] = r /\ z[1] = p /\ z[2] = r
  BY <1>1
<1>3. /\ x \o y \in Seq(ByteStrings) /\ Len(x \o y) = 2
      /\ \A i \in 1..2 : (x \o y)[i] = IF i <= 1 THEN x[i] ELSE y[i - 1]
  BY <1>2, ConcatProperties
<1>4. \A i \in 1..2 : (x \o y)[i] = z[i]
  BY <1>2, <1>3
<1>5. x \o y = z
  BY <1>2, <1>3, <1>4, SeqEqual
<1> QED
  BY <1>1, <1>5

LEMMA CatAssociates ==
    \A a, b, c \in ByteStrings : (a \o b) \o c = a \o (b \o c)
BY ConcatAssociative DEF ByteStrings

Carries(s, p, r, g) ==
    /\ s \in ByteStrings /\ Len(s) \in Nat
    /\ Len(s) = Len(encode_frame(p)) + Len(g) + Len(encode_frame(r))
    /\ drain_frames[s].out = <<p, r>>
    /\ \A n \in 1..Len(s) - 1 :
         \/ n \in {1, Len(s) - Len(encode_frame(r)) + 1}
         \/ drain_frames[SubSeq(s, 1, n)].rest # <<>>
         \/ ~(s[n] = A5 /\ s[n + 1] = A5)

LEMMA StreamParts ==
    \A p, r, g \in ByteStrings : FirstMagic(g \o <<A5>>) = 0 =>
        Carries(encode_frame(p) \o g \o encode_frame(r), p, r, g)
<1> SUFFICES ASSUME NEW p \in ByteStrings, NEW r \in ByteStrings, NEW g \in ByteStrings
             PROVE  FirstMagic(g \o <<A5>>) = 0 =>
                        Carries(encode_frame(p) \o g \o encode_frame(r), p, r, g)
  OBVIOUS
<1>1. ASSUME NEW s, NEW e, NEW z, FirstMagic(g \o <<A5>>) = 0,
             e = encode_frame(p), z = encode_frame(r), s = (e \o g) \o z
      PROVE  Carries(s, p, r, g)
  <2>f. e = encode_frame(p) /\ z = encode_frame(r)
    BY <1>1
  <2>g. FirstMagic(g \o <<A5>>) = 0
    BY <1>1
  <2>2. /\ e \in ByteStrings /\ Len(p) \in Nat /\ Len(e) = Len(p) + 6
        /\ e[1] = A5 /\ e[2] = A5 /\ e[Len(e)] = A7
    BY <2>f, FrameIs
  <2>3. /\ z \in ByteStrings /\ Len(r) \in Nat /\ Len(z) = Len(r) + 6
        /\ z[1] = A5 /\ z[2] = A5 /\ z[Len(z)] = A7
    BY <2>f, FrameIs
  <2>4. PICK t : t = g \o z
    OBVIOUS
  <2>5. /\ t \in ByteStrings /\ Len(g) \in Nat /\ Len(t) = Len(g) + Len(z)
        /\ \A i \in 1..Len(g) : t[i] = g[i]
        /\ \A i \in 1..Len(z) : t[Len(g) + i] = z[i]
    <3>1. /\ g \o z \in ByteStrings /\ Len(g) \in Nat /\ Len(g \o z) = Len(g) + Len(z)
          /\ \A i \in 1..Len(g) : (g \o z)[i] = g[i]
          /\ \A i \in 1..Len(z) : (g \o z)[Len(g) + i] = z[i]
      BY <2>3, CatIs
    <3> QED
      BY <2>4, <3>1
  <2>6. s = e \o t
    <3>1. (e \o g) \o z = e \o (g \o z)
      <4>1. e \in ByteStrings /\ z \in ByteStrings
        BY <2>2, <2>3
      <4> QED
        BY <4>1, CatAssociates
    <3>2. s = (e \o g) \o z
      BY <1>1
    <3> QED
      BY <2>4, <3>1, <3>2
  <2>7. /\ s \in ByteStrings /\ Len(s) = Len(e) + Len(t)
        /\ \A i \in 1..Len(e) : s[i] = e[i]
        /\ \A i \in 1..Len(t) : s[Len(e) + i] = t[i]
    <3>1. /\ e \o t \in ByteStrings /\ Len(e \o t) = Len(e) + Len(t)
          /\ \A i \in 1..Len(e) : (e \o t)[i] = e[i]
          /\ \A i \in 1..Len(t) : (e \o t)[Len(e) + i] = t[i]
      BY <2>2, <2>5, CatIs
    <3> QED
      BY <2>6, <3>1
  <2>8. Len(s) \in Nat /\ Len(s) = Len(e) + Len(g) + Len(z) /\ Len(e) \in Nat /\ Len(z) \in Nat
    BY <2>2, <2>3, <2>5, <2>7
  <2>9. drain_frames[s].out = <<p, r>>
    <3>1. drain_frames[e \o t].out = <<p>> \o drain_frames[t].out
      BY <2>f, <2>5, FrameTaken
    <3>2. drain_frames[t].out = drain_frames[z].out
      BY <2>g, <2>3, <2>4, NoiseDropped
    <3>3. PICK b : b = <<>>
      OBVIOUS
    <3>4. b \in ByteStrings /\ Len(b) = 0
      BY <3>3 DEF ByteStrings
    <3>5. drain_frames[b] = [out |-> <<>>, rest |-> <<>>]
      <4>1. FirstMagic(b) = 0
        BY <3>4, MagicIs
      <4> QED
        BY <3>4, <4>1, NoMagic
    <3>6. z \o b = z
      BY <2>3, <3>3, ConcatEmptySeq DEF ByteStrings
    <3>7. drain_frames[z \o b].out = <<r>> \o drain_frames[b].out
      BY <2>f, <3>4, FrameTaken
    <3>8. drain_frames[z].out = <<r>> \o <<>>
      BY <3>5, <3>6, <3>7
    <3>9. <<p>> \o (<<r>> \o <<>>) = <<p, r>>
      <4>1. <<r>> \in Seq(ByteStrings) /\ <<p>> \in Seq(ByteStrings)
        OBVIOUS
      <4>2. <<r>> \o <<>> = <<r>>
        BY <4>1, ConcatEmptySeq
      <4>3. <<p>> \o <<r>> = <<p, r>>
        BY PairIs
      <4> QED
        BY <4>2, <4>3
    <3> QED
      BY <2>6, <3>1, <3>2, <3>8, <3>9
  <2>10. ASSUME NEW n \in 1..Len(s) - 1, n # 1, n # Len(s) - Len(z) + 1,
                s[n] = A5, s[n + 1] = A5, drain_frames[SubSeq(s, 1, n)].rest = <<>>
         PROVE  FALSE
    <3>1. n \in Nat /\ n >= 2 /\ n < Len(s) /\ n \in 0..Len(e) + Len(t)
      BY <2>7, <2>8, <2>10
    <3>2. CASE n < Len(e)
      <4>1. n \in 2..Len(e) - 1 /\ n <= Len(e)
        BY <2>8, <3>1, <3>2
      <4>2. SubSeq(s, 1, n) = SubSeq(e, 1, n)
        <5>1. SubSeq(e \o t, 1, n) = SubSeq(e, 1, n)
          BY <2>2, <2>5, <3>1, <4>1, PartOfCat
        <5> QED
          BY <2>6, <5>1
      <4>3. PICK u : u = SubSeq(e, 1, n)
        OBVIOUS
      <4>4. Len(u) = n /\ drain_frames[u] = [out |-> <<>>, rest |-> u]
        <5>1. n \in 2..Len(encode_frame(p)) - 1 /\ u = SubSeq(encode_frame(p), 1, n)
          BY <2>f, <4>1, <4>3
        <5> QED
          BY <5>1, PartWaits DEF Kept
      <4>5. drain_frames[u].rest = u
        BY <4>4
      <4>6. drain_frames[u].rest = <<>>
        BY <2>10, <4>2, <4>3
      <4>7. u = <<>>
        BY <4>5, <4>6
      <4>8. Len(u) = 0
        BY <4>7
      <4> QED
        BY <3>1, <4>4, <4>8
    <3>3. CASE n = Len(e)
      <4>1. s[n] = e[Len(e)]
        BY <2>7, <2>8, <3>1, <3>3
      <4> QED
        BY <2>2, <2>10, <4>1 DEF A5, A7
    <3>4. CASE n > Len(e)
      <4>1. PICK j \in Nat : j = n - Len(e) /\ j >= 1
        <5>1. n - Len(e) \in Nat /\ n - Len(e) >= 1
          BY <2>8, <3>1, <3>4
        <5> QED
          BY <5>1
      <4>2. j \in 1..Len(t) - 1 /\ j \in 1..Len(t) /\ j + 1 \in 1..Len(t)
            /\ n = Len(e) + j /\ n + 1 = Len(e) + (j + 1) /\ Len(t) \in Nat
        BY <2>5, <2>7, <2>8, <3>1, <4>1
      <4>3. t[j] = A5 /\ t[j + 1] = A5
        BY <2>7, <2>10, <4>2
      <4>4. \A i \in 1..Len(g) : ~(g[i] = A5 /\ (i < Len(g) => g[i + 1] = A5))
        BY <2>g, NoiseDropped
      <4>5. j > Len(g)
        <5>0. Len(g) \in Nat
          BY <2>5
        <5> SUFFICES ASSUME j <= Len(g) PROVE FALSE
          BY <4>1, <5>0
        <5>1. j \in 1..Len(g) /\ g[j] = A5
          <6>1. j \in 1..Len(g)
            BY <4>1, <5>0
          <6>2. t[j] = g[j]
            BY <2>5, <6>1
          <6> QED
            BY <4>3, <6>1, <6>2
        <5>2. ASSUME j < Len(g) PROVE g[j + 1] = A5
          <6>1. j + 1 \in 1..Len(g)
            BY <2>5, <4>1, <5>2
          <6> QED
            BY <2>5, <4>3, <6>1
        <5> QED
          BY <4>4, <5>1, <5>2
      <4>6. PICK h \in Nat : h = j - Len(g) /\ h >= 1
        <5>1. j - Len(g) \in Nat /\ j - Len(g) >= 1
          BY <2>5, <4>1, <4>5
        <5> QED
          BY <5>1
      <4>7. h # 1
        BY <2>8, <2>10, <4>1, <4>2, <4>6
      <4>8. h \in 2..Len(z) - 1
        BY <2>5, <2>8, <4>2, <4>6, <4>7
      <4>9. PICK u : u = SubSeq(z, 1, h)
        OBVIOUS
      <4>10. /\ u \in ByteStrings /\ Len(u) = h /\ u[1] = A5
             /\ drain_frames[u] = [out |-> <<>>, rest |-> u]
        <5>1. h \in 2..Len(encode_frame(r)) - 1 /\ u = SubSeq(encode_frame(r), 1, h)
          BY <2>f, <4>8, <4>9
        <5> QED
          BY <5>1, PartWaits DEF Kept
      <4>11. SubSeq(t, 1, j) = g \o u
        <5>1. j \in 0..Len(g) + Len(z) /\ j >= Len(g) /\ h = j - Len(g)
          BY <2>5, <2>8, <4>2, <4>5, <4>6
        <5> QED
          BY <2>3, <2>4, <4>9, <5>1, PartOfCat
      <4>12. SubSeq(s, 1, n) = e \o (g \o u)
        <5>1. n >= Len(e) /\ j = n - Len(e)
          BY <2>8, <3>1, <3>4, <4>1
        <5>2. SubSeq(e \o t, 1, n) = e \o SubSeq(t, 1, n - Len(e))
          BY <2>2, <2>5, <3>1, <5>1, PartOfCat
        <5> QED
          BY <2>6, <4>11, <5>1, <5>2
      <4>13. g \o u \in ByteStrings
        BY <4>10, CatIs
      <4>14. drain_frames[e \o (g \o u)].rest = drain_frames[g \o u].rest
        BY <2>f, <4>13, FrameTaken
      <4>15. drain_frames[g \o u].rest = drain_frames[u].rest
        BY <2>g, <4>10, NoiseDropped
      <4>16. drain_frames[u].rest = u
        BY <4>10
      <4>17. u = <<>>
        BY <2>10, <4>12, <4>14, <4>15, <4>16
      <4> QED
        BY <4>6, <4>10, <4>17
    <3> QED
      BY <2>8, <3>1, <3>2, <3>3, <3>4
  <2>11. \A n \in 1..Len(s) - 1 :
            \/ n \in {1, Len(s) - Len(z) + 1}
            \/ drain_frames[SubSeq(s, 1, n)].rest # <<>>
            \/ ~(s[n] = A5 /\ s[n + 1] = A5)
    BY <2>10
  <2> QED
    BY <2>f, <2>7, <2>8, <2>9, <2>11 DEF Carries
<1>2. ASSUME FirstMagic(g \o <<A5>>) = 0
      PROVE  Carries(encode_frame(p) \o g \o encode_frame(r), p, r, g)
  <2>1. PICK e, z : e = encode_frame(p) /\ z = encode_frame(r)
    OBVIOUS
  <2>2. PICK s : s = (e \o g) \o z
    OBVIOUS
  <2>3. Carries(s, p, r, g)
    BY <1>1, <1>2, <2>1, <2>2
  <2> QED
    BY <2>1, <2>2, <2>3
<1> QED
  BY <1>2

LEMMA FramesStart == FramesInit => FrameInv
<1> SUFFICES ASSUME FramesInit PROVE FrameInv
  OBVIOUS
<1>1. sent \in Payloads \X Payloads /\ fed = 0 /\ buf = <<>> /\ drained = <<>>
  BY DEF FramesInit
<1>2. PICK g \in Noise : stream = encode_frame(sent[1]) \o g \o encode_frame(sent[2])
  BY DEF FramesInit
<1>3. sent[1] \in Payloads /\ sent[2] \in Payloads
  BY <1>1
<1>4. PICK e, z : e = encode_frame(sent[1]) /\ z = encode_frame(sent[2])
  OBVIOUS
<1>4a. /\ sent[1] \in ByteStrings /\ sent[2] \in ByteStrings
       /\ g \in ByteStrings /\ FirstMagic(g \o <<A5>>) = 0
  BY <1>3, PayloadIs, NoiseIs
<1>5. /\ stream \in ByteStrings /\ Len(stream) \in Nat
      /\ Len(stream) = Len(e) + Len(g) + Len(z)
  <2>1. Carries(stream, sent[1], sent[2], g)
    BY <1>2, <1>4a, StreamParts
  <2> QED
    BY <1>4, <2>1 DEF Carries
<1>6. ~CutsMagic(0)
  <2>1. /\ e \in ByteStrings /\ z \in ByteStrings /\ g \in ByteStrings
    BY <1>4, <1>4a, FrameIs
  <2>2. Len(e) \in Nat /\ Len(g) \in Nat /\ Len(z) \in Nat
    BY <2>1, CatIs
  <2>3. 0 # Len(stream) - Len(z) + 1
    BY <1>5, <2>2
  <2> QED
    BY <1>4, <2>3 DEF CutsMagic
<1>7. PICK b : b = SubSeq(stream, 1, 0)
  OBVIOUS
<1>8. b \in ByteStrings /\ Len(b) = 0
  <2>1. 1 \in 1..Len(stream) + 1 /\ 0 \in 1 - 1..Len(stream)
    BY <1>5
  <2> QED
    BY <1>5, <1>7, <2>1, PartIs
<1>9. drain_frames[b] = [out |-> <<>>, rest |-> <<>>]
  <2>1. FirstMagic(b) = 0
    BY <1>8, MagicIs
  <2> QED
    BY <1>8, <2>1, NoMagic
<1>10. fed \in 0..Len(stream) /\ ~CutsMagic(fed)
  BY <1>1, <1>5, <1>6
<1>11. buf = drain_frames[b].rest /\ drained = drain_frames[b].out /\ b = SubSeq(stream, 1, fed)
  BY <1>1, <1>7, <1>9
<1>12. stream \in {encode_frame(sent[1]) \o w \o encode_frame(sent[2]) : w \in Noise}
  BY <1>2
<1> QED
  BY <1>1, <1>10, <1>11, <1>12 DEF FrameInv

LEMMA FeedStep ==
    ASSUME FrameInv, [FeedFrames]_frameVars, ~SplitMagic
    PROVE  FrameInv'
<1>1. CASE UNCHANGED frameVars
  BY <1>1 DEF FrameInv, frameVars, CutsMagic
<1>2. CASE FeedFrames
  <2>1. PICK n \in fed + 1..Len(stream) :
          /\ ~CutsMagic(n) /\ fed' = n
          /\ buf' = drain_frames[buf \o SubSeq(stream, fed + 1, n)].rest
          /\ drained' = drained \o drain_frames[buf \o SubSeq(stream, fed + 1, n)].out
          /\ sent' = sent /\ stream' = stream
    BY <1>2 DEF FeedFrames
  <2>2. sent[1] \in Payloads /\ sent[2] \in Payloads
    BY DEF FrameInv
  <2>3. PICK g \in Noise : stream = encode_frame(sent[1]) \o g \o encode_frame(sent[2])
    BY DEF FrameInv
  <2>4. PICK e, z : e = encode_frame(sent[1]) /\ z = encode_frame(sent[2])
    OBVIOUS
  <2>5. /\ stream \in ByteStrings /\ Len(stream) \in Nat
        /\ \A i \in 1..Len(stream) - 1 :
                \/ i \in {1, Len(stream) - Len(z) + 1}
                \/ drain_frames[SubSeq(stream, 1, i)].rest # <<>>
                \/ ~(stream[i] = A5 /\ stream[i + 1] = A5)
    <3>1. /\ sent[1] \in ByteStrings /\ sent[2] \in ByteStrings
          /\ g \in ByteStrings /\ FirstMagic(g \o <<A5>>) = 0
      BY <2>2, PayloadIs, NoiseIs
    <3>2. Carries(stream, sent[1], sent[2], g)
      BY <2>3, <3>1, StreamParts
    <3>3. stream \in ByteStrings /\ Len(stream) \in Nat
      BY <3>2 DEF Carries
    <3>4. \A i \in 1..Len(stream) - 1 :
                \/ i \in {1, Len(stream) - Len(z) + 1}
                \/ drain_frames[SubSeq(stream, 1, i)].rest # <<>>
                \/ ~(stream[i] = A5 /\ stream[i + 1] = A5)
      BY <2>4, <3>2 DEF Carries
    <3> QED
      BY <3>3, <3>4
  <2>6. fed \in 0..Len(stream) /\ ~CutsMagic(fed) /\ fed \in Nat
    BY <2>5 DEF FrameInv
  <2>7. n \in Nat /\ n > fed /\ n <= Len(stream) /\ n \in fed..Len(stream) /\ n \in 0..Len(stream)
    BY <2>1, <2>5, <2>6
  <2>8. PICK a : a = SubSeq(stream, 1, fed)
    OBVIOUS
  <2>9. PICK b : b = SubSeq(stream, fed + 1, n)
    OBVIOUS
  <2>10. SubSeq(stream, 1, n) = a \o b
    BY <2>5, <2>6, <2>7, <2>8, <2>9, PartsJoin
  <2>11. a \in ByteStrings /\ Len(a) = fed /\ \A j \in 1..fed : a[j] = stream[j]
    <3>1. 1 \in 1..Len(stream) + 1 /\ fed \in 1 - 1..Len(stream)
      BY <2>5, <2>6
    <3>2. /\ a \in ByteStrings /\ Len(a) = fed - 1 + 1
          /\ \A j \in 1..fed - 1 + 1 : a[j] = stream[1 + j - 1]
      BY <2>5, <2>8, <3>1, PartIs
    <3> QED
      BY <2>6, <3>2
  <2>12. b \in ByteStrings /\ b[1] = stream[fed + 1]
    <3>1. fed + 1 \in 1..Len(stream) + 1 /\ n \in fed + 1 - 1..Len(stream)
      BY <2>5, <2>6, <2>7
    <3>2. /\ b \in ByteStrings
          /\ \A j \in 1..n - (fed + 1) + 1 : b[j] = stream[fed + 1 + j - 1]
      BY <2>5, <2>9, <3>1, PartIs
    <3>3. 1 \in 1..n - (fed + 1) + 1 /\ fed + 1 + 1 - 1 = fed + 1
      BY <2>6, <2>7
    <3> QED
      BY <3>2, <3>3
  <2>13. drain_frames[a].rest # <<>> \/ CutApart(a, b)
    <3> SUFFICES ASSUME fed > 0, stream[fed] = A5, stream[fed + 1] = A5
                 PROVE  drain_frames[a].rest # <<>>
      BY <2>6, <2>11, <2>12 DEF CutApart
    <3>1. fed \in 1..Len(stream) - 1
      BY <2>5, <2>6, <2>7
    <3>2. fed \notin {1, Len(stream) - Len(z) + 1}
      BY <2>4, <2>6 DEF CutsMagic
    <3> QED
      BY <2>5, <2>8, <3>1, <3>2
  <2>14. JoinsUp(a, b)
    BY <2>11, <2>12, <2>13, PiecesJoin
  <2>15. PICK p : p = drain_frames[a]
    OBVIOUS
  <2>16. buf = p.rest /\ drained = p.out
    BY <2>8, <2>15 DEF FrameInv
  <2>17. PICK q : q = drain_frames[p.rest \o b]
    OBVIOUS
  <2>18. drain_frames[a \o b].out = p.out \o q.out /\ drain_frames[a \o b].rest = q.rest
    BY <2>14, <2>15, <2>17 DEF JoinsUp
  <2>19. buf' = drain_frames[SubSeq(stream', 1, fed')].rest
         /\ drained' = drain_frames[SubSeq(stream', 1, fed')].out
    BY <2>1, <2>9, <2>10, <2>16, <2>17, <2>18
  <2>20. ~CutsMagic(fed)' /\ fed' \in 0..Len(stream')
    BY <2>1, <2>7 DEF CutsMagic
  <2>21. /\ sent' \in Payloads \X Payloads
         /\ stream' \in {encode_frame(sent'[1]) \o w \o encode_frame(sent'[2]) : w \in Noise}
    BY <2>1 DEF FrameInv
  <2> QED
    BY <2>19, <2>20, <2>21 DEF FrameInv
<1> QED
  BY <1>1, <1>2

LEMMA FramesArrive == FrameInv => FramesSurviveCuts
<1> SUFFICES ASSUME FrameInv, fed = Len(stream) PROVE drained = sent
  BY DEF FramesSurviveCuts
<1>1. sent \in Payloads \X Payloads /\ sent[1] \in Payloads /\ sent[2] \in Payloads
  BY DEF FrameInv
<1>2. PICK g \in Noise : stream = encode_frame(sent[1]) \o g \o encode_frame(sent[2])
  BY DEF FrameInv
<1>3. stream \in ByteStrings /\ drain_frames[stream].out = <<sent[1], sent[2]>>
  <2>1. /\ sent[1] \in ByteStrings /\ sent[2] \in ByteStrings
        /\ g \in ByteStrings /\ FirstMagic(g \o <<A5>>) = 0
    BY <1>1, PayloadIs, NoiseIs
  <2> QED
    <3>1. Carries(stream, sent[1], sent[2], g)
      BY <1>2, <2>1, StreamParts
    <3> QED
      BY <3>1 DEF Carries
<1>4. SubSeq(stream, 1, fed) = stream
  BY <1>3, SubSeqFull DEF ByteStrings
<1>5. drained = drain_frames[stream].out
  BY <1>4 DEF FrameInv
<1>6. sent = <<sent[1], sent[2]>>
  BY <1>1
<1> QED
  BY <1>3, <1>5, <1>6

(* A binding and its frames: also every frame arrives, for any two payloads that fit a
   frame, any noise between them and any cuts of the stream that keep the two magic bytes
   of a head together (drain_frames of lan_bind_tcp.cpp). *)
THEOREM BindHolds ==
    ASSUME ~SplitMagic
    PROVE  Spec => []BindSound
<1>1. Init => BindInv /\ FrameInv
  BY BindInitInv, FramesStart DEF Init
<1>2. FrameInv /\ [FeedFrames]_frameVars => FrameInv'
  BY FeedStep
<1>3. BindInv /\ FrameInv => BindSound
  BY FramesArrive DEF BindInv, BindSound
<1> QED
  BY <1>1, <1>2, <1>3, BindStepInv, HostSteps, PTL DEF Spec
===============================================================================
