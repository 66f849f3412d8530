-------------------------- MODULE FileTunnel_proofs --------------------------
(***************************************************************************)
(* TLAPS proofs about FileTunnel, for any number of jobs and threads, any  *)
(* file size and any bounds.                                               *)
(***************************************************************************)
EXTENDS FileTunnel, FiniteSetTheorems, TLAPS

\* The type invariant, by the groups of variables that the actions leave alone together.
SideOK == isLan \in BOOLEAN /\ mu \in SUBSET Actors /\ probed \in BOOLEAN
ConnOK == /\ up \in BOOLEAN /\ alive \in BOOLEAN
          /\ hs \in {"NotStarted", "LoginSent", "SetupSent", "Ready"}
          /\ seqNo \in Nat /\ dials \in 0..MaxDials
WireOK == inbox \in Seq(Requests) /\ wire \in Seq(Frames) /\ have \in 0..FSize
JobOK  == /\ kind \in [Jobs -> AllKinds] /\ cancelled \in [Jobs -> BOOLEAN]
          /\ finished \in [Jobs -> BOOLEAN] /\ res \in [Jobs -> Outcomes]
RefOK  == /\ trefs \in Nat /\ jrefs \in [Jobs -> Nat] /\ owned \subseteq Jobs \cup {Slicer}
PcOK   == pc \in [Actors -> Pcs] /\ job \in [Actors -> Jobs \cup {NoJob}]
XferOK == /\ seq \in [Actors -> Nat]
          /\ off \in [Actors -> 0..FSize] /\ hashed \in [Actors -> 0..FSize]
          /\ tries \in [Actors -> Nat] /\ got \in [Actors -> Seq(Frames)]
          /\ out \in [Actors -> Outcomes]
HistOK == /\ starts \in [Jobs -> Nat] /\ results \in [Jobs -> Nat] /\ faults \in 0..MaxFaults

\* Where the slicer's own calls can be, and what a thread's position says of its job.
Positions ==
    /\ pc[Slicer] \in {"idle", "lock", "hello", "shutdown"}
    /\ \A t \in Threads :
          /\ pc[t] # "idle" => job[t] \in Jobs
          /\ pc[t] = "chunk"  => off[t] = hashed[t] /\ off[t] < FSize
          /\ pc[t] = "frames" => kind[job[t]] = "download"
          /\ pc[t] = "answer" => kind[job[t]] \notin {"upload", "download"}
          /\ pc[t] = "thrown" => out[t] = "eio"

LEMMA ActorFacts == /\ Slicer \in Actors /\ Threads \subseteq Actors
                    /\ \A a \in Actors : a # Slicer => a \in Threads
BY DEF Actors

LEMMA Groups ==
    TypeOK <=> SideOK /\ ConnOK /\ WireOK /\ JobOK /\ RefOK /\ PcOK /\ XferOK /\ HistOK
BY DEF TypeOK, SideOK, ConnOK, WireOK, JobOK, RefOK, PcOK, XferOK, HistOK

\* A group stays well-typed while its variables do not change.
LEMMA Kept ==
    ASSUME TypeOK
    PROVE  /\ UNCHANGED <<isLan, mu, probed>> => SideOK'
           /\ UNCHANGED connVars => ConnOK'
           /\ UNCHANGED wireVars => WireOK'
           /\ UNCHANGED jobVars => JobOK'
           /\ UNCHANGED refVars => RefOK'
           /\ UNCHANGED <<pc, job>> => PcOK'
           /\ UNCHANGED xferVars => XferOK'
           /\ UNCHANGED histVars => HistOK'
BY Groups DEF SideOK, ConnOK, WireOK, JobOK, RefOK, PcOK, XferOK, HistOK,
   connVars, wireVars, jobVars, refVars, xferVars, histVars

\* Connection::disconnect.
LEMMA DisconnectFacts == TypeOK /\ Disconnect => ConnOK' /\ WireOK'
<1> SUFFICES ASSUME TypeOK, Disconnect PROVE ConnOK' /\ WireOK'
  OBVIOUS
<1>1. ConnOK'
  BY Groups DEF Disconnect, ConnOK
<1>2. WireOK'
  BY Groups DEF Disconnect, WireOK
<1> QED
  BY <1>1, <1>2

\* The end of a transfer.
LEMMA EndFacts ==
    ASSUME TypeOK, Positions, NEW a \in Actors, NEW o \in Outcomes, End(a, o)
    PROVE  /\ pc' \in [Actors -> Pcs] /\ out' \in [Actors -> Outcomes] /\ mu' \in SUBSET Actors
           /\ \A b \in Actors \ {a} : pc'[b] = pc[b] /\ out'[b] = out[b]
           /\ pc'[a] = IF a = Slicer THEN "idle" ELSE "deliver"
           /\ a # Slicer => out'[a] = o
BY DEF End, Goto, TypeOK, Pcs, Outcomes

\* A step to another position.
LEMMA GotoFacts ==
    ASSUME TypeOK, NEW a \in Actors, NEW p \in Pcs, Goto(a, p)
    PROVE  /\ pc' \in [Actors -> Pcs]
           /\ \A b \in Actors \ {a} : pc'[b] = pc[b]
           /\ pc'[a] = p
BY DEF Goto, TypeOK

LEMMA InitHolds == Init => TypeOK /\ Positions
<1> SUFFICES ASSUME Init PROVE TypeOK /\ Positions
  OBVIOUS
<1>1. isLan \in BOOLEAN
  <2>1. PICK u \in Urls, f \in BOOLEAN : isLan = (ParseLanUrl(u) /\ ~f)
    BY DEF Init
  <2>2. (ParseLanUrl(u) /\ ~f) \in BOOLEAN
    OBVIOUS
  <2>3. QED
    BY <2>1, <2>2, Zenon
<1>2. inbox \in Seq(Requests) /\ wire \in Seq(Frames) /\ got \in [Actors -> Seq(Frames)]
  BY DEF Init
<1>3. kind \in [Jobs -> AllKinds]
  BY TunnelAssumption DEF Init
<1>4. /\ mu \in SUBSET Actors /\ hs \in {"NotStarted", "LoginSent", "SetupSent", "Ready"}
      /\ seqNo \in Nat /\ dials \in 0..MaxDials /\ have \in 0..FSize /\ trefs \in Nat
      /\ owned \subseteq Jobs \cup {Slicer} /\ faults \in 0..MaxFaults
  BY TunnelAssumption DEF Init
<1>5. up \in BOOLEAN /\ alive \in BOOLEAN /\ probed \in BOOLEAN
      /\ cancelled \in [Jobs -> BOOLEAN] /\ finished \in [Jobs -> BOOLEAN]
  BY DEF Init
<1>6. /\ res \in [Jobs -> Outcomes] /\ jrefs \in [Jobs -> Nat]
      /\ starts \in [Jobs -> Nat] /\ results \in [Jobs -> Nat]
      /\ pc \in [Actors -> Pcs] /\ job \in [Actors -> Jobs \cup {NoJob}]
      /\ seq \in [Actors -> Nat] /\ off \in [Actors -> 0..FSize]
      /\ hashed \in [Actors -> 0..FSize] /\ tries \in [Actors -> Nat]
      /\ out \in [Actors -> Outcomes]
  BY TunnelAssumption DEF Init, Outcomes, Pcs
<1>7. TypeOK
  BY <1>1, <1>2, <1>3, <1>4, <1>5, <1>6 DEF TypeOK
<1> QED
  BY <1>7, ActorFacts DEF Init, Positions


\* Where a thread is, when it moves to a position that says nothing of its job.
LEMMA Moves ==
    ASSUME TypeOK, Positions, NEW a \in Actors, NEW p \in Pcs, PcOK',
           \A b \in Actors \ {a} : pc'[b] = pc[b], pc'[a] = p,
           a = Slicer => p \in {"idle", "lock", "hello", "shutdown"},
           a # Slicer => p \notin {"chunk", "frames", "answer", "thrown"}
                         /\ (p = "idle" \/ pc[a] # "idle"),
           UNCHANGED <<job, off, hashed, kind>>,
           \A b \in Actors \ {a} : out'[b] = out[b]
    PROVE  Positions'
<1>1. pc'[Slicer] \in {"idle", "lock", "hello", "shutdown"}
  BY ActorFacts DEF Positions
<1>2. ASSUME NEW t \in Threads
      PROVE  /\ pc'[t] # "idle" => job'[t] \in Jobs
             /\ pc'[t] = "chunk"  => off'[t] = hashed'[t] /\ off'[t] < FSize
             /\ pc'[t] = "frames" => kind'[job'[t]] = "download"
             /\ pc'[t] = "answer" => kind'[job'[t]] \notin {"upload", "download"}
             /\ pc'[t] = "thrown" => out'[t] = "eio"
  <2>1. CASE t = a
    BY <2>1, ActorFacts, TunnelAssumption DEF Positions
  <2>2. CASE t # a
    BY <2>2, ActorFacts DEF Positions
  <2> QED
    BY <2>1, <2>2
<1> QED
  BY <1>1, <1>2 DEF Positions

TypesAndPositions == SideOK /\ ConnOK /\ WireOK /\ JobOK /\ PcOK /\ XferOK /\ HistOK /\ Positions

\* The slicer's calls.
LEMMA CallTypes ==
    ASSUME TypeOK, Positions,
           \/ StartConnect \/ CallShutdown \/ ReleaseTunnel
           \/ \E j \in Jobs : StartStub(j) \/ Cancel(j) \/ ReleaseJob(j)
           \/ \E j \in Jobs, t \in Threads : StartJob(j, t)
    PROVE  TypesAndPositions'
<1> USE TunnelAssumption, ActorFacts, Groups, Kept DEF TypesAndPositions
<1>1. CASE StartConnect
  BY <1>1, GotoFacts, Moves DEF StartConnect, Pcs, PcOK, xferVars, jobVars
<1>2. CASE CallShutdown
  <2>1. HistOK'
    BY <1>2 DEF CallShutdown, Fault, HistOK
  <2> QED
    BY <1>2, <2>1, GotoFacts, Moves DEF CallShutdown, Pcs, PcOK, xferVars, jobVars
<1>3. CASE ReleaseTunnel
  BY <1>3, DisconnectFacts DEF ReleaseTunnel, DropTunnelRef, Positions, xferVars, jobVars
<1>4. ASSUME NEW j \in Jobs, StartStub(j)
      PROVE  TypesAndPositions'
  <2>1. HistOK' /\ JobOK'
    BY <1>4 DEF StartStub, HistOK, JobOK, Outcomes
  <2> QED
    BY <1>4, <2>1 DEF StartStub, Positions, xferVars
<1>5. ASSUME NEW j \in Jobs, Cancel(j)
      PROVE  TypesAndPositions'
  <2>1. HistOK' /\ JobOK'
    BY <1>5 DEF Cancel, Fault, HistOK, JobOK, Outcomes
  <2> QED
    BY <1>5, <2>1 DEF Cancel, Positions, xferVars
<1>6. ASSUME NEW j \in Jobs, ReleaseJob(j)
      PROVE  TypesAndPositions'
  BY <1>6 DEF ReleaseJob, Positions, xferVars, jobVars
<1>7. ASSUME NEW j \in Jobs, NEW t \in Threads, StartJob(j, t)
      PROVE  TypesAndPositions'
  <2>1. HistOK' /\ PcOK'
    BY <1>7 DEF StartJob, Goto, HistOK, PcOK, Pcs
  <2>3. XferOK'
    BY <1>7 DEF StartJob, XferOK, Outcomes
  <2>2. Positions'
    BY <1>7 DEF StartJob, Goto, Positions, PcOK, XferOK, jobVars
  <2> QED
    BY <1>7, <2>1, <2>2, <2>3 DEF StartJob
<1> QED
  BY <1>1, <1>2, <1>3, <1>4, <1>5, <1>6, <1>7

\* The end of a transfer leaves the thread with a result to deliver.
LEMMA EndMoves ==
    ASSUME TypeOK, Positions, NEW a \in Actors, pc[a] # "idle", NEW o \in Outcomes, End(a, o),
           UNCHANGED <<job, off, hashed, kind>>
    PROVE  /\ PcOK' /\ Positions' /\ mu' \in SUBSET Actors /\ out' \in [Actors -> Outcomes]
<1>1. PcOK'
  BY EndFacts, Groups DEF PcOK
<1>2. Positions'
  BY <1>1, EndFacts, Moves, ActorFacts DEF Pcs
<1> QED
  BY <1>1, <1>2, EndFacts

\* What one read takes off the wire.
LEMMA ReadFacts ==
    ASSUME TypeOK, NEW f, Read(f)
    PROVE  /\ f \in Frames /\ wire # <<>> /\ f = wire[1] /\ wire' \in Seq(Frames)
           /\ \A i \in 1..Len(wire') : \E k \in 1..Len(wire) : wire'[i] = wire[k]
<1>1. PICK n \in 1..(IF "coalesce" \in Events THEN Len(wire) ELSE 1) :
         wire # <<>> /\ f = Head(wire) /\ wire' = SubSeq(wire, n + 1, Len(wire))
  BY DEF Read
<1>2. wire \in Seq(Frames) /\ Len(wire) \in Nat \ {0} /\ n \in 1..Len(wire)
  BY <1>1 DEF TypeOK
<1>3. f \in Frames /\ f = wire[1]
  BY <1>1, <1>2
<1>4. wire' \in Seq(Frames)
  BY <1>1, <1>2
<1>5. \A i \in 1..Len(wire') : wire'[i] = wire[n + i] /\ n + i \in 1..Len(wire)
  BY <1>1, <1>2
<1> QED
  BY <1>1, <1>3, <1>4, <1>5

\* Connecting.
LEMMA ConnectTypes ==
    ASSUME TypeOK, Positions, NEW a \in Actors,
           Lock(a) \/ Dial(a) \/ DialFails(a) \/ HandshakeStep(a) \/ HandshakeFails(a)
    PROVE  TypesAndPositions'
<1> USE TunnelAssumption, ActorFacts, Groups, Kept DEF TypesAndPositions
<1>1. CASE Lock(a)
  <2>1. CASE CachedAbility(a) \/ a = Slicer
    <3>1. End(a, "ok") /\ UNCHANGED <<job, off, hashed, kind>> /\ pc[a] # "idle"
      BY <1>1, <2>1 DEF Lock, jobVars
    <3>2. PcOK' /\ Positions' /\ mu' \in SUBSET Actors /\ out' \in [Actors -> Outcomes]
      BY <3>1, EndMoves DEF Outcomes
    <3>3. XferOK' /\ SideOK'
      BY <1>1, <3>2 DEF Lock, XferOK, SideOK
    <3> QED
      BY <1>1, <3>2, <3>3 DEF Lock
  <2>2. CASE ~(CachedAbility(a) \/ a = Slicer)
    <3>1. mu' = {a} /\ Goto(a, "send") /\ UNCHANGED <<job, out, off, hashed, kind>>
          /\ pc[a] = "lock"
      BY <1>1, <2>2 DEF Lock, jobVars
    <3>2. XferOK' /\ SideOK'
      BY <1>1, <3>1 DEF Lock, XferOK, SideOK
    <3>3. PcOK'
      BY <3>1, GotoFacts DEF PcOK, Pcs
    <3>4. Positions'
      BY <2>2, <3>1, <3>3, GotoFacts, Moves DEF Pcs
    <3> QED
      BY <1>1, <3>2, <3>3, <3>4 DEF Lock
  <2> QED
    BY <2>1, <2>2
<1>2. CASE Dial(a)
  <2>1. ConnOK'
    <3>1. dials \in 0..MaxDials /\ dials < MaxDials /\ dials' = dials + 1
      BY <1>2 DEF Dial, ConnOK
    <3>2. dials' \in 0..MaxDials
      BY <3>1
    <3> QED
      BY <1>2, <3>2 DEF Dial, ConnOK
  <2>6. SideOK'
    BY <1>2 DEF Dial, SideOK
  <2>2. WireOK'
    BY <1>2 DEF Dial, WireOK
  <2>3. XferOK'
    BY <1>2 DEF Dial, XferOK
  <2>4. PcOK'
    BY <1>2, GotoFacts DEF Dial, PcOK, Pcs
  <2>5. Positions'
    BY <1>2, <2>4, GotoFacts, Moves DEF Dial, Pcs, jobVars
  <2> QED
    BY <1>2, <2>1, <2>2, <2>3, <2>4, <2>5, <2>6 DEF Dial
<1>3. CASE DialFails(a)
  <2>1. PcOK' /\ Positions' /\ mu' \in SUBSET Actors /\ out' \in [Actors -> Outcomes]
    BY <1>3, EndMoves DEF DialFails, jobVars, Outcomes
  <2>2. XferOK' /\ SideOK'
    BY <1>3, <2>1 DEF DialFails, XferOK, SideOK
  <2> QED
    BY <1>3, <2>1, <2>2, DisconnectFacts DEF DialFails
<1>4. CASE HandshakeStep(a)
  <2>1. PICK next \in {"LoginSent", "SetupSent", "Ready"} :
            /\ hs' = next
            /\ up' = (next = "Ready")
            /\ IF next # "Ready" THEN UNCHANGED <<mu, pc, out>>
               ELSE IF a = Slicer THEN End(a, "ok")
               ELSE Goto(a, "send") /\ UNCHANGED <<mu, out>>
    BY <1>4 DEF HandshakeStep
  <2>2. up' \in BOOLEAN
    BY <2>1, Zenon
  <2>3. ConnOK'
    BY <1>4, <2>1, <2>2 DEF HandshakeStep, ConnOK
  <2>4. pc[a] = "hello" /\ UNCHANGED <<job, off, hashed, kind>>
    BY <1>4 DEF HandshakeStep, jobVars
  <2>5. PcOK' /\ Positions' /\ mu' \in SUBSET Actors /\ out' \in [Actors -> Outcomes]
    <3>1. CASE next # "Ready"
      BY <2>1, <2>4, <3>1 DEF Positions, SideOK, XferOK
    <3>2. CASE next = "Ready" /\ a = Slicer
      BY <2>1, <2>4, <3>2, EndMoves DEF Outcomes
    <3>3. CASE next = "Ready" /\ a # Slicer
      <4>1. PcOK'
        BY <2>1, <2>4, <3>3, GotoFacts DEF PcOK, Pcs
      <4>2. Positions'
        BY <2>1, <2>4, <3>3, <4>1, GotoFacts, Moves DEF Pcs
      <4> QED
        BY <2>1, <3>3, <4>1, <4>2 DEF SideOK, XferOK
    <3> QED
      BY <2>1, <3>1, <3>2, <3>3
  <2>6. SideOK'
    BY <1>4, <2>5 DEF HandshakeStep, SideOK
  <2>7. tries' \in [Actors -> Nat] /\ UNCHANGED <<seq, off, hashed, got>>
    BY <1>4 DEF HandshakeStep, XferOK
  <2>8. XferOK'
    BY <2>5, <2>7 DEF XferOK
  <2> QED
    BY <1>4, <2>3, <2>5, <2>6, <2>8 DEF HandshakeStep
<1>5. CASE HandshakeFails(a)
  <2>1. PcOK' /\ Positions' /\ mu' \in SUBSET Actors /\ out' \in [Actors -> Outcomes]
    BY <1>5, EndMoves DEF HandshakeFails, jobVars, Outcomes
  <2>2. XferOK' /\ SideOK'
    BY <1>5, <2>1 DEF HandshakeFails, XferOK, SideOK
  <2> QED
    BY <1>5, <2>1, <2>2, DisconnectFacts DEF HandshakeFails
<1> QED
  BY <1>1, <1>2, <1>3, <1>4, <1>5

\* Sending a request and its chunks.
LEMMA SendTypes ==
    ASSUME TypeOK, Positions, NEW a \in Actors,
           Send(a) \/ SendFails(a) \/ SendChunk(a) \/ Cancelled(a) \/ PeerGone(a)
    PROVE  TypesAndPositions'
<1> USE TunnelAssumption, ActorFacts, Groups, Kept DEF TypesAndPositions
<1>0. a \in Threads /\ job[a] \in Jobs /\ pc[a] # "idle"
  BY DEF Positions, Send, SendFails, SendChunk, Cancelled, PeerGone
<1>1. CASE Send(a)
  <2> DEFINE r == [seq |-> seqNo, cmd |-> Kind(a), at |-> 0, md5 |-> 0, step |-> "init"]
             p == CASE Kind(a) = "upload"   -> "init"
                    [] Kind(a) = "download" -> "frames"
                    [] OTHER                -> "answer"
  <2>1. r \in Requests
    BY <1>0 DEF Requests, Kind, JobOK, ConnOK
  <2>2. WireOK'
    BY <1>1, <2>1 DEF Send, WireOK
  <2>3. ConnOK'
    BY <1>1 DEF Send, ConnOK
  <2>4. XferOK'
    <3>1. got' \in [Actors -> Seq(Frames)]
      BY <1>1 DEF Send, XferOK
    <3>2. seq' \in [Actors -> Nat]
      BY <1>1 DEF Send, XferOK, ConnOK
    <3> QED
      BY <1>1, <3>1, <3>2 DEF Send, XferOK
  <2>5. p \in {"init", "frames", "answer"}
    OBVIOUS
  <2>6. /\ pc' \in [Actors -> Pcs] /\ pc'[a] = p
        /\ \A b \in Actors \ {a} : pc'[b] = pc[b]
    BY <1>1, <2>5, GotoFacts DEF Send, Pcs
  <2>7. PcOK'
    BY <1>1, <2>6 DEF Send, PcOK
  <2>8. Positions'
    BY <1>0, <1>1, <2>6 DEF Send, Positions, Kind, jobVars
  <2> QED
    BY <1>1, <2>2, <2>3, <2>4, <2>7, <2>8 DEF Send
<1>2. CASE SendFails(a)
  <2>1. PcOK' /\ Positions' /\ mu' \in SUBSET Actors /\ out' \in [Actors -> Outcomes]
    BY <1>0, <1>2, EndMoves DEF SendFails, jobVars, Outcomes
  <2>2. XferOK' /\ SideOK'
    BY <1>2, <2>1 DEF SendFails, XferOK, SideOK
  <2>3. ConnOK'
    BY <1>2 DEF SendFails, ConnOK
  <2> QED
    BY <1>2, <2>1, <2>2, <2>3 DEF SendFails
<1>3. CASE SendChunk(a)
  <2> DEFINE last == off[a] + 1 >= FSize
             r == [seq |-> seq[a], cmd |-> "upload", at |-> off[a],
                   md5 |-> IF last THEN hashed[a] + 1 ELSE 0,
                   step |-> IF last THEN "last" ELSE "chunk"]
  <2>1. /\ off[a] \in 0..FSize /\ hashed[a] = off[a] /\ off[a] < FSize /\ seq[a] \in Nat
        /\ off[a] + 1 \in 0..FSize
    BY <1>0, <1>3 DEF SendChunk, Positions, XferOK
  <2>2. r \in Requests
    BY <2>1 DEF Requests, AllKinds
  <2>3. WireOK'
    BY <1>3, <2>2 DEF SendChunk, WireOK
  <2>4. XferOK'
    BY <1>3, <2>1 DEF SendChunk, XferOK
  <2>5. /\ pc' \in [Actors -> Pcs] /\ pc'[a] = AfterChunk(off[a] + 1)
        /\ \A b \in Actors \ {a} : pc'[b] = pc[b]
    BY <1>3, GotoFacts DEF SendChunk, AfterChunk, Pcs
  <2>6. PcOK'
    BY <1>3, <2>5 DEF SendChunk, PcOK
  <2>7. /\ off'[a] = off[a] + 1 /\ hashed'[a] = off[a] + 1
        /\ \A b \in Actors \ {a} : off'[b] = off[b] /\ hashed'[b] = hashed[b]
    BY <1>3, <2>1 DEF SendChunk, XferOK
  <2>8. Positions'
    BY <1>0, <1>3, <2>5, <2>7 DEF SendChunk, AfterChunk, Positions, jobVars
  <2> QED
    BY <1>3, <2>3, <2>4, <2>6, <2>8 DEF SendChunk
<1>4. CASE Cancelled(a)
  <2>1. PcOK' /\ Positions' /\ mu' \in SUBSET Actors /\ out' \in [Actors -> Outcomes]
    BY <1>0, <1>4, EndMoves DEF Cancelled, jobVars, Outcomes
  <2>2. XferOK' /\ SideOK'
    BY <1>4, <2>1 DEF Cancelled, XferOK, SideOK
  <2> QED
    BY <1>4, <2>1, <2>2 DEF Cancelled
<1>5. CASE PeerGone(a)
  <2>1. PcOK' /\ Positions' /\ mu' \in SUBSET Actors /\ out' \in [Actors -> Outcomes]
    BY <1>0, <1>5, EndMoves DEF PeerGone, jobVars, Outcomes
  <2>2. XferOK' /\ SideOK'
    BY <1>5, <2>1 DEF PeerGone, XferOK, SideOK
  <2> QED
    BY <1>5, <2>1, <2>2 DEF PeerGone
<1> QED
  BY <1>1, <1>2, <1>3, <1>4, <1>5

\* What a transfer does with a reply: it goes on where it is, or it ends.
LEMMA GoesOnOrEnds ==
    ASSUME TypeOK, Positions, NEW a \in Threads, pc[a] # "idle",
           \/ UNCHANGED <<mu, pc, out>>
           \/ \E o \in Outcomes : End(a, o),
           UNCHANGED <<job, off, hashed, kind>>
    PROVE  PcOK' /\ Positions' /\ mu' \in SUBSET Actors /\ out' \in [Actors -> Outcomes]
<1>1. CASE UNCHANGED <<mu, pc, out>>
  BY <1>1, Groups DEF PcOK, Positions, SideOK, XferOK
<1>2. CASE \E o \in Outcomes : End(a, o)
  BY <1>2, EndMoves, ActorFacts
<1> QED
  BY <1>1, <1>2

\* Reading replies.
LEMMA ReplyTypes ==
    ASSUME TypeOK, Positions, NEW a \in Actors,
           SkipStale(a) \/ InitReply(a) \/ FinalReply(a) \/ DownloadFrame(a) \/ AbilityReply(a)
    PROVE  TypesAndPositions'
<1> USE TunnelAssumption, ActorFacts, Groups, Kept DEF TypesAndPositions
<1>0. a \in Threads /\ job[a] \in Jobs /\ pc[a] # "idle"
  BY DEF Positions, SkipStale, InitReply, FinalReply, DownloadFrame, AbilityReply
<1> DEFINE f == Head(wire)
<1>a. Read(f) /\ UNCHANGED <<inbox, have>>
  BY DEF SkipStale, InitReply, FinalReply, DownloadFrame, AbilityReply
<1>b. f \in Frames /\ WireOK'
  BY <1>a, ReadFacts DEF WireOK
<1> HIDE DEF f
<1> DEFINE Ends == PcOK' /\ Positions' /\ mu' \in SUBSET Actors /\ out' \in [Actors -> Outcomes]
<1>1. CASE SkipStale(a)
  <2>1. Ends
    BY <1>0, <1>1, GoesOnOrEnds DEF SkipStale, jobVars, Outcomes
  <2>2. XferOK' /\ SideOK'
    BY <1>1, <2>1 DEF SkipStale, XferOK, SideOK
  <2> QED
    BY <1>1, <1>b, <2>1, <2>2 DEF SkipStale
<1>2. CASE InitReply(a)
  <2>0. IF f.res \in {"more", "exist"} /\ f.at <= FSize
        THEN /\ off' = [off EXCEPT ![a] = f.at]
             /\ hashed' = [hashed EXCEPT ![a] = f.at]
             /\ Goto(a, AfterChunk(f.at))
             /\ UNCHANGED <<mu, out>>
        ELSE End(a, "eio") /\ UNCHANGED <<off, hashed>>
    BY <1>2 DEF InitReply, PrefixHashed, f
  <2>00. f.at \in 0..FSize + 1
    BY <1>b DEF Frames
  <2>1. CASE f.res \in {"more", "exist"} /\ f.at <= FSize
    <3>0. f.at \in 0..FSize
      BY <2>00, <2>1
    <3>1. XferOK' /\ SideOK'
      BY <1>2, <2>0, <3>0, <2>1 DEF InitReply, XferOK, SideOK
    <3>2. /\ pc' \in [Actors -> Pcs] /\ pc'[a] = AfterChunk(f.at)
          /\ \A b \in Actors \ {a} : pc'[b] = pc[b]
      BY <2>0, <2>1, GotoFacts DEF AfterChunk, Pcs
    <3>3. PcOK'
      BY <1>2, <3>2 DEF InitReply, PcOK
    <3>4. /\ off'[a] = f.at /\ hashed'[a] = f.at
          /\ \A b \in Actors \ {a} : off'[b] = off[b] /\ hashed'[b] = hashed[b]
      BY <2>0, <2>1 DEF XferOK
    <3>5. Positions'
      BY <1>0, <1>2, <2>0, <2>1, <3>2, <3>4 DEF InitReply, AfterChunk, Positions, jobVars
    <3> QED
      BY <1>2, <1>b, <3>1, <3>3, <3>5 DEF InitReply
  <2>2. CASE ~(f.res \in {"more", "exist"} /\ f.at <= FSize)
    <3>1. Ends
      BY <1>0, <1>2, <2>0, <2>2, GoesOnOrEnds DEF InitReply, jobVars, Outcomes
    <3>2. XferOK' /\ SideOK'
      BY <1>2, <2>0, <2>2, <3>1 DEF InitReply, XferOK, SideOK
    <3> QED
      BY <1>2, <1>b, <3>1, <3>2 DEF InitReply
  <2> QED
    BY <2>1, <2>2
<1>3. CASE FinalReply(a)
  <2>1. Ends
    BY <1>0, <1>3, GoesOnOrEnds DEF FinalReply, jobVars, Outcomes
  <2>2. XferOK' /\ SideOK'
    BY <1>3, <2>1 DEF FinalReply, XferOK, SideOK
  <2> QED
    BY <1>3, <1>b, <2>1, <2>2 DEF FinalReply
<1>4. CASE DownloadFrame(a)
  <2>1. Ends
    BY <1>0, <1>4, GoesOnOrEnds DEF DownloadFrame, jobVars, Outcomes
  <2>2. got' \in [Actors -> Seq(Frames)]
    BY <1>4, <1>b DEF DownloadFrame, XferOK, f
  <2>3. XferOK' /\ SideOK'
    BY <1>4, <2>1, <2>2 DEF DownloadFrame, XferOK, SideOK
  <2> QED
    BY <1>4, <1>b, <2>1, <2>3 DEF DownloadFrame
<1>5. CASE AbilityReply(a)
  <2>1. End(a, "ok") \/ End(a, "eio")
    BY <1>5 DEF AbilityReply
  <2>2. Ends
    BY <1>0, <1>5, <2>1, GoesOnOrEnds DEF AbilityReply, jobVars, Outcomes
  <2>3. probed' \in BOOLEAN
    BY <1>5, Zenon DEF AbilityReply
  <2>4. XferOK' /\ SideOK'
    BY <1>5, <2>2, <2>3 DEF AbilityReply, XferOK, SideOK
  <2> QED
    BY <1>5, <1>b, <2>2, <2>4 DEF AbilityReply
<1> QED
  BY <1>1, <1>2, <1>3, <1>4, <1>5

\* Results and the end of a thread.
LEMMA ResultTypes ==
    ASSUME TypeOK, Positions, NEW a \in Actors,
           \/ Deliver(a) \/ CallbackReturns(a) \/ FailJob(a) \/ Release(a) \/ Shutdown(a)
           \/ Throw(a)
    PROVE  TypesAndPositions'
<1> USE TunnelAssumption, ActorFacts, Groups, Kept DEF TypesAndPositions
<1>1. CASE Deliver(a)
  <2>0. a \in Threads /\ job[a] \in Jobs
    BY <1>1 DEF Deliver, Positions
  <2>1. PcOK' /\ Positions'
    <3>1. PcOK'
      BY <1>1, GotoFacts DEF Deliver, PcOK, Pcs
    <3> QED
      BY <1>1, <2>0, <3>1, GotoFacts, Moves DEF Deliver, Pcs, xferVars
  <2>2. JobOK' /\ HistOK'
    <3>1. out[a] \in Outcomes
      BY DEF XferOK
    <3>2. JobOK'
      BY <1>1, <2>0, <3>1 DEF Deliver, JobOK
    <3>3. HistOK'
      BY <1>1, <2>0 DEF Deliver, HistOK
    <3> QED
      BY <3>2, <3>3
  <2> QED
    BY <1>1, <2>1, <2>2 DEF Deliver
<1>2. CASE CallbackReturns(a)
  <2>0. a \in Threads /\ pc[a] = "callback"
    BY <1>2 DEF CallbackReturns, Positions
  <2>1. PcOK' /\ Positions'
    <3>1. Goto(a, "release") \/ Goto(a, "shutdown")
      BY <1>2 DEF CallbackReturns
    <3>2. PcOK'
      BY <1>2, <3>1, GotoFacts DEF CallbackReturns, PcOK, Pcs
    <3> QED
      BY <1>2, <2>0, <3>1, <3>2, GotoFacts, Moves DEF CallbackReturns, Pcs, xferVars, jobVars
  <2>2. HistOK'
    BY <1>2 DEF CallbackReturns, Fault, HistOK
  <2> QED
    BY <1>2, <2>1, <2>2 DEF CallbackReturns
<1>3. CASE FailJob(a)
  <2>0. a \in Threads /\ pc[a] = "thrown"
    BY <1>3 DEF FailJob, Positions
  <2>1. PcOK' /\ Positions'
    <3>1. Goto(a, "release") \/ Goto(a, "deliver")
      BY <1>3 DEF FailJob, AfterException
    <3>2. PcOK'
      BY <1>3, <3>1, GotoFacts DEF FailJob, PcOK, Pcs
    <3> QED
      BY <1>3, <2>0, <3>1, <3>2, GotoFacts, Moves DEF FailJob, Pcs, xferVars, jobVars
  <2> QED
    BY <1>3, <2>1, DisconnectFacts DEF FailJob
<1>4. CASE Release(a)
  <2>0. a \in Threads /\ job[a] \in Jobs
    BY <1>4 DEF Release, Positions
  <2>1. PcOK'
    BY <1>4, GotoFacts DEF Release, PcOK, Pcs
  <2>2. XferOK'
    <3>1. got' \in [Actors -> Seq(Frames)]
      BY <1>4 DEF Release, XferOK
    <3> QED
      BY <1>4, <3>1 DEF Release, XferOK, Outcomes
  <2>3. Positions'
    <3>1. pc'[a] = "idle" /\ \A b \in Actors \ {a} : pc'[b] = pc[b]
      BY <1>4, GotoFacts DEF Release, Pcs
    <3>2. \A b \in Actors \ {a} : /\ job'[b] = job[b] /\ out'[b] = out[b]
                                  /\ off'[b] = off[b] /\ hashed'[b] = hashed[b]
      BY <1>4 DEF Release, PcOK, XferOK
    <3>3. UNCHANGED kind
      BY <1>4 DEF Release, jobVars
    <3> QED
      BY <2>0, <3>1, <3>2, <3>3 DEF Positions
  <2>4. ConnOK' /\ WireOK'
    BY <1>4, DisconnectFacts DEF Release, DropTunnelRef
  <2> QED
    BY <1>4, <2>1, <2>2, <2>3, <2>4 DEF Release
<1>5. CASE Shutdown(a)
  <2>1. PcOK' /\ Positions'
    <3>1. Goto(a, IF a = Slicer THEN "idle" ELSE "release") /\ pc[a] = "shutdown"
      BY <1>5 DEF Shutdown
    <3>2. PcOK'
      BY <1>5, <3>1, GotoFacts DEF Shutdown, PcOK, Pcs
    <3> QED
      BY <1>5, <3>1, <3>2, GotoFacts, Moves DEF Shutdown, Pcs, xferVars, jobVars
  <2> QED
    BY <1>5, <2>1, DisconnectFacts DEF Shutdown
<1>6. CASE Throw(a)
  <2>0. a \in Threads /\ pc[a] # "idle"
    BY <1>6 DEF Throw
  <2>1. PcOK'
    BY <1>6, GotoFacts DEF Throw, PcOK, Pcs
  <2>2. SideOK' /\ HistOK'
    BY <1>6 DEF Throw, Fault, SideOK, HistOK
  <2>3. XferOK'
    BY <1>6 DEF Throw, XferOK, Outcomes
  <2>4. Positions'
    <3>1. pc'[a] = "thrown" /\ \A b \in Actors \ {a} : pc'[b] = pc[b]
      BY <1>6, GotoFacts DEF Throw, Pcs
    <3>2. out'[a] = "eio" /\ \A b \in Actors \ {a} : out'[b] = out[b]
      BY <1>6 DEF Throw, XferOK
    <3> QED
      BY <1>6, <2>0, <3>1, <3>2 DEF Throw, Positions, jobVars
  <2>5. ConnOK'
    BY <1>6 DEF Throw, connVars
  <2> QED
    BY <1>6, <2>1, <2>2, <2>3, <2>4, <2>5 DEF Throw
<1> QED
  BY <1>1, <1>2, <1>3, <1>4, <1>5, <1>6

-----------------------------------------------------------------------------
(* What is under way on the wire: a last chunk ends the file and carries the digest of
   all of it, any other chunk is followed by one, and a reply that says that an upload is
   stored is true for good. *)
ChunksWhole ==
    \A i \in 1..Len(inbox) :
        /\ inbox[i].step = "last" => inbox[i].md5 = FSize /\ inbox[i].at + 1 = FSize
        /\ inbox[i].step = "chunk" => inbox[i].at + 1 < FSize

AnswersTrue ==
    \A i \in 1..Len(wire) :
        wire[i].cmd = "upload" /\ wire[i].res \in {"ok", "exist"} => have = FSize

WireInv == ChunksWhole /\ AnswersTrue /\ UploadOkMeansStored

\* The printer's steps.
LEMMA ServeFacts ==
    ASSUME TypeOK, WireInv, PrinterServes
    PROVE  /\ WireOK' /\ ChunksWhole' /\ AnswersTrue'
           /\ have = FSize => have' = FSize
<1> USE TunnelAssumption
<1> DEFINE r == Head(inbox)
<1>1. /\ inbox \in Seq(Requests) /\ inbox # <<>> /\ inbox' = Tail(inbox)
      /\ wire \in Seq(Frames) /\ have \in 0..FSize
  BY Groups DEF PrinterServes, WireOK
<1>2. r \in Requests /\ r = inbox[1]
  BY <1>1
<1>3. /\ r.step = "last" => r.md5 = FSize /\ r.at + 1 = FSize
      /\ r.step = "chunk" => r.at + 1 < FSize
  BY <1>1, <1>2 DEF WireInv, ChunksWhole
<1>4. /\ r.seq \in Nat /\ r.cmd \in AllKinds /\ r.at \in 0..FSize /\ r.md5 \in 0..FSize
      /\ r.step \in {"init", "chunk", "last"}
  BY <1>2 DEF Requests
<1>5. PICK fs \in Answers(r) : wire' = wire \o fs
  BY DEF PrinterServes
<1>6. have' = IF r.step = "init" \/ r.at # have THEN have
              ELSE IF r.step = "chunk" THEN have + 1
              ELSE IF r.md5 = FSize THEN FSize ELSE 0
  BY DEF PrinterServes
<1> HIDE DEF r
<1>7. /\ have' \in 0..FSize
      /\ have = FSize => have' = FSize
      /\ r.step = "last" /\ r.at = have => have' = FSize
  BY <1>1, <1>3, <1>4, <1>6
<1>8. \A o \in {"ok", "more", "exist", "err"}, at \in 0..FSize + 1 :
         /\ Reply(r, o, at) \in Frames
         /\ Reply(r, o, at).res = o /\ Reply(r, o, at).cmd = r.cmd
  BY <1>4 DEF Reply, Frames
<1> DEFINE Results == {"ok", "more", "exist", "err"}
           True(o) == r.cmd = "upload" /\ o \in {"ok", "exist"} => have' = FSize
           One == \E o \in Results, at \in 0..FSize + 1 : fs = <<Reply(r, o, at)>> /\ True(o)
           Two == /\ have' = FSize
                  /\ \E at \in 0..FSize : fs = <<Reply(r, "exist", at), Reply(r, "ok", at)>>
           All == /\ r.cmd = "download"
                  /\ fs = [i \in 1..FSize |-> Reply(r, IF i = FSize THEN "ok" ELSE "more", i)]
<1>9. fs = <<>> \/ One \/ Two \/ All
  <2>1. CASE r.cmd = "ability"
    <3>1. fs \in {<<Reply(r, "ok", 0)>>, <<Reply(r, "err", 0)>>}
      BY <1>5, <2>1 DEF Answers
    <3> QED
      BY <2>1, <3>1
  <2>2. CASE r.cmd = "download"
    <3>1. All \/ fs = <<Reply(r, "err", 0)>>
      BY <1>5, <2>2 DEF Answers
    <3> QED
      BY <2>2, <3>1
  <2>3. CASE r.cmd = "upload" /\ r.step = "init"
    <3>1. fs \in {<<Reply(r, "err", 0)>>, <<Reply(r, "more", FSize + 1)>>}
                 \cup (IF have < FSize THEN {<<Reply(r, "more", have)>>}
                       ELSE {<<Reply(r, "exist", have)>>,
                             <<Reply(r, "exist", have), Reply(r, "ok", have)>>})
      BY <1>5, <2>3 DEF Answers
    <3>2. CASE have < FSize
      BY <1>1, <3>1, <3>2
    <3>3. CASE ~(have < FSize)
      <4>1. have = FSize /\ have' = FSize
        BY <1>1, <1>7, <3>3
      <4> QED
        BY <1>1, <3>1, <3>3, <4>1
    <3> QED
      BY <3>2, <3>3
  <2>4. CASE r.cmd = "upload" /\ r.step = "chunk"
    <3>1. fs \in {<<>>, <<Reply(r, "more", r.at)>>}
      BY <1>5, <2>4 DEF Answers
    <3> QED
      BY <1>4, <3>1
  <2>5. CASE r.cmd = "other" \/ (r.cmd = "upload" /\ r.step = "last")
    <3>1. fs = <<Reply(r, IF r.at = have /\ r.md5 = FSize THEN "ok" ELSE "err", r.at)>>
      BY <1>5, <2>5 DEF Answers
    <3> QED
      BY <1>4, <1>7, <2>5, <3>1
  <2>6. \/ r.cmd \in {"ability", "download", "other"}
        \/ r.cmd = "upload" /\ r.step = "init"
        \/ r.cmd = "upload" /\ r.step = "chunk"
        \/ r.cmd = "upload" /\ r.step = "last"
    BY <1>4 DEF AllKinds
  <2> HIDE DEF One, Two, All
  <2> QED
    BY <2>1, <2>2, <2>3, <2>4, <2>5, <2>6
<1>10. /\ fs \in Seq(Frames)
       /\ \A i \in 1..Len(fs) : fs[i].cmd = "upload" /\ fs[i].res \in {"ok", "exist"}
                                    => have' = FSize
  <2>1. CASE fs = <<>>
    BY <2>1
  <2>2. CASE One
    BY <1>8, <2>2
  <2>3. CASE Two
    <3>1. PICK at \in 0..FSize : fs = <<Reply(r, "exist", at), Reply(r, "ok", at)>>
      BY <2>3
    <3>2. Reply(r, "exist", at) \in Frames /\ Reply(r, "ok", at) \in Frames
      BY <1>8, <3>1
    <3> QED
      BY <2>3, <3>1, <3>2
  <2>4. CASE All
    <3>1. \A i \in 1..FSize : /\ fs[i] \in Frames /\ fs[i].cmd = "download"
      BY <1>8, <2>4
    <3>2. fs \in Seq(Frames) /\ Len(fs) = FSize
      BY <2>4, <3>1
    <3> QED
      BY <3>1, <3>2
  <2> QED
    BY <1>9, <2>1, <2>2, <2>3, <2>4
<1>11. wire' \in Seq(Frames) /\ inbox' \in Seq(Requests)
  BY <1>1, <1>5, <1>10
<1>12. AnswersTrue'
  <2> SUFFICES ASSUME NEW i \in 1..Len(wire'), wire'[i].cmd = "upload",
                      wire'[i].res \in {"ok", "exist"}
               PROVE  have' = FSize
    BY DEF AnswersTrue
  <2>1. CASE i \in 1..Len(wire)
    <3>1. wire'[i] = wire[i]
      BY <1>1, <1>5, <1>10, <2>1
    <3> QED
      BY <1>7, <2>1, <3>1 DEF WireInv, AnswersTrue
  <2>2. CASE i \notin 1..Len(wire)
    <3>1. i - Len(wire) \in 1..Len(fs) /\ wire'[i] = fs[i - Len(wire)]
      BY <1>1, <1>5, <1>10, <2>2
    <3> QED
      BY <1>10, <3>1
  <2> QED
    BY <2>1, <2>2
<1>13. ChunksWhole'
  BY <1>1 DEF WireInv, ChunksWhole
<1> QED
  BY <1>7, <1>11, <1>12, <1>13 DEF WireOK

LEMMA PrinterTypes ==
    ASSUME TypeOK, Positions, WireInv, PrinterServes \/ PrinterCloses
    PROVE  TypesAndPositions'
<1> USE TunnelAssumption, ActorFacts, Groups, Kept DEF TypesAndPositions
<1>1. CASE PrinterServes
  BY <1>1, ServeFacts DEF PrinterServes, Positions, jobVars, xferVars
<1>2. CASE PrinterCloses
  <2>1. HistOK'
    BY <1>2 DEF PrinterCloses, Fault, HistOK
  <2>2. ConnOK'
    BY <1>2 DEF PrinterCloses, ConnOK
  <2>3. WireOK'
    <3>1. inbox' = <<>> /\ wire' \in {wire, <<>>} /\ UNCHANGED have
      BY <1>2 DEF PrinterCloses
    <3>2. CASE wire' = wire
      BY <3>1, <3>2 DEF WireOK
    <3>3. CASE wire' = <<>>
      BY <3>1, <3>3 DEF WireOK
    <3> QED
      BY <3>1, <3>2, <3>3
  <2> QED
    BY <1>2, <2>1, <2>2, <2>3 DEF PrinterCloses, Positions, jobVars, xferVars
<1> QED
  BY <1>1, <1>2

\* Nothing new is on the wire.
WireShrinks ==
    /\ have' = have
    /\ inbox' = inbox \/ inbox' = <<>>
    /\ \A i \in 1..Len(wire') : \E k \in 1..Len(wire) : wire'[i] = wire[k]

LEMMA WireKept ==
    ASSUME TypeOK, WireInv, WireShrinks
    PROVE  ChunksWhole' /\ AnswersTrue'
<1>1. ChunksWhole'
  <2>1. CASE inbox' = inbox
    BY <2>1 DEF WireInv, ChunksWhole
  <2>2. CASE inbox' = <<>>
    BY <2>2 DEF ChunksWhole
  <2> QED
    BY <2>1, <2>2 DEF WireShrinks
<1>2. AnswersTrue'
  BY DEF WireInv, AnswersTrue, WireShrinks
<1> QED
  BY <1>1, <1>2

LEMMA ShrinkFacts ==
    ASSUME TypeOK
    PROVE  /\ UNCHANGED wireVars => WireShrinks
           /\ Disconnect => WireShrinks
           /\ \A f : Read(f) /\ UNCHANGED <<inbox, have>> => WireShrinks
<1>1. UNCHANGED wireVars => WireShrinks
  BY DEF wireVars, WireShrinks
<1>2. Disconnect => WireShrinks
  BY DEF Disconnect, WireShrinks
<1>3. ASSUME NEW f, Read(f), UNCHANGED <<inbox, have>> PROVE WireShrinks
  BY <1>3, ReadFacts DEF WireShrinks
<1> QED
  BY <1>1, <1>2, <1>3

\* At most thread a has a new result to deliver.
LEMMA StoredKept ==
    ASSUME WireInv, NEW a, have = FSize => have' = FSize, UNCHANGED kind,
           \A b \in Threads \ {a} :
               pc'[b] = "deliver" => pc[b] = "deliver" /\ out'[b] = out[b] /\ job'[b] = job[b],
           a \in Threads /\ pc'[a] = "deliver" /\ out'[a] = "ok" /\ kind[job'[a]] = "upload"
               => have' = FSize
    PROVE  UploadOkMeansStored'
BY DEF WireInv, UploadOkMeansStored, Kind

LEMMA CallWire ==
    ASSUME TypeOK, Positions, WireInv,
           \/ StartConnect \/ CallShutdown \/ ReleaseTunnel
           \/ \E j \in Jobs : StartStub(j) \/ Cancel(j) \/ ReleaseJob(j)
           \/ \E j \in Jobs, t \in Threads : StartJob(j, t)
    PROVE  WireInv'
<1>1. WireShrinks
  BY ShrinkFacts DEF StartConnect, CallShutdown, ReleaseTunnel, StartStub, Cancel, ReleaseJob,
     StartJob, DropTunnelRef
<1>2. UNCHANGED kind
  BY DEF StartConnect, CallShutdown, ReleaseTunnel, StartStub, Cancel, ReleaseJob, StartJob, jobVars
<1>3. ASSUME StartConnect \/ CallShutdown PROVE UploadOkMeansStored'
  <2>1. \A b \in Threads : pc'[b] = pc[b] /\ out'[b] = out[b] /\ job'[b] = job[b]
    BY <1>3, TunnelAssumption, ActorFacts, GotoFacts
    DEF StartConnect, CallShutdown, xferVars, Pcs
  <2> QED
    BY <1>1, <1>2, <2>1, StoredKept, TunnelAssumption DEF WireShrinks
<1>4. ASSUME \/ ReleaseTunnel
             \/ \E j \in Jobs : StartStub(j) \/ Cancel(j) \/ ReleaseJob(j)
      PROVE  UploadOkMeansStored'
  <2>1. UNCHANGED <<pc, job, out>>
    BY <1>4 DEF ReleaseTunnel, StartStub, Cancel, ReleaseJob, xferVars
  <2> QED
    BY <1>1, <1>2, <2>1 DEF WireInv, UploadOkMeansStored, Kind, WireShrinks
<1>5. ASSUME NEW j \in Jobs, NEW t \in Threads, StartJob(j, t) PROVE UploadOkMeansStored'
  <2>1. out'[t] = "eio" /\ \A b \in Threads \ {t} : /\ pc'[b] = pc[b] /\ out'[b] = out[b]
                                                    /\ job'[b] = job[b]
    BY <1>5, ActorFacts DEF StartJob, Goto, TypeOK
  <2> QED
    BY <1>1, <1>2, <2>1, StoredKept DEF WireShrinks
<1> QED
  BY <1>1, <1>3, <1>4, <1>5, WireKept DEF WireInv

\* A step of an actor that puts nothing on the wire.
LEMMA ActorWire ==
    ASSUME TypeOK, Positions, WireInv, NEW a \in Actors, WireShrinks, UNCHANGED kind,
           \A b \in Threads \ {a} :
               pc'[b] = "deliver" => pc[b] = "deliver" /\ out'[b] = out[b] /\ job'[b] = job[b],
           a \in Threads /\ pc'[a] = "deliver" /\ out'[a] = "ok" /\ kind[job'[a]] = "upload"
               => have = FSize
    PROVE  WireInv'
BY WireKept, StoredKept DEF WireInv, WireShrinks

\* The end of a transfer that does not claim that an upload is stored.
LEMMA EndWire ==
    ASSUME TypeOK, Positions, WireInv, NEW a \in Actors, WireShrinks, UNCHANGED <<kind, job>>,
           NEW o \in Outcomes, End(a, o),
           a \in Threads /\ o = "ok" /\ kind[job[a]] = "upload" => have = FSize
    PROVE  WireInv'
BY EndFacts, ActorWire, ActorFacts, TunnelAssumption

LEMMA ConnectWire ==
    ASSUME TypeOK, Positions, WireInv, NEW a \in Actors,
           Lock(a) \/ Dial(a) \/ DialFails(a) \/ HandshakeStep(a) \/ HandshakeFails(a)
    PROVE  WireInv'
<1> USE ActorFacts, ShrinkFacts, TunnelAssumption
<1>1. CASE Lock(a)
  <2>1. WireShrinks /\ UNCHANGED <<kind, job>>
    BY <1>1 DEF Lock, jobVars
  <2>2. CASE CachedAbility(a) \/ a = Slicer
    BY <1>1, <2>1, <2>2, EndWire DEF Lock, CachedAbility, Outcomes
  <2>3. CASE ~(CachedAbility(a) \/ a = Slicer)
    BY <1>1, <2>1, <2>3, GotoFacts, ActorWire DEF Lock, Pcs
  <2> QED
    BY <2>2, <2>3
<1>2. CASE Dial(a)
  <2>1. WireShrinks /\ UNCHANGED <<kind, job, out>>
    BY <1>2 DEF Dial, jobVars, WireShrinks
  <2> QED
    BY <1>2, <2>1, GotoFacts, ActorWire DEF Dial, Pcs
<1>3. CASE DialFails(a)
  BY <1>3, EndWire DEF DialFails, jobVars, Outcomes
<1>4. CASE HandshakeStep(a)
  <2>1. WireShrinks /\ UNCHANGED <<kind, job>>
    BY <1>4 DEF HandshakeStep, jobVars
  <2>2. \/ UNCHANGED <<pc, out>>
        \/ a = Slicer /\ End(a, "ok")
        \/ Goto(a, "send") /\ UNCHANGED out
    BY <1>4 DEF HandshakeStep
  <2>3. CASE UNCHANGED <<pc, out>>
    BY <2>1, <2>3, ActorWire DEF HandshakeStep, WireInv, UploadOkMeansStored, Kind
  <2>4. CASE a = Slicer /\ End(a, "ok")
    BY <2>1, <2>4, EndWire DEF Outcomes
  <2>5. CASE Goto(a, "send") /\ UNCHANGED out
    BY <2>1, <2>5, GotoFacts, ActorWire DEF Pcs
  <2> QED
    BY <2>2, <2>3, <2>4, <2>5
<1>5. CASE HandshakeFails(a)
  BY <1>5, EndWire DEF HandshakeFails, jobVars, Outcomes
<1> QED
  BY <1>1, <1>2, <1>3, <1>4, <1>5

LEMMA SendWire ==
    ASSUME TypeOK, Positions, WireInv, NEW a \in Actors,
           Send(a) \/ SendFails(a) \/ SendChunk(a) \/ Cancelled(a) \/ PeerGone(a)
    PROVE  WireInv'
<1> USE ActorFacts, ShrinkFacts, TunnelAssumption
<1>0. a \in Threads /\ job[a] \in Jobs /\ pc[a] # "idle" /\ inbox \in Seq(Requests)
  BY DEF Positions, Send, SendFails, SendChunk, Cancelled, PeerGone, TypeOK
<1>1. CASE Send(a)
  <2> DEFINE p == CASE Kind(a) = "upload"   -> "init"
                    [] Kind(a) = "download" -> "frames"
                    [] OTHER                -> "answer"
             r == [seq |-> seqNo, cmd |-> Kind(a), at |-> 0, md5 |-> 0, step |-> "init"]
  <2>1. Goto(a, p) /\ p \in {"init", "frames", "answer"} /\ inbox' = Append(inbox, r)
        /\ UNCHANGED <<wire, have, kind, job, out>>
    BY <1>1 DEF Send, jobVars
  <2>2. r.step = "init"
    OBVIOUS
  <2> HIDE DEF p, r
  <2>3. ChunksWhole'
    BY <1>0, <2>1, <2>2 DEF WireInv, ChunksWhole
  <2>4. pc'[a] # "deliver" /\ \A b \in Actors \ {a} : pc'[b] = pc[b]
    BY <2>1, GotoFacts DEF Pcs
  <2>5. AnswersTrue' /\ UploadOkMeansStored'
    BY <2>1, <2>4, StoredKept DEF WireInv, AnswersTrue
  <2> QED
    BY <2>3, <2>5 DEF WireInv
<1>2. CASE SendFails(a)
  BY <1>2, EndWire DEF SendFails, jobVars, Outcomes
<1>3. CASE SendChunk(a)
  <2> DEFINE last == off[a] + 1 >= FSize
             r == [seq |-> seq[a], cmd |-> "upload", at |-> off[a],
                   md5 |-> IF last THEN hashed[a] + 1 ELSE 0,
                   step |-> IF last THEN "last" ELSE "chunk"]
  <2>1. Goto(a, AfterChunk(off[a] + 1)) /\ inbox' = Append(inbox, r)
        /\ UNCHANGED <<wire, have, kind, job, out>>
    BY <1>3 DEF SendChunk, jobVars
  <2>2. off[a] \in 0..FSize /\ hashed[a] = off[a] /\ off[a] < FSize
    BY <1>0, <1>3 DEF SendChunk, Positions, TypeOK
  <2>3. /\ r.step = "last" => r.md5 = FSize /\ r.at + 1 = FSize
        /\ r.step = "chunk" => r.at + 1 < FSize
    BY <2>2
  <2> HIDE DEF r
  <2>4. ChunksWhole'
    BY <1>0, <2>1, <2>3 DEF WireInv, ChunksWhole
  <2>5. pc'[a] # "deliver" /\ \A b \in Actors \ {a} : pc'[b] = pc[b]
    BY <2>1, GotoFacts DEF Pcs, AfterChunk
  <2>6. AnswersTrue' /\ UploadOkMeansStored'
    BY <2>1, <2>5, StoredKept DEF WireInv, AnswersTrue
  <2> QED
    BY <2>4, <2>6 DEF WireInv
<1>4. CASE Cancelled(a)
  BY <1>4, EndWire DEF Cancelled, jobVars, Outcomes
<1>5. CASE PeerGone(a)
  BY <1>5, EndWire DEF PeerGone, jobVars, Outcomes
<1> QED
  BY <1>1, <1>2, <1>3, <1>4, <1>5

LEMMA ReplyWire ==
    ASSUME TypeOK, Positions, WireInv, NEW a \in Actors,
           SkipStale(a) \/ InitReply(a) \/ FinalReply(a) \/ DownloadFrame(a) \/ AbilityReply(a)
    PROVE  WireInv'
<1> USE ActorFacts, TunnelAssumption
<1>0. a \in Threads /\ job[a] \in Jobs /\ pc[a] # "idle"
  BY DEF Positions, SkipStale, InitReply, FinalReply, DownloadFrame, AbilityReply
<1> DEFINE f == Head(wire)
<1>a. Read(f) /\ UNCHANGED <<inbox, have, kind, job>>
  BY DEF SkipStale, InitReply, FinalReply, DownloadFrame, AbilityReply, jobVars
<1>b. WireShrinks /\ f \in Frames /\ f = wire[1] /\ wire # <<>>
  BY <1>a, ReadFacts, ShrinkFacts
<1>c. f.cmd = "upload" /\ f.res \in {"ok", "exist"} => have = FSize
  BY <1>b DEF WireInv, AnswersTrue, TypeOK
<1> HIDE DEF f
<1>d. UNCHANGED <<mu, pc, out>> => WireInv'
  BY <1>a, <1>b, ActorWire DEF WireInv, UploadOkMeansStored, Kind
<1>1. CASE SkipStale(a)
  BY <1>1, <1>a, <1>b, <1>d, EndWire DEF SkipStale, Outcomes
<1>2. CASE InitReply(a)
  <2>1. End(a, "eio") \/ (Goto(a, AfterChunk(f.at)) /\ UNCHANGED out)
    BY <1>2 DEF InitReply, f
  <2>2. CASE End(a, "eio")
    BY <1>a, <1>b, <2>2, EndWire DEF Outcomes
  <2>3. CASE Goto(a, AfterChunk(f.at)) /\ UNCHANGED out
    BY <1>a, <1>b, <2>3, GotoFacts, ActorWire DEF AfterChunk, Pcs
  <2> QED
    BY <2>1, <2>2, <2>3
<1>3. CASE FinalReply(a)
  <2>1. /\ f.cmd = Kind(a)
        /\ \/ UNCHANGED <<mu, pc, out>> \/ End(a, "eio")
           \/ f.res \in {"ok", "exist"} /\ End(a, "ok")
    BY <1>3 DEF FinalReply, Mine, f
  <2> QED
    BY <1>a, <1>b, <1>c, <1>d, <2>1, EndWire DEF Outcomes, Kind
<1>4. CASE DownloadFrame(a)
  <2>1. kind[job[a]] = "download"
    BY <1>0, <1>4 DEF DownloadFrame, Positions
  <2>2. UNCHANGED <<mu, pc, out>> \/ End(a, "eio") \/ End(a, "ok")
    BY <1>4 DEF DownloadFrame
  <2> QED
    BY <1>a, <1>b, <1>d, <2>1, <2>2, EndWire DEF Outcomes
<1>5. CASE AbilityReply(a)
  <2>1. kind[job[a]] # "upload"
    BY <1>0, <1>5 DEF AbilityReply, Positions
  <2>2. End(a, "eio") \/ End(a, "ok")
    BY <1>5 DEF AbilityReply
  <2> QED
    BY <1>a, <1>b, <2>1, <2>2, EndWire DEF Outcomes
<1> QED
  BY <1>1, <1>2, <1>3, <1>4, <1>5

LEMMA ResultWire ==
    ASSUME TypeOK, Positions, WireInv, NEW a \in Actors,
           \/ Deliver(a) \/ CallbackReturns(a) \/ FailJob(a) \/ Release(a) \/ Shutdown(a)
           \/ Throw(a)
    PROVE  WireInv'
<1> USE ActorFacts, TunnelAssumption, ShrinkFacts
<1>1. WireShrinks /\ UNCHANGED kind
  BY DEF Deliver, CallbackReturns, FailJob, Release, DropTunnelRef, Shutdown, Throw, jobVars
<1>2. CASE Deliver(a) \/ CallbackReturns(a) \/ Shutdown(a)
  <2>1. UNCHANGED <<job, out>>
        /\ \E p \in {"callback", "release", "shutdown", "idle"} : Goto(a, p)
    BY <1>2 DEF Deliver, CallbackReturns, Shutdown, xferVars
  <2> QED
    BY <1>1, <2>1, GotoFacts, ActorWire DEF Pcs
<1>3. CASE FailJob(a)
  <2>1. /\ UNCHANGED <<job, out>> /\ pc[a] = "thrown"
        /\ Goto(a, "release") \/ Goto(a, "deliver")
    BY <1>3 DEF FailJob, AfterException, xferVars
  <2>2. a \in Threads => out[a] # "ok"
    BY <2>1 DEF Positions
  <2> QED
    BY <1>1, <2>1, <2>2, GotoFacts, ActorWire DEF Pcs
<1>4. CASE Release(a)
  <2>1. pc'[a] = "idle" /\ \A b \in Actors \ {a} :
            pc'[b] = pc[b] /\ out'[b] = out[b] /\ job'[b] = job[b]
    BY <1>4 DEF Release, Goto, TypeOK
  <2> QED
    BY <1>1, <2>1, ActorWire
<1>5. CASE Throw(a)
  <2>1. pc'[a] = "thrown" /\ \A b \in Actors \ {a} :
            pc'[b] = pc[b] /\ out'[b] = out[b] /\ job'[b] = job[b]
    BY <1>5 DEF Throw, Goto, TypeOK
  <2> QED
    BY <1>1, <2>1, ActorWire
<1> QED
  BY <1>2, <1>3, <1>4, <1>5

LEMMA PrinterWire ==
    ASSUME TypeOK, WireInv, PrinterServes \/ PrinterCloses
    PROVE  WireInv'
<1>1. CASE PrinterServes
  <2>1. UNCHANGED <<pc, out, job, kind>>
    BY <1>1 DEF PrinterServes, xferVars, jobVars
  <2> QED
    BY <1>1, <2>1, ServeFacts DEF WireInv, UploadOkMeansStored, Kind
<1>2. CASE PrinterCloses
  <2>1. UNCHANGED <<pc, out, job, kind, have>> /\ inbox' = <<>> /\ wire' \in {wire, <<>>}
    BY <1>2 DEF PrinterCloses, xferVars, jobVars
  <2>2. WireShrinks
    <3>1. CASE wire' = wire
      BY <2>1, <3>1 DEF WireShrinks
    <3>2. CASE wire' = <<>>
      BY <2>1, <3>2 DEF WireShrinks
    <3> QED
      BY <2>1, <3>1, <3>2
  <2> QED
    BY <2>1, <2>2, WireKept DEF WireInv, UploadOkMeansStored, Kind
<1> QED
  BY <1>1, <1>2

-----------------------------------------------------------------------------
(* References and results are counted.  The tunnel has a reference of the slicer and one
   per running thread, a job has one of the slicer and one per thread that runs it; and
   every start is matched by a result or by a thread that may still deliver one.  A thread
   that was thrown out of its body delivers only if nobody has. *)
Busy == {"lock", "hello", "send", "init", "chunk", "final", "frames", "answer", "deliver"}

WillDeliver(t) == pc[t] \in Busy \/ (pc[t] = "thrown" /\ ~finished[job[t]])

Running == {t \in Threads : pc[t] # "idle"}
RunningOn(j) == {t \in Threads : pc[t] # "idle" /\ job[t] = j}
Pending(j) == {t \in Threads : job[t] = j /\ WillDeliver(t)}

Held(h) == IF h \in owned THEN 1 ELSE 0

Counted ==
    /\ trefs = Cardinality(Running) + Held(Slicer)
    /\ \A j \in Jobs : /\ jrefs[j] = Cardinality(RunningOn(j)) + Held(j)
                       /\ results[j] + Cardinality(Pending(j)) <= starts[j]

Reported == \A t \in Threads : pc[t] = "callback" => finished[job[t]]

CountInv == Counted /\ Reported

LEMMA CardFacts ==
    ASSUME NEW S \in SUBSET Threads
    PROVE  /\ Cardinality(S) \in Nat
           /\ \A t \in Threads \ S : Cardinality(S \cup {t}) = Cardinality(S) + 1
           /\ \A t \in S : Cardinality(S \ {t}) = Cardinality(S) - 1 /\ Cardinality(S) > 0
           /\ \A R \in SUBSET S : Cardinality(R) \in Nat /\ Cardinality(R) <= Cardinality(S)
           /\ S = {} => Cardinality(S) = 0
<1>1. IsFiniteSet(S)
  BY TunnelAssumption, FS_Subset
<1>2. Cardinality(S) \in Nat
  BY <1>1, FS_CardinalityType
<1>3. ASSUME NEW t \in Threads \ S PROVE Cardinality(S \cup {t}) = Cardinality(S) + 1
  BY <1>1, <1>3, FS_AddElement
<1>4. ASSUME NEW t \in S PROVE Cardinality(S \ {t}) = Cardinality(S) - 1 /\ Cardinality(S) > 0
  <2>1. Cardinality(S \ {t}) = Cardinality(S) - 1
    BY <1>1, <1>4, FS_RemoveElement
  <2>2. Cardinality(S) # 0
    BY <1>1, FS_EmptySet
  <2> QED
    BY <1>2, <2>1, <2>2
<1>5. ASSUME NEW R \in SUBSET S
      PROVE  Cardinality(R) \in Nat /\ Cardinality(R) <= Cardinality(S)
  BY <1>1, FS_Subset, FS_CardinalityType
<1>6. S = {} => Cardinality(S) = 0
  BY FS_EmptySet
<1> QED
  BY <1>2, <1>3, <1>4, <1>5, <1>6

\* The references follow from the counts, and so do the properties.
LEMMA CountsGiveRefs ==
    ASSUME Counted, jrefs \in [Jobs -> Int]
    PROVE  /\ trefs \in Nat /\ jrefs \in [Jobs -> Nat]
           /\ Slicer \in owned => trefs > 0
           /\ \A j \in Jobs : j \in owned => jrefs[j] > 0
           /\ \A t \in Threads : pc[t] # "idle" /\ job[t] \in Jobs => trefs > 0 /\ jrefs[job[t]] > 0
           /\ NoLeak
<1>1. /\ Running \in SUBSET Threads
      /\ \A j \in Jobs : RunningOn(j) \in SUBSET Threads
  BY DEF Running, RunningOn
<1>2. Cardinality(Running) \in Nat /\ \A j \in Jobs : Cardinality(RunningOn(j)) \in Nat
  BY <1>1, CardFacts
<1>3. \A h : Held(h) \in {0, 1} /\ (h \in owned => Held(h) = 1)
  BY DEF Held
<1>4. trefs \in Nat /\ \A j \in Jobs : jrefs[j] \in Nat
  BY <1>2, <1>3 DEF Counted
<1>5. ASSUME NEW t \in Threads, pc[t] # "idle", job[t] \in Jobs
      PROVE  trefs > 0 /\ jrefs[job[t]] > 0
  <2>1. t \in Running /\ t \in RunningOn(job[t])
    BY <1>5 DEF Running, RunningOn
  <2>2. Cardinality(Running) > 0 /\ Cardinality(RunningOn(job[t])) > 0
    BY <1>1, <1>5, <2>1, CardFacts
  <2> QED
    BY <1>2, <1>3, <1>5, <2>2 DEF Counted
<1>6. NoLeak
  <2> SUFFICES ASSUME \A a \in Threads : pc[a] = "idle"
               PROVE  /\ trefs = (IF Slicer \in owned THEN 1 ELSE 0)
                      /\ \A j \in Jobs : jrefs[j] = (IF j \in owned THEN 1 ELSE 0)
    BY DEF NoLeak
  <2>1. Running = {} /\ \A j \in Jobs : RunningOn(j) = {}
    BY DEF Running, RunningOn
  <2>2. Cardinality(Running) = 0 /\ \A j \in Jobs : Cardinality(RunningOn(j)) = 0
    BY <1>1, <2>1, CardFacts
  <2> QED
    BY <1>2, <2>2 DEF Counted, Held
<1> QED
  BY <1>2, <1>3, <1>4, <1>5, <1>6 DEF Counted

\* Nothing is counted anew while nobody starts, ends or delivers.
LEMMA CountsKept ==
    ASSUME CountInv, TypeOK, UNCHANGED <<trefs, jrefs, owned, starts, results>>,
           \A t \in Threads : /\ pc'[t] = "idle" <=> pc[t] = "idle"
                              /\ job'[t] = job[t]
                              /\ WillDeliver(t)' => WillDeliver(t)
    PROVE  Counted'
<1>1. Running' = Running /\ \A j \in Jobs : RunningOn(j)' = RunningOn(j)
  BY DEF Running, RunningOn
<1>2. ASSUME NEW j \in Jobs
      PROVE  /\ Cardinality(Pending(j)) \in Nat /\ Cardinality(Pending(j)') \in Nat
             /\ Cardinality(Pending(j)') <= Cardinality(Pending(j))
  <2>1. Pending(j) \in SUBSET Threads /\ Pending(j)' \in SUBSET Pending(j)
    BY DEF Pending
  <2> QED
    BY <2>1, CardFacts
<1>3. \A j \in Jobs : results[j] \in Nat /\ starts[j] \in Nat
  BY DEF TypeOK
<1> QED
  BY <1>1, <1>2, <1>3 DEF CountInv, Counted, Held

\* An actor that stays in its transfer.
LEMMA ActorCounts ==
    ASSUME TypeOK, CountInv, NEW a \in Actors,
           UNCHANGED <<job, finished, trefs, jrefs, owned, starts, results>>,
           \A b \in Actors \ {a} : pc'[b] = pc[b],
           a \in Threads => pc[a] \in Busy /\ pc'[a] \in Busy
    PROVE  CountInv'
<1>1. \A t \in Threads : /\ pc'[t] = "idle" <=> pc[t] = "idle"
                         /\ job'[t] = job[t]
                         /\ WillDeliver(t)' => WillDeliver(t)
  BY ActorFacts DEF WillDeliver, Busy
<1>2. Counted'
  BY <1>1, CountsKept
<1>3. Reported'
  BY ActorFacts DEF CountInv, Reported, Busy
<1> QED
  BY <1>2, <1>3 DEF CountInv

LEMMA TransferCounts ==
    ASSUME TypeOK, Positions, CountInv, NEW a \in Actors,
           \/ Lock(a) \/ Dial(a) \/ DialFails(a) \/ HandshakeStep(a) \/ HandshakeFails(a)
           \/ Send(a) \/ SendFails(a) \/ SendChunk(a) \/ Cancelled(a) \/ PeerGone(a)
           \/ SkipStale(a) \/ InitReply(a) \/ FinalReply(a) \/ DownloadFrame(a)
           \/ AbilityReply(a)
    PROVE  CountInv'
<1>1. UNCHANGED <<job, finished, trefs, jrefs, owned, starts, results>>
  BY DEF Lock, Dial, DialFails, HandshakeStep, HandshakeFails, Send, SendFails, SendChunk,
     Cancelled, PeerGone, SkipStale, InitReply, FinalReply, DownloadFrame, AbilityReply,
     jobVars, refVars, histVars
<1>2. pc[a] \in Busy
  BY DEF Lock, Dial, DialFails, HandshakeStep, HandshakeFails, Send, SendFails, SendChunk,
     Cancelled, PeerGone, SkipStale, InitReply, FinalReply, DownloadFrame, AbilityReply, Busy
<1>3. UNCHANGED pc \/ \E p \in Busy : Goto(a, p) \/ (a = Slicer /\ Goto(a, "idle"))
  <2>1. ASSUME NEW o, End(a, o)
        PROVE  \E p \in Busy : Goto(a, p) \/ (a = Slicer /\ Goto(a, "idle"))
    BY <2>1 DEF End, Busy
  <2>2. CASE Lock(a) \/ Dial(a) \/ DialFails(a)
    BY <2>1, <2>2 DEF Lock, Dial, DialFails, Busy
  <2>3. CASE HandshakeStep(a) \/ HandshakeFails(a)
    BY <2>1, <2>3 DEF HandshakeStep, HandshakeFails, Busy
  <2>4. CASE Send(a)
    <3> DEFINE p == CASE Kind(a) = "upload"   -> "init"
                      [] Kind(a) = "download" -> "frames"
                      [] OTHER                -> "answer"
    <3>1. Goto(a, p)
      BY <2>4 DEF Send
    <3>2. p \in Busy
      BY DEF Busy
    <3> QED
      BY <3>1, <3>2
  <2>5. CASE SendFails(a) \/ SendChunk(a) \/ Cancelled(a) \/ PeerGone(a)
    BY <2>1, <2>5 DEF SendFails, SendChunk, Cancelled, PeerGone, AfterChunk, Busy
  <2>6. CASE SkipStale(a) \/ InitReply(a) \/ AbilityReply(a)
    BY <2>1, <2>6 DEF SkipStale, InitReply, AbilityReply, AfterChunk, Busy
  <2>7. CASE FinalReply(a) \/ DownloadFrame(a)
    BY <2>1, <2>7 DEF FinalReply, DownloadFrame
  <2> QED
    BY <2>2, <2>3, <2>4, <2>5, <2>6, <2>7
<1>4. /\ \A b \in Actors \ {a} : pc'[b] = pc[b]
      /\ a \in Threads => pc'[a] \in Busy
  BY <1>2, <1>3, TunnelAssumption DEF Goto, TypeOK
<1> QED
  BY <1>1, <1>2, <1>4, ActorCounts

LEMMA ResultCounts ==
    ASSUME TypeOK, Positions, CountInv, NEW a \in Actors,
           \/ Deliver(a) \/ CallbackReturns(a) \/ FailJob(a) \/ Shutdown(a) \/ Throw(a)
    PROVE  CountInv'
<1> USE ActorFacts, TunnelAssumption
<1>1. UNCHANGED <<job, trefs, jrefs, owned, starts>>
  BY DEF Deliver, CallbackReturns, FailJob, Shutdown, Throw, refVars, histVars
<1>2. CASE Deliver(a)
  <2>1. a \in Threads /\ job[a] \in Jobs /\ pc[a] = "deliver"
    BY <1>2 DEF Deliver, Positions
  <2>2. /\ pc'[a] = "callback" /\ \A b \in Actors \ {a} : pc'[b] = pc[b]
        /\ finished'[job[a]] = TRUE /\ \A j \in Jobs : finished[j] => finished'[j]
        /\ results'[job[a]] = results[job[a]] + 1
        /\ \A j \in Jobs \ {job[a]} : results'[j] = results[j]
    BY <1>2, <2>1 DEF Deliver, Goto, TypeOK
  <2>3. Running' = Running /\ \A j \in Jobs : RunningOn(j)' = RunningOn(j)
    BY <1>1, <2>1, <2>2 DEF Running, RunningOn
  <2>4. \A j \in Jobs :
           /\ Pending(j)' \in SUBSET Pending(j) /\ Pending(j) \in SUBSET Threads
           /\ j = job[a] => /\ Pending(j)' \in SUBSET (Pending(j) \ {a})
                            /\ a \in Pending(j)
    BY <1>1, <2>1, <2>2 DEF Pending, WillDeliver, Busy
  <2>5. \A j \in Jobs : results[j] \in Nat /\ starts[j] \in Nat
    BY DEF TypeOK
  <2>6. ASSUME NEW j \in Jobs PROVE results'[j] + Cardinality(Pending(j)') <= starts'[j]
    <3>1. CASE j = job[a]
      <4>1. /\ Cardinality(Pending(j)) \in Nat
            /\ Cardinality(Pending(j) \ {a}) = Cardinality(Pending(j)) - 1
        BY <2>4, <3>1, CardFacts
      <4> DEFINE S == Pending(j) \ {a}
                 R == Pending(j)'
      <4>2. S \in SUBSET Threads /\ R \in SUBSET S
        BY <2>4, <3>1
      <4> HIDE DEF S, R
      <4>a. Cardinality(R) \in Nat /\ Cardinality(R) <= Cardinality(S)
        BY <4>2, CardFacts
      <4>3. /\ Cardinality(Pending(j)') \in Nat
            /\ Cardinality(Pending(j)') <= Cardinality(Pending(j) \ {a})
        BY <4>a DEF S, R
      <4> QED
        BY <1>1, <2>2, <2>5, <3>1, <4>1, <4>3 DEF CountInv, Counted
    <3>2. CASE j # job[a]
      <4>1. /\ Cardinality(Pending(j)) \in Nat /\ Cardinality(Pending(j)') \in Nat
            /\ Cardinality(Pending(j)') <= Cardinality(Pending(j))
        BY <2>4, CardFacts
      <4> QED
        BY <1>1, <2>2, <2>5, <3>2, <4>1 DEF CountInv, Counted
    <3> QED
      BY <3>1, <3>2
  <2>7. Counted'
    BY <1>1, <2>3, <2>6 DEF CountInv, Counted, Held
  <2>8. Reported'
    BY <1>1, <2>1, <2>2 DEF CountInv, Reported, Positions
  <2> QED
    BY <2>7, <2>8 DEF CountInv
<1>3. CASE CallbackReturns(a) \/ FailJob(a) \/ Shutdown(a) \/ Throw(a)
  <2>1. UNCHANGED <<results, finished>>
    BY <1>3 DEF CallbackReturns, FailJob, Shutdown, Throw, histVars, jobVars
  <2>2. PICK p \in Pcs : /\ Goto(a, p) /\ p # "callback"
                         /\ a \in Threads => p # "idle" /\ pc[a] # "idle"
                         /\ p \in Busy => pc[a] = "thrown" /\ ~finished[job[a]]
                         /\ p = "thrown" => pc[a] \in Busy \cup {"callback"}
    <3>1. CASE CallbackReturns(a)
      BY <1>3, <3>1 DEF CallbackReturns, Pcs, Busy
    <3>2. CASE FailJob(a)
      BY <1>3, <3>2 DEF FailJob, AfterException, Pcs, Busy
    <3>3. CASE Shutdown(a)
      BY <1>3, <3>3 DEF Shutdown, Pcs, Busy
    <3>4. CASE Throw(a)
      BY <1>3, <3>4 DEF Throw, Pcs, Busy
    <3> QED
      BY <1>3, <3>1, <3>2, <3>3, <3>4
  <2>3. pc'[a] = p /\ \A b \in Actors \ {a} : pc'[b] = pc[b]
    BY <2>2, GotoFacts
  <2>4. \A t \in Threads : /\ pc'[t] = "idle" <=> pc[t] = "idle"
                           /\ job'[t] = job[t]
                           /\ WillDeliver(t)' => WillDeliver(t)
    BY <1>1, <2>1, <2>2, <2>3 DEF WillDeliver, Busy, CountInv, Reported
  <2>5. Counted'
    BY <1>1, <2>1, <2>4, CountsKept
  <2>6. Reported'
    BY <1>1, <2>1, <2>2, <2>3 DEF CountInv, Reported
  <2> QED
    BY <2>5, <2>6 DEF CountInv
<1> QED
  BY <1>2, <1>3

\* The thread ends and drops its references.
LEMMA ReleaseCounts ==
    ASSUME TypeOK, Positions, CountInv, NEW a \in Actors, Release(a)
    PROVE  CountInv'
<1> USE ActorFacts, TunnelAssumption
<1>1. a \in Threads /\ job[a] \in Jobs /\ pc[a] = "release"
  BY DEF Release, Positions
<1>2. /\ pc'[a] = "idle" /\ \A b \in Actors \ {a} : pc'[b] = pc[b] /\ job'[b] = job[b]
      /\ job'[a] = NoJob /\ trefs' = trefs - 1
      /\ jrefs'[job[a]] = jrefs[job[a]] - 1
      /\ \A j \in Jobs \ {job[a]} : jrefs'[j] = jrefs[j]
      /\ UNCHANGED <<finished, owned, starts, results>>
  BY <1>1 DEF Release, Goto, DropTunnelRef, TypeOK, jobVars, histVars
<1> DEFINE k == job[a]
<1>3. /\ Running' = Running \ {a} /\ a \in Running
      /\ {t \in Threads : pc'[t] # "idle" /\ job'[t] = k} = RunningOn(k) \ {a}
      /\ a \in RunningOn(k)
      /\ \A j \in Jobs \ {k} : RunningOn(j)' = RunningOn(j)
  <2>1. Running' = Running \ {a} /\ a \in Running
    BY <1>1, <1>2 DEF Running
  <2>2. {t \in Threads : pc'[t] # "idle" /\ job'[t] = k} = RunningOn(k) \ {a}
        /\ a \in RunningOn(k)
    BY <1>1, <1>2 DEF RunningOn
  <2>3. \A j \in Jobs \ {k} : RunningOn(j)' = RunningOn(j)
    BY <1>1, <1>2 DEF RunningOn
  <2> QED
    BY <2>1, <2>2, <2>3
<1>4. \A j \in Jobs : Pending(j)' = Pending(j)
  BY <1>1, <1>2 DEF Pending, WillDeliver, Busy
<1>5. Running \in SUBSET Threads /\ \A j \in Jobs : RunningOn(j) \in SUBSET Threads
  BY DEF Running, RunningOn
<1>6. /\ Cardinality(Running) \in Nat /\ Cardinality(Running') = Cardinality(Running) - 1
      /\ Cardinality(RunningOn(job[a])) \in Nat
      /\ Cardinality(RunningOn(k) \ {a}) = Cardinality(RunningOn(k)) - 1
  BY <1>1, <1>3, <1>5, CardFacts
<1>7. \A h : Held(h)' = Held(h) /\ Held(h) \in {0, 1}
  BY <1>2 DEF Held
<1>8. trefs' = Cardinality(Running') + Held(Slicer)'
  BY <1>2, <1>6, <1>7 DEF CountInv, Counted
<1>9. ASSUME NEW j \in Jobs
      PROVE  /\ jrefs'[j] = Cardinality(RunningOn(j)') + Held(j)'
             /\ results'[j] + Cardinality(Pending(j)') <= starts'[j]
  <2>1. CASE j = k
    <3>1. RunningOn(j)' = RunningOn(k) \ {a}
      BY <1>3, <2>1 DEF RunningOn
    <3>2. Cardinality(RunningOn(j)') = Cardinality(RunningOn(j)) - 1
      BY <1>6, <2>1, <3>1
    <3>3. /\ jrefs'[j] = jrefs[j] - 1 /\ jrefs[j] = Cardinality(RunningOn(j)) + Held(j)
          /\ Cardinality(RunningOn(j)) \in Nat
      BY <1>2, <1>6, <2>1 DEF CountInv, Counted
    <3>4. jrefs'[j] = Cardinality(RunningOn(j)') + Held(j)'
      BY <1>7, <3>2, <3>3
    <3> QED
      BY <1>2, <1>4, <3>4 DEF CountInv, Counted
  <2>2. CASE j # job[a]
    BY <1>2, <1>3, <1>4, <1>7, <2>2 DEF CountInv, Counted
  <2> QED
    BY <2>1, <2>2
<1>10. Reported'
  BY <1>1, <1>2 DEF CountInv, Reported
<1> QED
  BY <1>8, <1>9, <1>10 DEF CountInv, Counted

\* The slicer's calls.
LEMMA StartCounts ==
    ASSUME TypeOK, CountInv, NEW j \in Jobs, NEW t \in Threads, StartJob(j, t)
    PROVE  CountInv'
<1> USE ActorFacts, TunnelAssumption
<1>1. /\ pc[t] = "idle" /\ pc'[t] \in {"lock", "deliver"} /\ job'[t] = j
      /\ \A b \in Actors \ {t} : pc'[b] = pc[b] /\ job'[b] = job[b]
      /\ trefs' = trefs + 1 /\ jrefs'[j] = jrefs[j] + 1 /\ starts'[j] = starts[j] + 1
      /\ \A i \in Jobs \ {j} : jrefs'[i] = jrefs[i] /\ starts'[i] = starts[i]
      /\ UNCHANGED <<finished, owned, results>>
  BY DEF StartJob, Goto, Retained, TypeOK, jobVars
<1>2. Running' = Running \cup {t} /\ t \notin Running /\ Running \in SUBSET Threads
  BY <1>1 DEF Running
<1>3. \A i \in Jobs : /\ RunningOn(i) \in SUBSET Threads /\ Pending(i) \in SUBSET Threads
                      /\ i # j => RunningOn(i)' = RunningOn(i) /\ Pending(i)' = Pending(i)
  BY <1>1 DEF RunningOn, Pending, WillDeliver, Busy
<1>4. /\ RunningOn(j)' = RunningOn(j) \cup {t} /\ t \notin RunningOn(j)
      /\ Pending(j)' = Pending(j) \cup {t} /\ t \notin Pending(j)
  BY <1>1 DEF RunningOn, Pending, WillDeliver, Busy
<1>5. /\ Cardinality(Running) \in Nat /\ Cardinality(Running') = Cardinality(Running) + 1
      /\ Cardinality(RunningOn(j)) \in Nat
      /\ Cardinality(RunningOn(j)') = Cardinality(RunningOn(j)) + 1
      /\ Cardinality(Pending(j)) \in Nat
      /\ Cardinality(Pending(j)') = Cardinality(Pending(j)) + 1
  BY <1>2, <1>3, <1>4, CardFacts
<1>6. \A h : Held(h)' = Held(h) /\ Held(h) \in {0, 1}
  BY <1>1 DEF Held
<1>7. trefs' = Cardinality(Running') + Held(Slicer)'
  BY <1>1, <1>5, <1>6 DEF CountInv, Counted
<1>8. ASSUME NEW i \in Jobs
      PROVE  /\ jrefs'[i] = Cardinality(RunningOn(i)') + Held(i)'
             /\ results'[i] + Cardinality(Pending(i)') <= starts'[i]
  <2>0. results[i] \in Nat /\ starts[i] \in Nat
    BY DEF TypeOK
  <2>1. CASE i = j
    <3>1. /\ jrefs[j] = Cardinality(RunningOn(j)) + Held(j)
          /\ results[j] + Cardinality(Pending(j)) <= starts[j]
      BY DEF CountInv, Counted
    <3>2. jrefs'[j] = Cardinality(RunningOn(j)') + Held(j)'
      BY <1>1, <1>5, <1>6, <3>1
    <3>3. results'[j] + Cardinality(Pending(j)') <= starts'[j]
      BY <1>1, <1>5, <2>0, <2>1, <3>1
    <3> QED
      BY <2>1, <3>2, <3>3
  <2>2. CASE i # j
    BY <1>1, <1>3, <1>6, <2>2 DEF CountInv, Counted
  <2> QED
    BY <2>1, <2>2
<1>9. Reported'
  BY <1>1 DEF CountInv, Reported
<1> QED
  BY <1>7, <1>8, <1>9 DEF CountInv, Counted

LEMMA CallCounts ==
    ASSUME TypeOK, Positions, CountInv,
           \/ StartConnect \/ CallShutdown \/ ReleaseTunnel
           \/ \E j \in Jobs : StartStub(j) \/ Cancel(j) \/ ReleaseJob(j)
           \/ \E j \in Jobs, t \in Threads : StartJob(j, t)
    PROVE  CountInv'
<1> USE ActorFacts, TunnelAssumption
<1>1. ASSUME StartConnect \/ CallShutdown PROVE CountInv'
  <2>1. /\ UNCHANGED <<job, finished, trefs, jrefs, owned, starts, results>>
        /\ \E p \in Pcs : Goto(Slicer, p)
    BY <1>1 DEF StartConnect, CallShutdown, jobVars, refVars, histVars, Pcs
  <2>2. \A b \in Actors \ {Slicer} : pc'[b] = pc[b]
    BY <2>1, GotoFacts
  <2> QED
    BY <2>1, <2>2, ActorCounts
<1>2. ASSUME ReleaseTunnel PROVE CountInv'
  <2>1. /\ Slicer \in owned /\ owned' = owned \ {Slicer} /\ trefs' = trefs - 1
        /\ UNCHANGED <<pc, job, finished, jrefs, starts, results>>
    BY <1>2 DEF ReleaseTunnel, DropTunnelRef, jobVars, histVars
  <2>2. Running' = Running /\ \A j \in Jobs : RunningOn(j)' = RunningOn(j) /\ Pending(j)' = Pending(j)
    BY <2>1 DEF Running, RunningOn, Pending, WillDeliver
  <2>3. Cardinality(Running) \in Nat
    <3>1. Running \in SUBSET Threads
      BY DEF Running
    <3> QED
      BY <3>1, CardFacts
  <2>4. trefs' = Cardinality(Running') + Held(Slicer)'
    BY <2>1, <2>2, <2>3 DEF CountInv, Counted, Held
  <2>5. ASSUME NEW j \in Jobs PROVE Held(j)' = Held(j)
    BY <2>1, <2>5 DEF Held
  <2> QED
    BY <2>1, <2>2, <2>4, <2>5 DEF CountInv, Counted, Reported
<1>3. ASSUME NEW j \in Jobs, StartStub(j) PROVE CountInv'
  <2>1. /\ starts[j] = 0 /\ starts'[j] = 1 /\ results'[j] = 1
        /\ \A i \in Jobs \ {j} : starts'[i] = starts[i] /\ results'[i] = results[i]
        /\ \A i \in Jobs : finished[i] => finished'[i]
        /\ UNCHANGED <<pc, job, trefs, jrefs, owned>>
    BY <1>3 DEF StartStub, TypeOK, refVars
  <2>2. Running' = Running /\ \A i \in Jobs : RunningOn(i)' = RunningOn(i)
    BY <2>1 DEF Running, RunningOn
  <2>3. \A i \in Jobs : Pending(i)' \in SUBSET Pending(i) /\ Pending(i) \in SUBSET Threads
    BY <2>1 DEF Pending, WillDeliver
  <2>4. \A i \in Jobs : /\ Cardinality(Pending(i)) \in Nat /\ Cardinality(Pending(i)') \in Nat
                        /\ Cardinality(Pending(i)') <= Cardinality(Pending(i))
                        /\ results[i] \in Nat /\ starts[i] \in Nat
    BY <2>3, CardFacts DEF TypeOK
  <2>5. \A i \in Jobs : results[i] + Cardinality(Pending(i)) <= starts[i]
    BY DEF CountInv, Counted
  <2>6. ASSUME NEW i \in Jobs PROVE results'[i] + Cardinality(Pending(i)') <= starts'[i]
    <3>1. CASE i = j
      BY <2>1, <2>4, <2>5, <3>1
    <3>2. CASE i # j
      BY <2>1, <2>4, <2>5, <3>2
    <3> QED
      BY <3>1, <3>2
  <2>7. Reported'
    BY <2>1 DEF CountInv, Reported, Positions
  <2> QED
    BY <2>1, <2>2, <2>6, <2>7 DEF CountInv, Counted, Held
<1>4. ASSUME NEW j \in Jobs, Cancel(j) PROVE CountInv'
  <2>1. UNCHANGED <<pc, job, finished, trefs, jrefs, owned, starts, results>>
    BY <1>4 DEF Cancel, refVars
  <2>2. Counted'
    BY <2>1, CountsKept DEF WillDeliver
  <2> QED
    BY <2>1, <2>2 DEF CountInv, Reported
<1>5. ASSUME NEW j \in Jobs, ReleaseJob(j) PROVE CountInv'
  <2>1. /\ j \in owned /\ owned' = owned \ {j} /\ jrefs'[j] = jrefs[j] - 1
        /\ \A i \in Jobs \ {j} : jrefs'[i] = jrefs[i]
        /\ UNCHANGED <<pc, job, finished, trefs, starts, results>>
    BY <1>5 DEF ReleaseJob, TypeOK, jobVars, histVars
  <2>2. Running' = Running /\ \A i \in Jobs : RunningOn(i)' = RunningOn(i) /\ Pending(i)' = Pending(i)
    BY <2>1 DEF Running, RunningOn, Pending, WillDeliver
  <2>3. \A i \in Jobs : Cardinality(RunningOn(i)) \in Nat
    <3>1. \A i \in Jobs : RunningOn(i) \in SUBSET Threads
      BY DEF RunningOn
    <3> QED
      BY <3>1, CardFacts
  <2>4. Held(j) = 1 /\ Held(j)' = 0 /\ \A i \in Jobs \ {j} : Held(i)' = Held(i)
    BY <2>1 DEF Held
  <2>5. Held(Slicer)' = Held(Slicer)
    BY <2>1 DEF Held
  <2>6. \A i \in Jobs : jrefs'[i] = Cardinality(RunningOn(i)) + Held(i)'
    BY <2>1, <2>3, <2>4 DEF CountInv, Counted
  <2> QED
    BY <2>1, <2>2, <2>5, <2>6 DEF CountInv, Counted, Reported
<1> QED
  BY <1>1, <1>2, <1>3, <1>4, <1>5, StartCounts

-----------------------------------------------------------------------------
(* All of it together. *)
TunnelInv == TypeOK /\ Positions /\ WireInv /\ CountInv

LEMMA TunnelInit == Init => TunnelInv
<1> SUFFICES ASSUME Init PROVE TunnelInv
  OBVIOUS
<1>1. WireInv
  BY ActorFacts DEF Init, WireInv, ChunksWhole, AnswersTrue, UploadOkMeansStored
<1>2. \A t \in Threads : pc[t] = "idle"
  BY ActorFacts DEF Init
<1>3. Running = {} /\ \A j \in Jobs : RunningOn(j) = {} /\ Pending(j) = {}
  BY <1>2 DEF Running, RunningOn, Pending, WillDeliver, Busy
<1>4. Cardinality({}) = 0
  BY FS_EmptySet
<1>5. Counted
  <2>1. Held(Slicer) = 1 /\ \A j \in Jobs : Held(j) = 1
    BY DEF Init, Held
  <2>2. trefs = 1 /\ \A j \in Jobs : jrefs[j] = 1 /\ results[j] = 0 /\ starts[j] = 0
    BY DEF Init
  <2>3. /\ Cardinality(Running) = 0
        /\ \A j \in Jobs : Cardinality(RunningOn(j)) = 0 /\ Cardinality(Pending(j)) = 0
    BY <1>3, <1>4
  <2> QED
    BY <2>1, <2>2, <2>3 DEF Counted
<1>6. Reported
  BY <1>2 DEF Reported
<1> QED
  BY <1>1, <1>5, <1>6, InitHolds DEF TunnelInv, CountInv

LEMMA TunnelStep == TunnelInv /\ [Next]_vars => TunnelInv'
<1> SUFFICES ASSUME TypeOK, Positions, WireInv, CountInv, [Next]_vars PROVE TunnelInv'
  BY DEF TunnelInv
<1> USE Groups
<1>0. ASSUME TypesAndPositions', CountInv', WireInv',
             jrefs' \in [Jobs -> Int] /\ owned' \subseteq Jobs \cup {Slicer}
      PROVE  TunnelInv'
  <2>1. trefs' \in Nat /\ jrefs' \in [Jobs -> Nat]
    <3>1. Running' \in SUBSET Threads /\ \A j \in Jobs : RunningOn(j)' \in SUBSET Threads
      BY DEF Running, RunningOn
    <3>2. Cardinality(Running') \in Nat /\ \A j \in Jobs : Cardinality(RunningOn(j)') \in Nat
      BY <3>1, CardFacts
    <3>3. Held(Slicer)' \in {0, 1} /\ \A j \in Jobs : Held(j)' \in {0, 1}
      BY DEF Held
    <3>4. /\ trefs' = Cardinality(Running') + Held(Slicer)'
          /\ \A j \in Jobs : jrefs'[j] = Cardinality(RunningOn(j)') + Held(j)'
      BY <1>0 DEF CountInv, Counted
    <3>5. trefs' \in Nat /\ \A j \in Jobs : jrefs'[j] \in Nat
      BY <3>2, <3>3, <3>4
    <3> QED
      BY <1>0, <3>5
  <2>2. RefOK'
    BY <1>0, <2>1 DEF RefOK
  <2>3. TypeOK'
    BY <1>0, <2>2 DEF TypesAndPositions, TypeOK, SideOK, ConnOK, WireOK, JobOK, RefOK, PcOK,
       XferOK, HistOK
  <2> QED
    BY <1>0, <2>3 DEF TunnelInv, TypesAndPositions
<1>a. UNCHANGED refVars => jrefs' \in [Jobs -> Int] /\ owned' \subseteq Jobs \cup {Slicer}
  BY DEF RefOK, refVars
<1>1. ASSUME \/ StartConnect \/ CallShutdown \/ ReleaseTunnel
             \/ \E j \in Jobs : StartStub(j) \/ Cancel(j) \/ ReleaseJob(j)
             \/ \E j \in Jobs, t \in Threads : StartJob(j, t)
      PROVE  TunnelInv'
  <2>1. jrefs' \in [Jobs -> Int] /\ owned' \subseteq Jobs \cup {Slicer}
    <3>1. CASE StartConnect \/ CallShutdown \/ \E j \in Jobs : StartStub(j) \/ Cancel(j)
      BY <1>a, <3>1 DEF StartConnect, CallShutdown, StartStub, Cancel
    <3>2. CASE ReleaseTunnel
      BY <3>2 DEF ReleaseTunnel, RefOK
    <3>3. CASE \E j \in Jobs : ReleaseJob(j)
      BY <3>3 DEF ReleaseJob, RefOK
    <3>4. CASE \E j \in Jobs, t \in Threads : StartJob(j, t)
      BY <3>4 DEF StartJob, Retained, RefOK
    <3> QED
      BY <1>1, <3>1, <3>2, <3>3, <3>4
  <2> QED
    BY <1>0, <1>1, <2>1, CallTypes, CallWire, CallCounts
<1>2. ASSUME NEW a \in Actors, Work(a) \/ Throw(a) PROVE TunnelInv'
  <2>1. CASE \/ Lock(a) \/ Dial(a) \/ DialFails(a) \/ HandshakeStep(a) \/ HandshakeFails(a)
             \/ Send(a) \/ SendFails(a) \/ SendChunk(a) \/ Cancelled(a) \/ PeerGone(a)
             \/ SkipStale(a) \/ InitReply(a) \/ FinalReply(a) \/ DownloadFrame(a)
             \/ AbilityReply(a)
    <3>1. UNCHANGED refVars
      BY <2>1 DEF Lock, Dial, DialFails, HandshakeStep, HandshakeFails, Send, SendFails,
         SendChunk, Cancelled, PeerGone, SkipStale, InitReply, FinalReply, DownloadFrame,
         AbilityReply
    <3>2. TypesAndPositions' /\ WireInv'
      BY <2>1, ConnectTypes, SendTypes, ReplyTypes, ConnectWire, SendWire, ReplyWire
    <3> QED
      BY <1>0, <1>a, <2>1, <3>1, <3>2, TransferCounts
  <2>2. CASE \/ Deliver(a) \/ CallbackReturns(a) \/ FailJob(a) \/ Shutdown(a) \/ Throw(a)
    <3>1. UNCHANGED refVars
      BY <2>2 DEF Deliver, CallbackReturns, FailJob, Shutdown, Throw
    <3> QED
      BY <1>0, <1>a, <2>2, <3>1, ResultTypes, ResultWire, ResultCounts
  <2>3. CASE Release(a)
    <3>1. job[a] \in Jobs
      BY <2>3, ActorFacts DEF Release, Positions
    <3>2. jrefs' \in [Jobs -> Int] /\ owned' \subseteq Jobs \cup {Slicer}
      BY <2>3, <3>1 DEF Release, RefOK
    <3> QED
      BY <1>0, <2>3, <3>2, ResultTypes, ResultWire, ReleaseCounts
  <2> QED
    BY <1>2, <2>1, <2>2, <2>3 DEF Work
<1>3. CASE PrinterServes \/ PrinterCloses
  <2>1. UNCHANGED <<pc, job, finished, trefs, jrefs, owned, starts, results>>
    BY <1>3 DEF PrinterServes, PrinterCloses, jobVars, refVars, histVars
  <2>2. Counted'
    BY <2>1, CountsKept DEF WillDeliver
  <2>3. CountInv'
    BY <2>1, <2>2 DEF CountInv, Reported
  <2>4. UNCHANGED refVars
    BY <2>1 DEF refVars
  <2> QED
    BY <1>0, <1>a, <1>3, <2>3, <2>4, PrinterTypes, PrinterWire
<1>4. CASE UNCHANGED vars
  <2>1. UNCHANGED <<pc, job, finished, trefs, jrefs, owned, starts, results, kind, out,
                    off, hashed, inbox, wire, have>>
    BY <1>4 DEF vars, jobVars, refVars, histVars, xferVars, wireVars
  <2>2. Counted'
    BY <2>1, CountsKept DEF WillDeliver
  <2>3. CountInv' /\ WireInv' /\ Positions'
    BY <2>1, <2>2 DEF CountInv, Reported, WireInv, ChunksWhole, AnswersTrue,
       UploadOkMeansStored, Kind, Positions
  <2>4. TypeOK'
    BY <1>4 DEF vars, connVars, wireVars, jobVars, refVars, xferVars, histVars, TypeOK
  <2> QED
    BY <2>3, <2>4 DEF TunnelInv
<1> QED
  BY <1>1, <1>2, <1>3, <1>4 DEF Next, Quiet

LEMMA TunnelInvAlways == Spec => []TunnelInv
BY TunnelInit, TunnelStep, PTL DEF Spec

\* Handles are counted exactly: no thread outlives its job or its tunnel, nothing leaks,
\* and a start is answered at most once, for any number of jobs, threads and faults.
THEOREM HandlesHold == Spec => []HandlesSound
<1>1. TunnelInv => HandlesSound
  <2> SUFFICES ASSUME TunnelInv PROVE HandlesSound
    OBVIOUS
  <2>1. TypeOK /\ Positions /\ Counted
    BY DEF TunnelInv, CountInv
  <2>2. jrefs \in [Jobs -> Int]
    BY <2>1 DEF TypeOK
  <2>3. NoLeak /\ NoUseAfterFree
    BY <2>1, <2>2, CountsGiveRefs DEF Positions, NoUseAfterFree
  <2>4. OneResultPerStart
    <3>1. ASSUME NEW j \in Jobs PROVE results[j] <= starts[j]
      <4>1. Pending(j) \in SUBSET Threads
        BY DEF Pending
      <4>2. Cardinality(Pending(j)) \in Nat /\ results[j] \in Nat /\ starts[j] \in Nat
        BY <2>1, <4>1, CardFacts DEF TypeOK
      <4> QED
        BY <2>1, <4>2 DEF Counted
    <3> QED
      BY <3>1 DEF OneResultPerStart
  <2> QED
    BY <2>1, <2>3, <2>4 DEF HandlesSound
<1> QED
  BY <1>1, TunnelInvAlways, PTL

\* The digest of the last chunk covers the whole file, and an upload that reports success
\* is stored, whatever replies of other transfers are still on the shared connection.
THEOREM UploadsAreWhole == Spec => []UploadIsWhole
<1>1. TunnelInv => UploadIsWhole
  BY DEF TunnelInv, WireInv, ChunksWhole, UploadIsWhole, DigestCoversFile
<1> QED
  BY <1>1, TunnelInvAlways, PTL
=============================================================================
