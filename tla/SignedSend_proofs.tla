------------------------- MODULE SignedSend_proofs -------------------------
(***************************************************************************)
(* TLAPS proofs about SignedSend: its safety invariants for any number of  *)
(* printers, senders, workers, legs, tasks and certificates.               *)
(***************************************************************************)
EXTENDS SignedSend, TLAPS

\* Requests carry a certificate, and a device with an answer under way has one.
Handshake ==
    \A d \in Devs : /\ 0 \notin req[d]
                    /\ acks[d] # {} => installed[d] # 0

\* Nobody re-sent a task that rescued_tasks_ does not hold.
Recorded == \A k \in Tasks \ rescued : resends[k] = 0

Safe == LatchMeansInstalled /\ InflightHasWorker /\ RescueOnce /\ Handshake /\ Recorded

\* What ensure_app_cert_material_ does to its flags and its workers.
LEMMA EnsureFacts ==
    ASSUME TypeOK, InflightHasWorker, EnsureMaterial
    PROVE  /\ inflight' \in BOOLEAN /\ backoff' \in BOOLEAN
           /\ fpc' \in [Fetchers -> FetchPcs] /\ fver' = fver
           /\ InflightHasWorker'
<1>1. CASE inflight \/ backoff
  BY <1>1 DEF EnsureMaterial, TypeOK, InflightHasWorker, fetchVars
<1>2. CASE ~(inflight \/ backoff)
  BY <1>2 DEF EnsureMaterial, TypeOK, InflightHasWorker, FetchPcs, Fetchers
<1>3. QED
  BY <1>1, <1>2

\* The key is absent or one of the issued ones.
LEMMA KeyType == ASSUME TypeOK PROVE Key \in Versions
BY SignedAssumption DEF TypeOK, Key, Cached, NotLoaded, Versions

\* Versions and cache values.
LEMMA VersionFacts == 0 \in Versions /\ 1 \in Versions /\ NotLoaded \in Cached
                      /\ Versions \subseteq Cached
BY SignedAssumption DEF Versions, Cached, NotLoaded

\* What StartSend leaves in the sender's locals.
LEMMA StartFacts ==
    ASSUME TypeOK, NEW s \in Senders, NEW d \in Devs, NEW k \in Jobs, StartSend(s, d, k)
    PROVE  /\ pc' \in [Senders -> SendPcs] /\ dev' \in [Senders -> Devs]
           /\ task' \in [Senders -> Jobs] /\ lan' \in [Senders -> BOOLEAN]
           /\ sig' = sig
BY DEF StartSend, TypeOK, SendPcs

\* Steps of the fetchers.
LEMMA FetchSafe ==
    ASSUME TypeOK, Safe, NEW f \in Fetchers, FetchStep(f)
    PROVE  TypeOK' /\ Safe'
<1> USE VersionFacts DEF TypeOK, FetchPcs, diskVars, devVars, sendVars, rescueVars
<1>1. UNCHANGED <<flagged, req, acks, installed, sendVars, rescueVars>>
  BY DEF FetchStep, FetchGet, FetchFails, FetchCert, FetchKey, FetchCache,
         FetchFlag, FetchLatches
<1>2. latch' \subseteq latch
  BY DEF FetchStep, FetchGet, FetchFails, FetchCert, FetchKey, FetchCache,
         FetchFlag, FetchLatches
<1>3. TypeOK' /\ InflightHasWorker'
  <2> USE DEF Safe, InflightHasWorker
  <2>1. CASE FetchGet(f)
    BY <2>1 DEF FetchGet, Fetchers
  <2>2. CASE FetchFails(f)
    BY <2>2 DEF FetchFails, Fetchers
  <2>3. CASE FetchCert(f)
    BY <2>3 DEF FetchCert, Fetchers
  <2>4. CASE FetchKey(f)
    BY <2>4 DEF FetchKey, Fetchers
  <2>5. CASE FetchCache(f)
    BY <2>5 DEF FetchCache, Fetchers
  <2>6. CASE FetchFlag(f)
    BY <2>6 DEF FetchFlag, Fetchers
  <2>7. CASE FetchLatches(f)
    BY <2>7 DEF FetchLatches, Fetchers
  <2>8. QED
    BY <2>1, <2>2, <2>3, <2>4, <2>5, <2>6, <2>7 DEF FetchStep
<1>4. LatchMeansInstalled' /\ RescueOnce' /\ Handshake' /\ Recorded'
  BY <1>1, <1>2 DEF Safe, LatchMeansInstalled, RescueOnce, Handshake, Recorded
<1>5. QED
  BY <1>3, <1>4 DEF Safe

\* The fetch flags and workers stay as they were.
LEMMA FetchUntouched ==
    ASSUME TypeOK, InflightHasWorker, UNCHANGED fetchVars
    PROVE  /\ inflight' \in BOOLEAN /\ backoff' \in BOOLEAN
           /\ fpc' \in [Fetchers -> FetchPcs] /\ fver' = fver
           /\ InflightHasWorker'
BY DEF TypeOK, InflightHasWorker, fetchVars

\* A published install request names the certificate on disk.
LEMMA RequestFacts ==
    ASSUME TypeOK, Handshake, NEW d \in Devs, Usable, Request(d)
    PROVE  /\ req' \in [Devs -> SUBSET Versions]
           /\ \A e \in Devs : 0 \notin req'[e]
BY DEF Request, TypeOK, Handshake, Usable

\* Steps of the senders.
LEMMA SendSafe ==
    ASSUME TypeOK, Safe, NEW s \in Senders, SendStep(s)
    PROVE  TypeOK' /\ Safe'
<1> USE VersionFacts, KeyType, FetchUntouched, EnsureFacts
    DEF diskVars, devVars, sendVars, rescueVars
<1>1. UNCHANGED <<certDisk, keyDisk, latch, flagged, acks, installed, rescued, resends>>
  BY DEF SendStep, CheckKey, PollEnds, AskAck, AckArrives, AckTimeout, Sign, Publish,
         FallBack
<1>2. RescueOnce' /\ Recorded' /\ LatchMeansInstalled'
  BY <1>1 DEF Safe, RescueOnce, Recorded, LatchMeansInstalled
<1> DEFINE Rest == /\ keyCache' \in Cached
                   /\ inflight' \in BOOLEAN /\ backoff' \in BOOLEAN
                   /\ fpc' \in [Fetchers -> FetchPcs] /\ fver' = fver
                   /\ InflightHasWorker'
                   /\ req' \in [Devs -> SUBSET Versions]
                   /\ \A e \in Devs : 0 \notin req'[e]
                   /\ pc' \in [Senders -> SendPcs] /\ dev' = dev
                   /\ task' \in [Senders -> Jobs] /\ lan' \in [Senders -> BOOLEAN]
                   /\ sig' \in [Senders -> Versions]
                   /\ echoes' \subseteq Legs \X Devs \X Jobs
<1>3. CASE CheckKey(s)
  <2>1. UNCHANGED fetchVars \/ EnsureMaterial
    BY <1>3 DEF CheckKey
  <2>2. /\ inflight' \in BOOLEAN /\ backoff' \in BOOLEAN
        /\ fpc' \in [Fetchers -> FetchPcs] /\ fver' = fver /\ InflightHasWorker'
    BY <2>1 DEF Safe
  <2>3. /\ keyCache' = Key
        /\ pc' = [pc EXCEPT ![s] = "ack"] \/ pc' = [pc EXCEPT ![s] = "poll"]
        /\ UNCHANGED <<req, dev, task, lan, sig, echoes>>
    BY <1>3 DEF CheckKey
  <2>4. Rest
    BY <2>2, <2>3 DEF Safe, Handshake, TypeOK, SendPcs
  <2>5. QED
    BY <1>1, <1>2, <2>4 DEF TypeOK, Safe, Handshake
<1>4. CASE PollEnds(s)
  <2>1. Rest
    BY <1>4 DEF PollEnds, Safe, Handshake, TypeOK, SendPcs
  <2>2. QED
    BY <1>1, <1>2, <2>1 DEF TypeOK, Safe, Handshake
<1>5. CASE AskAck(s)
  <2>1. /\ req' \in [Devs -> SUBSET Versions]
        /\ \A e \in Devs : 0 \notin req'[e]
    <3>1. UNCHANGED req \/ (Usable /\ Request(dev[s]))
      BY <1>5 DEF AskAck
    <3>2. dev[s] \in Devs /\ Handshake
      BY DEF TypeOK, Safe
    <3>3. QED
      BY <3>1, <3>2, RequestFacts DEF TypeOK, Handshake
  <2>2. Rest
    BY <1>5, <2>1 DEF AskAck, Safe, TypeOK, SendPcs
  <2>3. QED
    BY <1>1, <1>2, <2>2 DEF TypeOK, Safe, Handshake
<1>6. CASE AckArrives(s)
  <2>1. Rest
    BY <1>6 DEF AckArrives, Safe, Handshake, TypeOK, SendPcs
  <2>2. QED
    BY <1>1, <1>2, <2>1 DEF TypeOK, Safe, Handshake
<1>7. CASE AckTimeout(s)
  <2>1. Rest
    BY <1>7 DEF AckTimeout, Safe, Handshake, TypeOK, SendPcs
  <2>2. QED
    BY <1>1, <1>2, <2>1 DEF TypeOK, Safe, Handshake
<1>8. CASE Sign(s)
  <2>1. Rest
    BY <1>8 DEF Sign, Safe, Handshake, TypeOK, SendPcs
  <2>2. QED
    BY <1>1, <1>2, <2>1 DEF TypeOK, Safe, Handshake
<1>9. CASE Publish(s)
  <2>1. Rest
    BY <1>9 DEF Publish, Safe, Handshake, TypeOK, SendPcs, Jobs
  <2>2. QED
    BY <1>1, <1>2, <2>1 DEF TypeOK, Safe, Handshake
<1>10. CASE FallBack(s)
  <2>1. Rest
    BY <1>10 DEF FallBack, Safe, Handshake, TypeOK, SendPcs
  <2>2. QED
    BY <1>1, <1>2, <2>1 DEF TypeOK, Safe, Handshake
<1>11. QED
  BY <1>3, <1>4, <1>5, <1>6, <1>7, <1>8, <1>9, <1>10 DEF SendStep

\* Steps of the slicer, the clock, the printers and the MQTT loops.
LEMMA EnvironmentSafe ==
    ASSUME TypeOK, Safe, Environment
    PROVE  TypeOK' /\ Safe'
<1> USE VersionFacts, KeyType, FetchUntouched, EnsureFacts
    DEF diskVars, devVars, sendVars, rescueVars
<1>1. CASE DirectUpdate
  BY <1>1 DEF DirectUpdate, TypeOK, Safe, InflightHasWorker, LatchMeansInstalled,
              RescueOnce, Handshake, Recorded, FetchPcs, Fetchers
<1>2. CASE BackoffEnds
  BY <1>2 DEF BackoffEnds, TypeOK, Safe, InflightHasWorker, LatchMeansInstalled,
              RescueOnce, Handshake, Recorded
<1>3. ASSUME NEW d \in Devs, InstallTick(d) PROVE TypeOK' /\ Safe'
  <2>1. /\ req' \in [Devs -> SUBSET Versions]
        /\ \A e \in Devs : 0 \notin req'[e]
    <3>1. UNCHANGED req \/ (Usable /\ Request(d))
      BY <1>3 DEF InstallTick
    <3>2. QED
      BY <3>1, RequestFacts DEF TypeOK, Safe, Handshake
  <2>2. /\ inflight' \in BOOLEAN /\ backoff' \in BOOLEAN
        /\ fpc' \in [Fetchers -> FetchPcs] /\ fver' = fver /\ InflightHasWorker'
    <3>1. UNCHANGED fetchVars \/ EnsureMaterial
      BY <1>3 DEF InstallTick
    <3>2. QED
      BY <3>1 DEF Safe
  <2>3. UNCHANGED <<diskVars, latch, flagged, acks, installed, sendVars, rescueVars>>
    BY <1>3 DEF InstallTick
  <2>4. TypeOK'
    BY <2>1, <2>2, <2>3 DEF TypeOK
  <2>5. QED
    BY <2>1, <2>2, <2>3, <2>4
    DEF Safe, LatchMeansInstalled, RescueOnce, Handshake, Recorded
<1>4. ASSUME NEW d \in Devs, HarvestFlags(d) PROVE TypeOK' /\ Safe'
  <2>1. /\ inflight' \in BOOLEAN /\ backoff' \in BOOLEAN
        /\ fpc' \in [Fetchers -> FetchPcs] /\ fver' = fver /\ InflightHasWorker'
    <3>1. UNCHANGED fetchVars \/ EnsureMaterial
      BY <1>4 DEF HarvestFlags
    <3>2. QED
      BY <3>1 DEF Safe
  <2>2. /\ keyCache' = Key /\ flagged' = flagged \cup {d}
        /\ UNCHANGED <<certDisk, keyDisk, latch, req, acks, installed, sendVars,
                       rescueVars>>
    BY <1>4 DEF HarvestFlags
  <2>3. TypeOK'
    BY <2>1, <2>2 DEF TypeOK
  <2>4. QED
    BY <2>1, <2>2, <2>3
    DEF Safe, LatchMeansInstalled, RescueOnce, Handshake, Recorded
<1>5. ASSUME NEW d \in Devs, NEW v \in req[d], PrinterInstalls(d, v)
      PROVE  TypeOK' /\ Safe'
  <2>1. v \in Versions \ {0}
    BY <1>5 DEF TypeOK, Safe, Handshake
  <2>2. TypeOK'
    BY <1>5, <2>1 DEF PrinterInstalls, TypeOK, fetchVars
  <2>3. \A e \in Devs : installed'[e] = IF e = d THEN v ELSE installed[e]
    BY <1>5 DEF PrinterInstalls, TypeOK
  <2>4. LatchMeansInstalled' /\ Handshake'
    BY <1>5, <2>1, <2>3
    DEF PrinterInstalls, TypeOK, Safe, LatchMeansInstalled, Handshake
  <2>5. QED
    BY <1>5, <2>2, <2>4 DEF PrinterInstalls, Safe, RescueOnce, Recorded
<1>6. ASSUME NEW d \in Devs, NEW v \in req[d], PrinterRefuses(d, v)
      PROVE  TypeOK' /\ Safe'
  BY <1>6 DEF PrinterRefuses, TypeOK, fetchVars, Safe, LatchMeansInstalled,
              InflightHasWorker, RescueOnce, Handshake, Recorded
<1>7. ASSUME NEW d \in Devs, NEW v \in acks[d], Harvest(d, v)
      PROVE  TypeOK' /\ Safe'
  <2>1. installed[d] # 0
    BY <1>7 DEF Safe, Handshake
  <2>2. TypeOK'
    BY <1>7 DEF Harvest, TypeOK, fetchVars
  <2>3. LatchMeansInstalled' /\ Handshake'
    BY <1>7, <2>1 DEF Harvest, TypeOK, Safe, LatchMeansInstalled, Handshake
  <2>4. QED
    BY <1>7, <2>2, <2>3 DEF Harvest, Safe, RescueOnce, Recorded
<1>8. ASSUME NEW d \in Devs, NEW s \in Senders, BeginSend(s, d)
      PROVE  TypeOK' /\ Safe'
  <2>1. NoTask \in Jobs
    BY DEF Jobs
  <2>2. StartSend(s, d, NoTask) /\ UNCHANGED <<diskVars, fetchVars, devVars, rescueVars>>
    BY <1>8 DEF BeginSend
  <2>3. TypeOK'
    BY <2>1, <2>2, StartFacts DEF TypeOK, fetchVars
  <2>4. QED
    BY <2>2, <2>3 DEF Safe, fetchVars, LatchMeansInstalled, InflightHasWorker,
                      RescueOnce, Handshake, Recorded
<1>9. ASSUME NEW d \in Devs, NEW k \in Tasks, CloudJob(d, k)
      PROVE  TypeOK' /\ Safe'
  BY <1>9 DEF CloudJob, TypeOK, Jobs, fetchVars, Safe, LatchMeansInstalled,
              InflightHasWorker, RescueOnce, Handshake, Recorded
<1>10. ASSUME NEW d \in Devs, NEW k \in Tasks, NEW l \in Legs, Rescue(l, d, k)
       PROVE  TypeOK' /\ Safe'
  <2>1. UNCHANGED <<diskVars, fetchVars, devVars>> /\ echoes' \subseteq echoes
    BY <1>10 DEF Rescue
  <2>2. LatchMeansInstalled' /\ InflightHasWorker' /\ Handshake'
    BY <2>1 DEF Safe, LatchMeansInstalled, Handshake
  <2>3. CASE k \in rescued
    <3>1. UNCHANGED <<rescued, resends, sendVars>>
      BY <1>10, <2>3 DEF Rescue
    <3>2. TypeOK'
      BY <2>1, <3>1 DEF TypeOK, fetchVars
    <3>3. QED
      BY <2>2, <3>1, <3>2 DEF Safe, RescueOnce, Recorded
  <2>4. CASE k \notin rescued
    <3>1. PICK s \in Senders : StartSend(s, d, k)
      BY <1>10, <2>4 DEF Rescue
    <3>2. resends[k] = 0
      BY <2>4 DEF Safe, Recorded
    <3>3. rescued' = rescued \cup {k} /\ resends' = [resends EXCEPT ![k] = 1]
      BY <1>10, <2>4, <3>2 DEF Rescue, TypeOK
    <3>4. k \in Jobs
      BY DEF Jobs
    <3>5. TypeOK'
      BY <2>1, <3>1, <3>3, <3>4, StartFacts DEF TypeOK, fetchVars
    <3>6. RescueOnce' /\ Recorded'
      BY <3>3 DEF Safe, RescueOnce, Recorded, TypeOK
    <3>7. QED
      BY <2>2, <3>5, <3>6 DEF Safe
  <2>5. QED
    BY <2>3, <2>4
<1>11. ASSUME NEW d \in Devs, Unlatch(d) PROVE TypeOK' /\ Safe'
  BY <1>11 DEF Unlatch, TypeOK, fetchVars, Safe, LatchMeansInstalled,
               InflightHasWorker, RescueOnce, Handshake, Recorded
<1>12. QED
  BY <1>1, <1>2, <1>3, <1>4, <1>5, <1>6, <1>7, <1>8, <1>9, <1>10, <1>11
  DEF Environment

\* The inductive invariant.
LEMMA InductiveInvariant == Spec => [](TypeOK /\ Safe)
<1>1. Init => TypeOK /\ Safe
  <2> SUFFICES ASSUME Init PROVE TypeOK /\ Safe
    OBVIOUS
  <2>1. certDisk \in Versions /\ keyDisk \in Versions /\ keyCache \in Cached
    BY VersionFacts, SignedAssumption DEF Init, Versions, Cached, NotLoaded
  <2>2. /\ fver \in [Fetchers -> Versions]
        /\ req \in [Devs -> SUBSET Versions]
        /\ acks \in [Devs -> SUBSET Versions]
        /\ installed \in [Devs -> Versions]
        /\ sig \in [Senders -> Versions]
    BY VersionFacts DEF Init
  <2>3. resends \in [Tasks -> 0..2]
    BY DEF Init
  <2>4. TypeOK
    BY <2>1, <2>2, <2>3 DEF Init, TypeOK, FetchPcs, SendPcs, Jobs
  <2>5. LatchMeansInstalled /\ InflightHasWorker
    BY DEF Init, LatchMeansInstalled, InflightHasWorker
  <2>6. RescueOnce /\ Recorded
    BY DEF Init, RescueOnce, Recorded
  <2>7. Handshake
    BY DEF Init, Handshake
  <2>8. QED
    BY <2>4, <2>5, <2>6, <2>7 DEF Safe
<1>2. TypeOK /\ Safe /\ [Next]_vars => (TypeOK /\ Safe)'
  <2> SUFFICES ASSUME TypeOK, Safe, [Next]_vars PROVE (TypeOK /\ Safe)'
    OBVIOUS
  <2>1. CASE Next
    BY <2>1, FetchSafe, SendSafe, EnvironmentSafe DEF Next
  <2>2. CASE UNCHANGED vars
    BY <2>2 DEF vars, diskVars, fetchVars, devVars, sendVars, rescueVars, TypeOK,
                Safe, LatchMeansInstalled, InflightHasWorker, RescueOnce, Handshake,
                Recorded
  <2>3. QED
    BY <2>1, <2>2
<1>3. QED
  BY <1>1, <1>2, PTL DEF Spec

\* Type correctness of the signed-send machinery.
THEOREM TypeCorrect == Spec => []TypeOK
<1>1. TypeOK /\ Safe => TypeOK
  OBVIOUS
<1>2. QED
  BY <1>1, InductiveInvariant, PTL

\* A latched printer has one of our certificates: no lost, refused or reordered
\* app_cert_install ever looks done.
THEOREM LatchHolds == Spec => []LatchMeansInstalled
<1>1. TypeOK /\ Safe => LatchMeansInstalled
  BY DEF Safe
<1>2. QED
  BY <1>1, InductiveInvariant, PTL

\* The in-flight flag never outlives its worker, however many update_cert calls
\* reset each other's flag.
THEOREM InflightHolds == Spec => []InflightHasWorker
<1>1. TypeOK /\ Safe => InflightHasWorker
  BY DEF Safe
<1>2. QED
  BY <1>1, InductiveInvariant, PTL

\* A rejected job is re-sent at most once, over any number of legs.
THEOREM RescueHolds == Spec => []RescueOnce
<1>1. TypeOK /\ Safe => RescueOnce
  BY DEF Safe
<1>2. QED
  BY <1>1, InductiveInvariant, PTL
=============================================================================
