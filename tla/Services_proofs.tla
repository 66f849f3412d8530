--------------------------- MODULE Services_proofs ---------------------------
(***************************************************************************)
(* TLAPS proofs about the components that MCServices puts side by side.    *)
(* A step of the composition is a step of one component and leaves the     *)
(* others alone, so that each component has a lemma on its own steps.      *)
(***************************************************************************)
EXTENDS MCServices, SequenceTheorems, WellFoundedInduction, TLAPS

\* What a step of the composition is for each component.
LEMMA ServiceSteps ==
    [Next]_services => /\ [CoverNext]_coverVars /\ [SessionNext]_sessionVars
                       /\ [RegistryNext]_registryVars /\ [KeysNext]_keyVars
                       /\ [ReportsNext]_reportVars /\ [CallsNext]_callVars
                       /\ [HandshakeNext]_handshakeVars /\ [ConfNext]_confVars /\ [PresetNext]_presetVars
                       /\ [ThumbNext]_thumbVars
<1>1. ASSUME Next
      PROVE  /\ [CoverNext]_coverVars /\ [SessionNext]_sessionVars
             /\ [RegistryNext]_registryVars /\ [KeysNext]_keyVars
             /\ [ReportsNext]_reportVars /\ [CallsNext]_callVars
             /\ [HandshakeNext]_handshakeVars /\ [ConfNext]_confVars /\ [PresetNext]_presetVars
             /\ [ThumbNext]_thumbVars
  BY <1>1 DEF Next, Only
<1> QED
  BY <1>1 DEF services

-----------------------------------------------------------------------------
(* The cover cache.  A worker's image is never older than the print it is for: what is
   staged is the last print's or nothing, and the printer shows the last print.  Claims
   and workers correspond one to one, so that no two workers share a file. *)
WorkerPcs == {"idle", "staged", "fetch", "write", "rename", "leave"}

Workers == [pc : WorkerPcs, ver : Versions, img : Nat, own : BOOLEAN]

CoverTypes ==
    /\ print \in Nat /\ staged \in {NoImage, print}
    /\ worker \in [Fetchers -> Workers]
    /\ coverFiles \in [Versions -> Nat] /\ print \in Versions
    /\ inflight \subseteq Versions

ImagesAreFresh ==
    /\ \A w \in Fetchers : /\ worker[w].ver <= print
                           /\ worker[w].img \in Versions
                           /\ worker[w].pc \in {"write", "rename"}
                                  => worker[w].img >= worker[w].ver
    /\ \A v \in Versions : coverFiles[v] # NoImage => coverFiles[v] >= v
    /\ \A v \in Versions : coverFiles[v] \in Versions

OneWorkerPerClaim ==
    /\ \A w \in Fetchers : worker[w].pc # "idle" => worker[w].ver \in inflight
    /\ \A w, o \in Fetchers :
          w # o /\ worker[w].pc # "idle" /\ worker[o].pc # "idle"
              => worker[w].ver # worker[o].ver
    /\ ClaimHasWorker

LEMMA VersionFacts == 0 \in Versions /\ (\A v \in Versions : v \in Nat) /\ Torn \notin Versions
BY CoverAssumption DEF Versions

CoverInv == CoverTypes /\ ImagesAreFresh /\ OneWorkerPerClaim

LEMMA CoverInitInv == CoverInit => CoverInv
BY CoverAssumption DEF CoverInit, CoverInv, CoverTypes, ImagesAreFresh, OneWorkerPerClaim,
   ClaimHasWorker, IdleWorker, NoImage, Versions, Workers, WorkerPcs

\* Worker w is now at pc with img; its claim and the other workers are as before.
GoesOn(w, pc, img) ==
    /\ worker' \in [Fetchers -> Workers]
    /\ \A o \in Fetchers \ {w} : worker'[o] = worker[o]
    /\ worker'[w].pc = pc /\ worker'[w].img = img /\ worker'[w].ver = worker[w].ver

LEMMA StepFacts ==
    ASSUME CoverTypes, NEW w \in Fetchers, NEW pc \in WorkerPcs, NEW img \in Nat,
           Step(w, pc, img)
    PROVE  GoesOn(w, pc, img)
BY DEF Step, CoverTypes, GoesOn, Workers

\* A worker that goes on with the same claim, and an image fresh enough if it has one.
LEMMA WorkerGoesOn ==
    ASSUME CoverInv, NEW w \in Fetchers, worker[w].pc # "idle",
           NEW pc \in WorkerPcs \ {"idle"}, NEW img \in Versions,
           pc \in {"write", "rename"} => img >= worker[w].ver,
           GoesOn(w, pc, img), UNCHANGED <<print, staged, inflight>>
    PROVE  /\ OneWorkerPerClaim'
           /\ UNCHANGED coverFiles => CoverInv'
<1> USE VersionFacts DEF CoverInv, CoverTypes, ImagesAreFresh, NoImage, GoesOn
<1>2. \A o \in Fetchers : /\ worker'[o].ver = worker[o].ver
                          /\ worker'[o].pc = "idle" <=> worker[o].pc = "idle"
  BY DEF WorkerPcs
<1>3. OneWorkerPerClaim'
  BY <1>2 DEF OneWorkerPerClaim, ClaimHasWorker
<1>4. ASSUME UNCHANGED coverFiles PROVE ImagesAreFresh'
  BY <1>4
<1> QED
  BY <1>3, <1>4

\* One worker's steps.
LEMMA FetchStepInv ==
    ASSUME CoverInv, NEW w \in Fetchers, FetchStep(w)
    PROVE  CoverInv'
<1> USE VersionFacts DEF CoverInv, CoverTypes, ImagesAreFresh, NoImage, Workers, WorkerPcs
<1> DEFINE r == worker[w]
<1>0. r \in Workers /\ r.ver \in Versions /\ r.img \in Versions /\ r.ver <= print
  BY DEF Workers
<1>1. CASE FetchStaged(w)
  <2>1. \E own \in BOOLEAN : worker' =
            [worker EXCEPT ![w].pc = IF staged = NoImage THEN "fetch" ELSE "write",
                           ![w].img = staged, ![w].own = own]
    <3> WITNESS (staged # NoImage) \in BOOLEAN
    <3> QED
      BY <1>1 DEF FetchStaged
  <2>2. GoesOn(w, IF staged = NoImage THEN "fetch" ELSE "write", staged)
    <3> PICK own \in BOOLEAN : worker' =
            [worker EXCEPT ![w].pc = IF staged = NoImage THEN "fetch" ELSE "write",
                           ![w].img = staged, ![w].own = own]
      BY <2>1
    <3> DEFINE q == IF staged = NoImage THEN "fetch" ELSE "write"
    <3>1. [r EXCEPT !.pc = q, !.img = staged, !.own = own] \in Workers
      <4>1. q \in WorkerPcs /\ staged \in Nat
        OBVIOUS
      <4> QED
        BY <1>0, <4>1
    <3>2. worker' \in [Fetchers -> Workers]
      BY <3>1
    <3> QED
      BY <3>2 DEF GoesOn
  <2>3. r.pc # "idle" /\ UNCHANGED <<print, staged, inflight, coverFiles>> /\ print >= r.ver
    BY <1>0, <1>1 DEF FetchStaged
  <2>4. QED
    BY <2>2, <2>3, WorkerGoesOn
<1>2. CASE FetchPrinter(w)
  <2>1. GoesOn(w, "write", print) \/ GoesOn(w, "leave", 0)
    BY <1>2, StepFacts DEF FetchPrinter, GiveUp
  <2>2. QED
    BY <1>2, <2>1, WorkerGoesOn DEF FetchPrinter
<1>3. CASE WriteOpen(w)
  <2>1. GoesOn(w, "rename", r.img)
    BY <1>3, StepFacts DEF WriteOpen
  <2>2. QED
    BY <1>3, <2>1, WorkerGoesOn DEF WriteOpen
<1>4. CASE WriteRename(w)
  <2>1. GoesOn(w, "leave", 0)
    BY <1>4, StepFacts DEF WriteRename
  <2>2. ~SharesSibling(w)
    BY <1>4 DEF SharesSibling, WriteRename, OneWorkerPerClaim
  <2>3. coverFiles' = [coverFiles EXCEPT ![r.ver] = r.img] /\ r.img >= r.ver
    BY <1>4, <2>2 DEF WriteRename
  <2>4. OneWorkerPerClaim'
    BY <1>4, <2>1, WorkerGoesOn DEF WriteRename
  <2>5. CoverTypes'
    BY <1>0, <1>4, <2>1, <2>3 DEF WriteRename, GoesOn
  <2>7. ImagesAreFresh'
    <3>1. \A v \in Versions : coverFiles'[v] = IF v = r.ver THEN r.img ELSE coverFiles[v]
      BY <2>3
    <3>2. UNCHANGED print
      BY <1>4 DEF WriteRename
    <3> QED
      BY <1>0, <2>1, <2>3, <3>1, <3>2 DEF GoesOn
  <2>6. QED
    BY <2>4, <2>5, <2>7
<1>5. CASE WriteFails(w)
  <2>1. GoesOn(w, "fetch", r.img) \/ GoesOn(w, "leave", 0)
    BY <1>0, <1>5, StepFacts DEF WriteFails, GiveUp
  <2>2. QED
    BY <1>5, <2>1, WorkerGoesOn DEF WriteFails
<1>6. CASE FetchLeave(w)
  <2>1. worker' = [worker EXCEPT ![w] = IdleWorker] /\ inflight' = inflight \ {r.ver}
    BY <1>6 DEF FetchLeave, Released
  <2>2. \A o \in Fetchers \ {w} : worker'[o] = worker[o]
    BY <2>1
  <2>3. worker'[w].pc = "idle" /\ worker'[w].ver = 0 /\ worker'[w].img = 0
    BY <2>1 DEF IdleWorker
  <2>4. CoverTypes'
    <3>1. IdleWorker \in Workers
      BY DEF IdleWorker
    <3>2. worker' \in [Fetchers -> Workers]
      <4> HIDE DEF Workers
      <4> QED
        BY <2>1, <3>1
    <3> QED
      BY <1>6, <2>1, <3>2 DEF FetchLeave
  <2>7. ImagesAreFresh'
    BY <1>6, <2>2, <2>3 DEF FetchLeave
  <2>5. OneWorkerPerClaim'
    BY <1>6, <2>1, <2>2, <2>3 DEF FetchLeave, OneWorkerPerClaim, ClaimHasWorker
  <2>6. QED
    BY <2>4, <2>5, <2>7
<1> QED
  BY <1>1, <1>2, <1>3, <1>4, <1>5, <1>6 DEF FetchStep

LEMMA CoverStepInv == CoverInv /\ [CoverNext]_coverVars => CoverInv'
<1> SUFFICES ASSUME CoverInv, [CoverNext]_coverVars PROVE CoverInv'
  OBVIOUS
<1> USE VersionFacts DEF CoverInv, CoverTypes, ImagesAreFresh, NoImage, Workers, WorkerPcs
<1>1. ASSUME NEW have \in BOOLEAN, stage_from_3mf(have) PROVE CoverInv'
  <2>1. print' = print + 1 /\ print' \in Versions /\ staged' \in {0, print'}
    BY <1>1 DEF stage_from_3mf, StagedBy, Versions
  <2>2. CoverTypes'
    BY <1>1, <2>1 DEF stage_from_3mf
  <2>3. \A x \in Fetchers : worker[x].ver <= print + 1
    <3> TAKE x \in Fetchers
    <3>1. worker[x].ver \in Nat /\ worker[x].ver <= print
      OBVIOUS
    <3> QED
      BY <3>1
  <2>4. ImagesAreFresh'
    BY <1>1, <2>1, <2>3 DEF stage_from_3mf
  <2>5. OneWorkerPerClaim'
    BY <1>1 DEF stage_from_3mf, OneWorkerPerClaim, ClaimHasWorker
  <2>6. QED
    BY <2>2, <2>4, <2>5
<1>2. ASSUME NEW v \in Versions, NEW w \in Fetchers, Report(v, w) PROVE CoverInv'
  <2>1. CASE UNCHANGED <<inflight, worker>>
    BY <1>2, <2>1 DEF Report, OneWorkerPerClaim, ClaimHasWorker
  <2>2. CASE ~UNCHANGED <<inflight, worker>>
    <3>1. /\ worker[w].pc = "idle" /\ v \notin inflight /\ v <= print
          /\ inflight' = inflight \cup {v}
          /\ worker' = [worker EXCEPT ![w] = [IdleWorker EXCEPT !.pc = "staged", !.ver = v]]
      BY <1>2, <2>2 DEF Report, Claim
    <3>2. \A o \in Fetchers \ {w} : worker'[o] = worker[o]
      BY <3>1
    <3>3. worker'[w].pc = "staged" /\ worker'[w].ver = v /\ worker'[w].img = 0
      BY <3>1 DEF IdleWorker
    <3>4. CoverTypes'
      BY <1>2, <3>1 DEF Report, IdleWorker
    <3>5. ImagesAreFresh'
      BY <1>2, <3>1, <3>2, <3>3 DEF Report
    <3>6. OneWorkerPerClaim'
      BY <3>1, <3>2, <3>3 DEF OneWorkerPerClaim, ClaimHasWorker
    <3>7. QED
      BY <3>4, <3>5, <3>6
  <2>3. QED
    BY <2>1, <2>2
<1>3. CASE Unstage \/ NegCoverExpires
  BY <1>3 DEF Unstage, NegCoverExpires, OneWorkerPerClaim, ClaimHasWorker
<1>4. CASE UNCHANGED coverVars
  BY <1>4 DEF coverVars, OneWorkerPerClaim, ClaimHasWorker
<1> QED
  BY <1>1, <1>2, <1>3, <1>4, FetchStepInv DEF CoverNext

\* No cover is torn or of an earlier print of the same name, however late its worker is,
\* and every claim has a worker that will give it back, for any number of prints,
\* workers and failures.
THEOREM CoversHold == Spec => []CoversSound
<1>1. Init => CoverInv
  BY CoverInitInv DEF Init
<1>2. CoverInv => CoversSound
  BY CoverAssumption DEF CoverInv, CoverTypes, ImagesAreFresh, OneWorkerPerClaim, CoversSound,
     CoverIsWhole, CoverIsNotOlder, NoImage, Versions
<1> QED
  BY <1>1, <1>2, ServiceSteps, CoverStepInv, PTL DEF Spec

-----------------------------------------------------------------------------
(* The login session: every copy of it is a whole one, a logout sticks, a refresh token is
   kept, and memory and file implement a durable store, for any set of accounts, number of
   calls and crashes. *)

\* What holds of the store by itself holds of it among the services.
LEMMA SessionOfServices == Spec => SessionSpec
<1>1. Init => SessionInit
  BY DEF Init
<1> QED
  BY <1>1, ServiceSteps, PTL DEF Spec, SessionSpec

(* Where persist_locked is decides what the sibling file holds: from its
   completion to the rename it is the session in memory, which nobody may
   change because mu_ is held. *)
Writing ==
    /\ ph # "none" => mu = "login"
    /\ ph \in {"remove", "rename"} => tmp = mem
    /\ ph = "remove" => windows
    /\ ~up => ph = "none" /\ mem = NoSession

StoreInv == SessionTypeOK /\ Writing

(* The one record constructor behind every new session. *)
LEMMA SessionUpdates ==
    ASSUME NEW s \in Session, NEW f \in Field, NEW b \in BOOLEAN
    PROVE  /\ NoSession \in Session
           /\ [s EXCEPT !.tok = f] \in Session
           /\ [s EXCEPT !.uid = f] \in Session
           /\ [s EXCEPT !.tok = f, !.ref = b] \in Session
BY DEF Session, NoSession, Field

(* What the operations that put a session have in common. *)
LEMMA PutKeeps ==
    ASSUME StoreInv, up, NEW s \in Session, Put(s),
           UNCHANGED <<windows, file, tmp, who, inline, snap, up>>
    PROVE  StoreInv'
BY DEF StoreInv, SessionTypeOK, Writing, Put, Locked
-------------------------------------------------------------------------------
LEMMA StoreInvInit == SessionInit => StoreInv
<1> SUFFICES ASSUME SessionInit PROVE StoreInv
    OBVIOUS
<1>1. NoSession \in Session
    BY DEF NoSession, Session, Field
<1> QED
    BY <1>1 DEF SessionInit, StoreInv, SessionTypeOK, Writing, Field

LEMMA StoreInvStep == StoreInv /\ [SessionNext]_sessionVars => StoreInv'
<1> SUFFICES ASSUME StoreInv, [SessionNext]_sessionVars PROVE StoreInv'
    OBVIOUS
<1>0. NoSession \in Session
    BY DEF NoSession, Session, Field
<1>1. CASE PersistWrite
    BY <1>0, <1>1 DEF PersistWrite, Leave, Replace, StoreInv, SessionTypeOK, Writing
<1>2. CASE PersistRemove
    BY <1>0, <1>2 DEF PersistRemove, StoreInv, SessionTypeOK, Writing
<1>3. CASE PersistRename
    BY <1>0, <1>3 DEF PersistRename, Renamed, Leave, StoreInv, SessionTypeOK, Writing
<1>4. CASE Login
    BY <1>4 DEF Login, change_user, StoreInv, SessionTypeOK, Writing, Field
<1>5. CASE SetTokens
  <2>1. PICK r \in BOOLEAN : Put([snap EXCEPT !.tok = who, !.ref = @ \/ r])
      BY <1>5 DEF SetTokens
  <2>2. (snap.ref \/ r) \in BOOLEAN
      OBVIOUS
  <2>3. [snap EXCEPT !.tok = who, !.ref = @ \/ r] \in Session
      BY <2>2, SessionUpdates DEF StoreInv, SessionTypeOK
  <2> QED
      BY <1>5, <2>1, <2>3, PutKeeps DEF SetTokens
<1>6. CASE FetchProfile
    BY <1>6 DEF FetchProfile, StoreInv, SessionTypeOK, Writing
<1>7. CASE UpdateProfile
  <2>1. Profiled \in Session
      BY SessionUpdates DEF Profiled, StoreInv, SessionTypeOK
  <2> QED
      BY <1>7, <2>1, PutKeeps DEF UpdateProfile
<1>8. CASE UpdateFirmwareBeta
  <2>1. mem \in Session
      BY DEF StoreInv, SessionTypeOK
  <2> QED
      BY <1>8, <2>1, PutKeeps DEF UpdateFirmwareBeta
<1>9. CASE user_logout
    BY <1>0, <1>9 DEF user_logout, Locked, StoreInv, SessionTypeOK, Writing
<1>10. CASE Start
    BY <1>10 DEF Start, StoreInv, SessionTypeOK, Writing
<1>11. CASE Hydrate
  <2>1. CASE UNCHANGED <<mem, mu, ph>>
      BY <1>11, <2>1 DEF Hydrate, StoreInv, SessionTypeOK, Writing
  <2>2. CASE \E r \in BOOLEAN : Put([mem EXCEPT !.tok = snap.tok, !.ref = Renewed(r)])
    <3>1. PICK r \in BOOLEAN : Put([mem EXCEPT !.tok = snap.tok, !.ref = Renewed(r)])
        BY <2>2
    <3>2. Renewed(r) \in BOOLEAN /\ snap.tok \in Field
        BY DEF Renewed, StoreInv, SessionTypeOK, Session
    <3>3. [mem EXCEPT !.tok = snap.tok, !.ref = Renewed(r)] \in Session
        BY <3>2, SessionUpdates DEF StoreInv, SessionTypeOK
    <3> QED
        BY <1>11, <3>1, <3>3, PutKeeps DEF Hydrate
  <2> QED
      BY <1>11, <2>1, <2>2 DEF Hydrate
<1>12. CASE Crash
    BY <1>0, <1>12 DEF Crash, StoreInv, SessionTypeOK, Writing
<1>13. CASE UNCHANGED sessionVars
    BY <1>13 DEF sessionVars, StoreInv, SessionTypeOK, Writing
<1> QED
    BY <1>1, <1>2, <1>3, <1>4, <1>5, <1>6, <1>7, <1>8, <1>9, <1>10, <1>11, <1>12, <1>13
    DEF SessionNext

LEMMA StoreInvAlways == SessionSpec => []StoreInv
BY StoreInvInit, StoreInvStep, PTL DEF SessionSpec

(* Every copy of the session in memory, in obn.auth.json and in its sibling
   file is a whole one, wherever the process dies. *)
THEOREM SessionTypeCorrect == SessionSpec => []SessionTypeOK
<1>1. StoreInv => SessionTypeOK
    BY DEF StoreInv
<1> QED
    BY <1>1, StoreInvAlways, PTL
-------------------------------------------------------------------------------
(* Memory and file implement DurableStore: each step of the login thread, of
   logout, of writing the file and of the process maps to a step of it. *)

LEMMA DurableInit == SessionInit => Durable!Init
BY DEF SessionInit, Durable!Init

LEMMA DurableStep ==
    StoreInv /\ StoreInv' /\ [SessionNext]_sessionVars => [Durable!Next]_(Durable!dvars)
<1> SUFFICES ASSUME StoreInv, StoreInv', [SessionNext]_sessionVars
             PROVE  Durable!Next \/ UNCHANGED Durable!dvars
    OBVIOUS
<1>0. mem' \in Session
    BY DEF StoreInv, SessionTypeOK
<1>1. CASE PersistWrite
    BY <1>1 DEF PersistWrite, Durable!dvars
<1>2. CASE PersistRemove
    BY <1>2 DEF PersistRemove, StoreInv, Writing, Durable!Next, Durable!Lose
<1>3. CASE PersistRename
    BY <1>3 DEF PersistRename, Renamed, StoreInv, Writing, Durable!Next, Durable!Sync,
                Durable!dvars
<1>4. CASE Login
    BY <1>4 DEF Login, change_user, Durable!dvars
<1>5. CASE SetTokens
    BY <1>0, <1>5 DEF SetTokens, Durable!Next, Durable!Set
<1>6. CASE FetchProfile
    BY <1>6 DEF FetchProfile, Durable!dvars
<1>7. CASE UpdateProfile
    BY <1>0, <1>7 DEF UpdateProfile, Durable!Next, Durable!Set
<1>8. CASE UpdateFirmwareBeta
    BY <1>0, <1>8 DEF UpdateFirmwareBeta, Durable!Next, Durable!Set
<1>9. CASE user_logout
    BY <1>9 DEF user_logout, Durable!Next, Durable!Erase
<1>10. CASE Start
    BY <1>10 DEF Start, Durable!Next, Durable!Start
<1>11. CASE Hydrate
    BY <1>0, <1>11 DEF Hydrate, Durable!Next, Durable!Set
<1>12. CASE Crash
    BY <1>12 DEF Crash, Durable!Next, Durable!Stop
<1>13. CASE UNCHANGED sessionVars
    BY <1>13 DEF sessionVars, Durable!dvars
<1> QED
    BY <1>1, <1>2, <1>3, <1>4, <1>5, <1>6, <1>7, <1>8, <1>9, <1>10, <1>11, <1>12, <1>13
    DEF SessionNext

(* The login session is durable: obn.auth.json only ever becomes the session
   in memory, as a whole, is removed with it by a logout, or, where files
   cannot be replaced in one step, is lost. *)
THEOREM SessionIsDurable == SessionSpec => DurableSession
<1>1. StoreInv /\ StoreInv' /\ [SessionNext]_sessionVars => [Durable!Next]_(Durable!dvars)
    BY DurableStep
<1> QED
    BY <1>1, DurableInit, StoreInvAlways, PTL DEF SessionSpec, DurableSession, Durable!Spec
-------------------------------------------------------------------------------
(* After a logout a login that is past its tokens works on a session without
   one, and a renewal at start-up on a session without a user. *)
AfterLogout ==
    sOut => /\ ~logged_in(mem) /\ ~logged_in(file)
            /\ lpc \in {"set", "fetch", "inline", "profile", "beta", "nobeta"} => mem.tok = None
            /\ lpc = "hydrate" => mem.uid = None

LEMMA AfterLogoutStep ==
    StoreInv /\ AfterLogout /\ [SessionNext]_sessionVars => AfterLogout'
<1> SUFFICES ASSUME StoreInv, AfterLogout, [SessionNext]_sessionVars PROVE AfterLogout'
    OBVIOUS
<1>0. NoSession.tok = None /\ NoSession.uid = None
    BY DEF NoSession
<1>1. CASE PersistWrite
    BY <1>1 DEF PersistWrite, Leave, AfterOp, AfterLogout, logged_in
<1>2. CASE PersistRemove
    BY <1>0, <1>2 DEF PersistRemove, AfterLogout, logged_in
<1>3. CASE PersistRename
    BY <1>3 DEF PersistRename, Renamed, Leave, AfterOp, AfterLogout, logged_in, StoreInv, Writing
<1>4. CASE Login
    BY <1>4 DEF Login, change_user, AfterLogout, logged_in
<1>5. CASE SetTokens
    BY <1>5 DEF SetTokens, AfterLogout
<1>6. CASE FetchProfile
    BY <1>6 DEF FetchProfile, AfterLogout, logged_in
<1>7. CASE UpdateProfile
    BY <1>7 DEF UpdateProfile, Put, Profiled, AfterLogout, logged_in, StoreInv, SessionTypeOK, Session
<1>8. CASE UpdateFirmwareBeta
    BY <1>8 DEF UpdateFirmwareBeta, Put, AfterLogout, logged_in
<1>9. CASE user_logout
    BY <1>0, <1>9 DEF user_logout, AfterLogout, logged_in
<1>10. CASE Start
    BY <1>10 DEF Start, AfterLogout, logged_in
<1>11. CASE Hydrate
    BY <1>11 DEF Hydrate, Put, AfterLogout, logged_in, StoreInv, SessionTypeOK, Session
<1>12. CASE Crash
    BY <1>0, <1>12 DEF Crash, AfterLogout, logged_in
<1>13. CASE UNCHANGED sessionVars
    BY <1>13 DEF sessionVars, AfterLogout, logged_in
<1> QED
    BY <1>1, <1>2, <1>3, <1>4, <1>5, <1>6, <1>7, <1>8, <1>9, <1>10, <1>11, <1>12, <1>13
    DEF SessionNext

(* A logout that comes after a login wrote its tokens is final: neither the
   profile still being fetched nor a renewed token brings the session back,
   in memory or in obn.auth.json, over any number of restarts. *)
THEOREM LogoutIsFinal == SessionSpec => []LogoutSticks
<1>1. SessionInit => AfterLogout
    BY DEF SessionInit, AfterLogout
<1>2. AfterLogout => LogoutSticks
    BY DEF AfterLogout, LogoutSticks
<1> QED
    BY <1>1, <1>2, AfterLogoutStep, StoreInvAlways, PTL DEF SessionSpec
-------------------------------------------------------------------------------
(* The snapshot a login or a renewal works from is the session, or there is
   no refresh token to lose any more. *)
SnapshotFresh == lpc \in {"tokens", "hydrate"} => snap.ref = mem.ref \/ mem.ref = FALSE

LEMMA SnapshotFreshStep ==
    StoreInv /\ SnapshotFresh /\ [SessionNext]_sessionVars => SnapshotFresh'
<1> SUFFICES ASSUME StoreInv, SnapshotFresh, [SessionNext]_sessionVars PROVE SnapshotFresh'
    OBVIOUS
<1>1. CASE PersistWrite
    BY <1>1 DEF PersistWrite, Leave, AfterOp, SnapshotFresh
<1>2. CASE PersistRemove
    BY <1>2 DEF PersistRemove, SnapshotFresh
<1>3. CASE PersistRename
    BY <1>3 DEF PersistRename, Leave, AfterOp, SnapshotFresh
<1>4. CASE Login
    BY <1>4 DEF Login, change_user, SnapshotFresh
<1>5. CASE SetTokens \/ UpdateProfile \/ UpdateFirmwareBeta \/ FetchProfile \/ Crash
    BY <1>5 DEF SetTokens, UpdateProfile, UpdateFirmwareBeta, FetchProfile, Crash, SnapshotFresh
<1>6. CASE user_logout
    BY <1>6 DEF user_logout, SnapshotFresh, NoSession
<1>7. CASE Start
    BY <1>7 DEF Start, SnapshotFresh
<1>8. CASE Hydrate
    BY <1>8 DEF Hydrate, SnapshotFresh
<1>9. CASE UNCHANGED sessionVars
    BY <1>9 DEF sessionVars, SnapshotFresh
<1> QED
    BY <1>1, <1>2, <1>3, <1>4, <1>5, <1>6, <1>7, <1>8, <1>9 DEF SessionNext

LEMMA RefreshKeptStep ==
    StoreInv /\ SnapshotFresh /\ [SessionNext]_sessionVars
        => [mem.ref /\ ~mem'.ref => mem' = NoSession]_sessionVars
<1> SUFFICES ASSUME StoreInv, SnapshotFresh, SessionNext, mem.ref, ~mem'.ref
             PROVE  mem' = NoSession
    BY DEF sessionVars
<1>1. CASE PersistWrite \/ PersistRemove \/ PersistRename \/ Login \/ FetchProfile
    BY <1>1 DEF PersistWrite, PersistRemove, PersistRename, Login, change_user, FetchProfile
<1>2. CASE SetTokens
    BY <1>2 DEF SetTokens, Put, SnapshotFresh, StoreInv, SessionTypeOK, Session
<1>3. CASE UpdateProfile
    BY <1>3 DEF UpdateProfile, Put, Profiled, StoreInv, SessionTypeOK, Session
<1>4. CASE UpdateFirmwareBeta
    BY <1>4 DEF UpdateFirmwareBeta, Put
<1>5. CASE user_logout \/ Crash
    BY <1>5 DEF user_logout, Crash
<1>6. CASE Start
    BY <1>6 DEF Start, StoreInv, Writing, NoSession
<1>7. CASE Hydrate
    BY <1>7 DEF Hydrate, Put, Renewed, SnapshotFresh, StoreInv, SessionTypeOK, Session
<1> QED
    BY <1>1, <1>2, <1>3, <1>4, <1>5, <1>6, <1>7 DEF SessionNext

(* A refresh token is only lost with the whole session: a login or a renewal
   whose answer has none keeps the one there is. *)
THEOREM RefreshTokenKept == SessionSpec => RefreshKept
<1>1. SessionInit => SnapshotFresh
    BY DEF SessionInit, SnapshotFresh
<1> QED
    BY <1>1, SnapshotFreshStep, RefreshKeptStep, StoreInvAlways, PTL DEF SessionSpec, RefreshKept

\* Among the services too: the session is durable, a logout sticks and a refresh token is
\* kept, whatever the other services do meanwhile.
THEOREM SessionKeptByServices == Spec => DurableSession /\ []LogoutSticks /\ RefreshKept
BY SessionOfServices, SessionIsDurable, LogoutIsFinal, RefreshTokenKept

-----------------------------------------------------------------------------
(* What is known of the printers.  The environment always equals the plugin's own map, the
   file does once the config dir is set and the last write reached it, and before that a
   process that has read the file has all its pairs: the reason why a rewrite loses none. *)
Pairs == [Ips -> Serials \cup {Unknown}]

RegistryInv ==
    /\ pairs \in Pairs /\ env = pairs /\ envFile \in Pairs
    /\ hydrated \in BOOLEAN /\ configDir \in BOOLEAN /\ replaces \in BOOLEAN
    /\ written \in BOOLEAN /\ dirSearched \in BOOLEAN
    /\ configDir => hydrated
    /\ configDir /\ written => envFile = pairs
    /\ dirSearched /\ hydrated => \A i \in Ips : envFile[i] # Unknown => pairs[i] # Unknown

LEMMA RegistryInitInv == RegistryInit => RegistryInv
BY DEF RegistryInit, RegistryInv, Pairs, NoPairs

\* What every entry point reads first: a map of pairs that has all of the file's.
LEMMA KnownFacts ==
    ASSUME RegistryInv
    PROVE  /\ Known \in Pairs /\ Merged(env) = Known
           /\ dirSearched => \A i \in Ips : envFile[i] # Unknown => Known[i] # Unknown
           /\ configDir => Known = pairs
           /\ configDir /\ written => envFile = Known
BY RegistryAssumption DEF RegistryInv, Known, Merged, Searched, Pairs

\* What a write does to the file, if it reaches it or not.
LEMMA WriteFacts ==
    ASSUME RegistryInv, NEW m \in Pairs, Write(m), configDir' \in BOOLEAN,
           configDir => configDir',
           dirSearched => \A i \in Ips : envFile[i] # Unknown => m[i] # Unknown
    PROVE  /\ envFile' \in Pairs /\ written' \in BOOLEAN /\ replaces' = replaces
           /\ dirSearched' = dirSearched
           /\ configDir' /\ written' => envFile' = m
           /\ dirSearched => \A i \in Ips : envFile'[i] # Unknown => m[i] # Unknown
           /\ dirSearched => PairsKept
<1>1. NoPairs \in Pairs /\ \A i \in Ips : NoPairs[i] = Unknown
  BY DEF NoPairs, Pairs
<1>2. replaces' = replaces /\ dirSearched' = dirSearched
  BY DEF Write
<1>3. CASE ~configDir'
  BY <1>2, <1>3 DEF Write, PairsKept, RegistryInv
<1>4. CASE configDir' /\ envFile' = m /\ written' = TRUE
  BY <1>2, <1>4 DEF PairsKept
<1>5. CASE configDir' /\ EnvWriteFails
  BY <1>1, <1>2, <1>5 DEF EnvWriteFails, PairsKept, RegistryInv
<1> QED
  BY <1>3, <1>4, <1>5 DEF Write

\* A step keeps the copies in agreement, takes no pair out of the file but by a failed write
\* on Windows, and connects only to who is known.
LEMMA RegistryStepInv ==
    ASSUME RegistryInv, [RegistryNext]_registryVars
    PROVE  /\ RegistryInv'
           /\ dirSearched => PairsKept
           /\ conn' # conn /\ conn' # Unknown /\ ~skipVerify => conn'[2] = pairs[conn'[1]]
<1> DEFINE kept == dirSearched => PairsKept
           dialled == conn' # conn /\ conn' # Unknown /\ ~skipVerify => conn'[2] = pairs[conn'[1]]
<1> SUFFICES RegistryInv' /\ kept /\ dialled
  BY DEF kept, dialled
<1> HIDE DEF Known, Merged, Write, kept, dialled
<1>1. CASE registry_set_config_dir
  <2>1. /\ pairs' = Known /\ hydrated' = TRUE /\ configDir' = TRUE /\ UNCHANGED conn
    BY <1>1 DEF registry_set_config_dir
  <2>2. CASE configDir
    <3>1. env' = env /\ UNCHANGED disk
      BY <1>1, <2>2 DEF registry_set_config_dir
    <3>2. RegistryInv'
      BY <2>1, <2>2, <3>1, KnownFacts DEF disk, RegistryInv
    <3> QED
      BY <2>1, <3>1, <3>2 DEF PairsKept, RegistryInv, kept, dialled, disk
  <2>3. CASE ~configDir
    <3>1. Write(Known)
      BY <1>1, <2>1, <2>3 DEF registry_set_config_dir
    <3>2. env' = Known
      BY <1>1, <2>1, <2>3, KnownFacts DEF registry_set_config_dir, Pairs
    <3>3. RegistryInv' /\ kept
      BY <2>1, <3>1, <3>2, KnownFacts, WriteFacts DEF PairsKept, RegistryInv, kept
    <3>4. dialled
      BY <2>1 DEF dialled
    <3> QED
      BY <3>3, <3>4
  <2> QED
    BY <2>2, <2>3
<1>2. ASSUME Write(Known), pairs' = Known, env' = Merged(env), hydrated' = TRUE,
             UNCHANGED <<configDir, conn>>
      PROVE  RegistryInv' /\ kept /\ dialled
  <2>1. RegistryInv' /\ kept
    BY <1>2, KnownFacts, WriteFacts DEF PairsKept, RegistryInv, kept
  <2> QED
    BY <1>2, <2>1 DEF dialled
<1>3. CASE Rewrite
  <2>1. /\ Write(Known) /\ pairs' = Known /\ env' = Merged(env) /\ hydrated' = TRUE
        /\ UNCHANGED <<configDir, conn>>
    BY <1>3 DEF Rewrite
  <2> QED
    BY <1>2, <2>1
<1>4. CASE Boot \/ DialFails
  BY <1>4 DEF Boot, DialFails, disk, PairsKept, RegistryInv, kept, dialled
<1>5. CASE Unload
  BY <1>5 DEF Unload, NoPairs, Pairs, disk, PairsKept, RegistryInv, kept, dialled
<1>6. ASSUME NEW i \in Ips, dial_tls(i) PROVE RegistryInv' /\ kept /\ dialled
  <2>1. conn' = <<i, at[i]>> /\ (~skipVerify => at[i] = env[i])
    BY <1>6 DEF dial_tls, PeerAccepted
  <2>2. dialled
    BY <2>1 DEF dialled, RegistryInv
  <2> QED
    BY <1>6, <2>2 DEF dial_tls, disk, PairsKept, RegistryInv, kept
<1>7. ASSUME NEW i \in Ips, NEW s \in Serials, registry_put_ip_serial(i, s)
      PROVE  RegistryInv' /\ kept /\ dialled
  <2>1. hydrated' = TRUE /\ configDir' = configDir /\ conn' = conn
    BY <1>7 DEF registry_put_ip_serial
  <2>2. CASE Known[i] = s
    <3>1. pairs' = Known /\ env' = Known /\ UNCHANGED disk
      BY <1>7, <2>2, KnownFacts DEF registry_put_ip_serial
    <3> QED
      BY <2>1, <3>1, KnownFacts DEF PairsKept, RegistryInv, kept, dialled, disk
  <2>3. CASE Known[i] # s
    <3>1. pairs' = [Known EXCEPT ![i] = s] /\ env' = pairs' /\ pairs' \in Pairs
      BY <1>7, <2>3, KnownFacts DEF registry_put_ip_serial, Synced, Pairs
    <3> DEFINE m == [Known EXCEPT ![i] = s]
    <3>2. Write(m) /\ m \in Pairs
      BY <1>7, <2>3, <3>1 DEF registry_put_ip_serial
    <3>3. dirSearched => \A j \in Ips : envFile[j] # Unknown => m[j] # Unknown
      BY KnownFacts, RegistryAssumption DEF Pairs
    <3>4. pairs' = m /\ env' = m
      BY <3>1
    <3> HIDE DEF m
    <3>5. RegistryInv' /\ kept
      BY <2>1, <3>2, <3>3, <3>4, WriteFacts DEF PairsKept, RegistryInv, kept
    <3> QED
      BY <2>1, <3>5 DEF dialled
  <2> QED
    BY <2>2, <2>3
<1>8. ASSUME NEW i \in Ips, NEW s \in Serials, NewLease(i, s)
      PROVE  RegistryInv' /\ kept /\ dialled
  BY <1>8 DEF NewLease, disk, PairsKept, RegistryInv, kept, dialled
<1>9. ASSUME NEW i \in Ips, NEW s \in Serials \cup {Unknown}, registry_set_peer_cert(i, s)
      PROVE  RegistryInv' /\ kept /\ dialled
  <2>1. Write(Known)
    BY <1>9 DEF registry_set_peer_cert
  <2> QED
    BY <1>2, <1>9, <2>1 DEF registry_set_peer_cert
<1>10. CASE UNCHANGED registryVars
  BY <1>10 DEF registryVars, disk, PairsKept, RegistryInv, kept, dialled
<1> QED
  <2>1. registry_set_ca_file \/ propagate_cross_so_env => Rewrite
    BY DEF registry_set_ca_file, propagate_cross_so_env
  <2> QED
    BY <1>1, <1>3, <1>4, <1>5, <1>6, <1>7, <1>8, <1>9, <1>10, <2>1 DEF RegistryNext

(* The printer's key.  A lookup that is past the cache looks again, and what it puts into
   the cache is never put over a key that came meanwhile. *)
LEMMA KeysStep ==
    /\ KeysInit => AuthoritativeStays
    /\ AuthoritativeStays /\ [KeysNext]_keyVars => AuthoritativeStays'
BY DEF KeysInit, AuthoritativeStays, KeysNext, keyVars, CaptureBegin, CaptureSet,
   InstallDeviceCert, GetBegin, GetPrime, GetRead, GetFound, GetMiss, UseAnswer, NegExpires,
   forget_printer, set_printer_pub_key, Emplaced, NoKey

\* A lookup that returns at once returns the cached key.
LEMMA FoundStep ==
    [KeysNext]_keyVars =>
        [get = "idle" /\ get' = "idle" /\ answer = "unread" /\ answer' # "unread" =>
             answer' = key]_keyVars
BY DEF KeysNext, keyVars, CaptureBegin, CaptureSet, InstallDeviceCert, GetBegin, GetPrime,
   GetRead, GetFound, GetMiss, UseAnswer, NegExpires, forget_printer, Cached

\* The copies of the registry agree after every write that succeeded, a verified dial ends at
\* the printer that is known, no start and no order of the entry points loses a pair when the
\* search finds the file of the config dir (dirSearched), but for a failed write on Windows,
\* and the authoritative key of a printer stays and is found: for any addresses, printers,
\* starts and failed writes.
THEOREM PeersAreKnown == Spec => PeersKnown
<1>1. Init => RegistryInv /\ AuthoritativeStays
  BY RegistryInitInv, KeysStep DEF Init
<1>2. RegistryInv /\ [Next]_services => RegistryInv'
  BY ServiceSteps, RegistryStepInv
<1>3. AuthoritativeStays /\ [Next]_services => AuthoritativeStays'
  BY ServiceSteps, KeysStep
<1>4. RegistryInv /\ [Next]_services => [dirSearched => PairsKept]_registryVars
  BY ServiceSteps, RegistryStepInv
<1>5. RegistryInv /\ [Next]_services =>
          [conn' # conn /\ conn' # Unknown /\ ~skipVerify =>
               conn'[2] = pairs[conn'[1]]]_registryVars
  BY ServiceSteps, RegistryStepInv
<1>6. RegistryInv => CopiesAgree
  BY DEF RegistryInv, CopiesAgree
<1>7. [Next]_services =>
          [get = "idle" /\ get' = "idle" /\ answer = "unread" /\ answer' # "unread" =>
               answer' = key]_keyVars
  BY ServiceSteps, FoundStep
<1>8. Spec => []CopiesAgree /\ []AuthoritativeStays
  BY <1>1, <1>2, <1>3, <1>6, PTL DEF Spec
<1>9. Spec => PairsSurviveRestart
  BY <1>1, <1>2, <1>4, PTL DEF Spec, PairsSurviveRestart
<1>10. Spec => DialsWhoIsKnown
  BY <1>1, <1>2, <1>5, PTL DEF Spec, DialsWhoIsKnown
<1>11. Spec => KnownKeyIsFound
  BY <1>1, <1>7, PTL DEF Spec, KnownKeyIsFound
<1> QED
  BY <1>8, <1>9, <1>10, <1>11 DEF PeersKnown

-----------------------------------------------------------------------------
(* The printer's reports.  Every id that was shown is the one its print would be given now,
   and after get_version the firmware on record is the one that runs, which a later list
   does not replace. *)
FrameType == [sd : Nat, file : BOOLEAN, emmc : {"on", "off", "absent"}, ips : Seq(Nat),
              hms : SUBSET Nat]

IdOf(n) == IF idKind = "cloud" THEN <<"cloud", n>>
           ELSE <<"lan", <<IF idKind = "start" THEN "start" ELSE "task", n>>>>

ReportsInv ==
    /\ idKind \in IdKinds /\ job \in Nat
    /\ \A a \in shownIds : a.id = IdOf(a.job)
    /\ truth \in [cur : Nat \ {0}, avail : Nat] /\ fw \in [cur : Nat, new : Nat]
    /\ fresh => fw.cur = truth.cur
    /\ ReportIsTrue

LEMMA FramesTyped == Frames \subseteq FrameType
<1>1. AnyFrame \in FrameType
  BY DEF AnyFrame, FrameType
<1> DEFINE q == <<1, 1>>
           cards == {[AnyFrame EXCEPT !.sd = n] : n \in 0..3}
           plain == {[AnyFrame EXCEPT !.file = FALSE], [AnyFrame EXCEPT !.ips = q]}
           storage == {[AnyFrame EXCEPT !.emmc = e] : e \in {"absent", "off"}}
           known == {{1}, {1, 65543}}
           alerts == {[AnyFrame EXCEPT !.hms = h] : h \in known}
<1>2. Frames = cards \cup plain \cup storage \cup alerts
  BY DEF Frames
<1>3. q \in Seq(Nat)
  OBVIOUS
<1>8. known \subseteq SUBSET Nat
  OBVIOUS
<1> HIDE DEF q, known
<1>4. cards \subseteq FrameType
  BY <1>1 DEF FrameType
<1>5. plain \subseteq FrameType
  BY <1>1, <1>3 DEF FrameType
<1>6. storage \subseteq FrameType
  BY <1>1 DEF FrameType
<1>7. alerts \subseteq FrameType
  <2>1. \A h \in SUBSET Nat : [AnyFrame EXCEPT !.hms = h] \in FrameType
    BY <1>1 DEF FrameType
  <2> QED
    BY <1>8, <2>1
<1> HIDE DEF cards, plain, storage, alerts
<1> QED
  BY <1>2, <1>4, <1>5, <1>6, <1>7

\* The patches touch only what obn.conf asks for.
LEMMA PatchedFacts ==
    ASSUME NEW f \in FrameType
    PROVE  /\ f.sd # 0 \/ "home_flag" \notin opts => Patched(f).sd = f.sd
           /\ Patched(f).hms \in {f.hms, f.hms \ {65543}}
           /\ opts = {} => Patched(f) = f
<1> DEFINE a == IF "home_flag" \in opts THEN try_rewrite_home_flag(f) ELSE f
           b == IF "ipcam_file" \in opts THEN try_inject_ipcam_file_local(a) ELSE a
           c == IF "internal_storage" \in opts THEN try_patch_fun2_internal_storage(b) ELSE b
           d == IF "lan_ip" \in opts THEN try_override_net_ip(c) ELSE c
           e == IF "hms_65543" \in opts THEN try_filter_hms_code(d) ELSE d
<1>0. Patched(f) = e
  BY DEF Patched
<1>1. /\ DOMAIN a = DOMAIN f /\ a.hms = f.hms /\ (opts = {} => a = f)
      /\ f.sd # 0 \/ "home_flag" \notin opts => a.sd = f.sd
  BY DEF FrameType, try_rewrite_home_flag
<1> HIDE DEF a
<1>2. DOMAIN b = DOMAIN f /\ b.hms = f.hms /\ (opts = {} => b = f) /\ b.sd = a.sd
  BY <1>1 DEF FrameType, try_inject_ipcam_file_local
<1> HIDE DEF b
<1>3. DOMAIN c = DOMAIN f /\ c.hms = f.hms /\ (opts = {} => c = f) /\ c.sd = a.sd
  BY <1>2 DEF FrameType, try_patch_fun2_internal_storage
<1> HIDE DEF c
<1>4. DOMAIN d = DOMAIN f /\ d.hms = f.hms /\ (opts = {} => d = f) /\ d.sd = a.sd
  BY <1>3 DEF FrameType, try_override_net_ip
<1> HIDE DEF d
<1>5. e.hms \in {f.hms, f.hms \ {65543}} /\ (opts = {} => e = f) /\ e.sd = a.sd
  BY <1>4 DEF FrameType, try_filter_hms_code
<1> QED
  BY <1>0, <1>1, <1>5

LEMMA ReportsInitInv == ReportsInit => ReportsInv
BY DEF ReportsInit, ReportsInv, ReportIsTrue, AnyFrame, IdKinds

LEMMA ReportsStepInv == ReportsInv /\ [ReportsNext]_reportVars => ReportsInv'
<1> SUFFICES ASSUME ReportsInv, [ReportsNext]_reportVars PROVE ReportsInv'
  OBVIOUS
<1> USE DEF ReportsInv
<1>1. ASSUME NEW f \in Frames, NotifyLocalMessage(f) PROVE ReportsInv'
  <2>1. SubtaskId = IdOf(job)
    BY DEF SubtaskId, IdOf, synthetic_subtask_id, Version, IdKinds
  <2>2. \A x \in shownIds' : x.id = IdOf(x.job)
    BY <1>1, <2>1 DEF NotifyLocalMessage
  <2>3. UNCHANGED <<idKind, opts>>
    BY <1>1 DEF NotifyLocalMessage
  <2>4. \A x \in shownIds' : x.id = IdOf(x.job)'
    BY <2>2, <2>3 DEF IdOf
  <2>5. ReportIsTrue'
    BY <1>1, <2>3, FramesTyped, PatchedFacts DEF NotifyLocalMessage, ReportIsTrue
  <2> QED
    BY <1>1, <2>4, <2>5 DEF NotifyLocalMessage
<1>2. CASE PrintStarts
  BY <1>2 DEF PrintStarts, ReportIsTrue, IdOf
<1>3. ASSUME NEW named \in BOOLEAN, GetVersionReply(named) PROVE ReportsInv'
  <2>1. fw' \in [cur : Nat, new : Nat] /\ fw'.cur = truth.cur
    BY <1>3 DEF GetVersionReply, FromVersion
  <2> QED
    BY <1>3, <2>1 DEF GetVersionReply, ReportIsTrue, IdOf
<1>4. CASE UpgradeState
  <2>1. fw' \in [cur : Nat, new : Nat] /\ (fresh => fw'.cur = truth.cur)
    BY <1>4 DEF UpgradeState, FromList
  <2> QED
    BY <1>4, <2>1 DEF UpgradeState, ReportIsTrue, IdOf
<1>5. CASE FirmwareReleased \/ FirmwareInstalled
  <2>1. truth' \in [cur : Nat \ {0}, avail : Nat] /\ (fresh' => truth'.cur = truth.cur)
    BY <1>5 DEF FirmwareReleased, FirmwareInstalled
  <2>2. fresh' => fresh
    BY <1>5 DEF FirmwareReleased, FirmwareInstalled
  <2>3. UNCHANGED <<opts, idKind, job, sentFrame, seenFrame, shownIds, fw>>
    BY <1>5 DEF FirmwareReleased, FirmwareInstalled
  <2> QED
    BY <2>1, <2>2, <2>3 DEF ReportIsTrue, IdOf
<1>6. CASE UNCHANGED reportVars
  BY <1>6 DEF reportVars, ReportIsTrue, IdOf
<1> QED
  BY <1>1, <1>2, <1>3, <1>4, <1>5, <1>6 DEF ReportsNext

\* A report is passed on as obn.conf asks and no further, each print keeps an id of its own,
\* and only newer firmware is offered, for any number of prints and versions.
THEOREM ReportsHold == Spec => []ReportsSound
<1>1. Init => ReportsInv
  BY ReportsInitInv DEF Init
<1>2. ReportsInv => IdPerPrint
  <2> SUFFICES ASSUME ReportsInv, NEW a \in shownIds, NEW b \in shownIds
               PROVE  /\ (a.job = b.job) <=> (a.id = b.id)
                      /\ (idKind = "cloud") <=> (a.id[1] = "cloud")
    BY DEF IdPerPrint
  <2>1. a.id = IdOf(a.job) /\ b.id = IdOf(b.job)
    BY DEF ReportsInv
  <2>2. CASE idKind = "cloud"
    <3>1. a.id = <<"cloud", a.job>> /\ b.id = <<"cloud", b.job>>
      BY <2>1, <2>2 DEF IdOf
    <3> QED
      BY <2>2, <3>1
  <2>3. CASE idKind # "cloud"
    <3> DEFINE k == IF idKind = "start" THEN "start" ELSE "task"
    <3> HIDE DEF k
    <3>1. a.id = <<"lan", <<k, a.job>>>> /\ b.id = <<"lan", <<k, b.job>>>>
      BY <2>1, <2>3 DEF IdOf, k
    <3>2. a.id[1] = "lan" /\ a.id[2] = <<k, a.job>> /\ b.id[2] = <<k, b.job>>
      BY <3>1
    <3>3. a.id[2][2] = a.job /\ b.id[2][2] = b.job
      BY <3>2
    <3> QED
      BY <2>3, <3>1, <3>2, <3>3
  <2> QED
    BY <2>2, <2>3
<1>3. ReportsInv => OfferIsNewer
  BY DEF ReportsInv, OfferIsNewer, Offered
<1>4. ReportsInv => ReportsSound
  BY <1>2, <1>3 DEF ReportsInv, ReportsSound
<1> QED
  BY <1>1, <1>4, ServiceSteps, ReportsStepInv, PTL DEF Spec

-----------------------------------------------------------------------------
(* The calls of the cloud's API.  A request under way is one the plugin had to ask: no id of
   its own, and credentials that parse; the path Studio keeps is the object's key only once
   the store has the object. *)
CloudOps == {"list", "firmware", "tasks", "region", "cover", "task", "preference", "forYou",
             "rating", "config", "picture", "rate"}

Requests == [op : CloudOps, id : TaskIds, as : Accounts \cup {Nobody},
             cfg : Configs \cup {BadConfig}, pic : Pictures \cup Keys, ph : {"first", "second"}]

RequestsOk ==
    /\ req \in [CallThreads -> {Idle} \cup Requests]
    /\ \A t \in CallThreads :
          req[t] # Idle => /\ req[t].op \in {"cover", "task"} => ~IsLocalId(req[t].id)
                           /\ req[t].op = "picture" => req[t].cfg \in Configs /\ req[t].pic \in Pictures

AnswerOk == BetaAskedFor /\ AnswersUsable

CallStateOk ==
    /\ acct \in Accounts \cup {Nobody} /\ ossConfig \in Configs \cup {BadConfig}
    /\ page \in {"devices", "print", "maker", "rate"}
    /\ covers \subseteq Synthetic
    /\ askedIds \subseteq TaskIds \ (Synthetic \cup {"0"})
    /\ path \in Pictures \cup Keys /\ (path \in Keys => path \in bucket)
    /\ RatedPicturesExist

CallsInv == RequestsOk /\ AnswerOk /\ CallStateOk

\* What is signed is what is sent, with or without a token or a region, when Aliyun's bucket
\* is known and S3's name is plain; and else it is not.
LEMMA SignedRight ==
    \A c \in Configs, picture \in Pictures :
        StoreAccepts(c, Key(picture), put_headers(c, Key(picture)))
            <=> IF c.store = "aliyun" THEN c.bucket ELSE picture[2] = "plain"
<1> SUFFICES ASSUME NEW c \in Configs, NEW picture \in Pictures
             PROVE  StoreAccepts(c, Key(picture), put_headers(c, Key(picture)))
                        <=> IF c.store = "aliyun" THEN c.bucket ELSE picture[2] = "plain"
  OBVIOUS
<1> DEFINE key_ == Key(picture)
           h == put_headers(c, key_)
<1>1. CASE c.store = "aliyun"
  <2> DEFINE extra == IF c.token THEN {"token"} ELSE {}
  <2>1. /\ h.sent = {"date", "type"} \cup extra
        /\ h.signature = <<"secret", Date, extra, IF c.bucket THEN "b1" ELSE "", key_>>
    BY <1>1 DEF put_headers, aliyun_oss_put_headers
  <2>2. h.sent \cap {"token"} = extra
    BY <2>1
  <2>3. c.token => "token" \in h.sent
    BY <2>1
  <2> HIDE DEF h, extra, key_
  <2>5. StoreAccepts(c, key_, h) <=> h.signature = <<"secret", Date, extra, "b1", key_>>
    BY <1>1, <2>2, <2>3 DEF StoreAccepts
  <2>6. h.signature = <<"secret", Date, extra, "b1", key_>> <=> c.bucket
    <3>1. CASE c.bucket
      BY <2>1, <3>1
    <3>2. CASE ~c.bucket
      <4>1. h.signature = <<"secret", Date, extra, "", key_>>
        BY <2>1, <3>2
      <4>2. <<"secret", Date, extra, "", key_>> # <<"secret", Date, extra, "b1", key_>>
        OBVIOUS
      <4> QED
        BY <3>2, <4>1, <4>2
    <3> QED
      BY <3>1, <3>2
  <2>7. StoreAccepts(c, key_, h) <=> c.bucket
    BY <2>5, <2>6
  <2> QED
    BY <1>1, <2>7 DEF h, key_
<1>2. CASE c.store # "aliyun"
  <2>1. key_ = <<"rating", picture[2]>> /\ picture[2] \in {"plain", "marked"}
    BY DEF Key, Pictures
  <2>2. UriEncode(key_) = key_ <=> picture[2] = "plain"
    BY <2>1 DEF UriEncode
  <2>3. /\ h.sent = {"host", "sha256", "date"} \cup (IF c.token THEN {"token"} ELSE {})
        /\ h.signature = <<aws_sigv4_signing_key("secret", Date,
                                                 IF c.region THEN "r1" ELSE "us-east-1"),
                           key_, h.sent>>
    BY <1>2 DEF put_headers, aws_sigv4_put_headers
  <2>4. c.token => "token" \in h.sent
    BY <2>3
  <2> HIDE DEF h, key_
  <2>5. StoreAccepts(c, key_, h) <=> UriEncode(key_) = key_
    BY <1>2, <2>3, <2>4 DEF StoreAccepts, aws_sigv4_signing_key
  <2> QED
    BY <1>2, <2>2, <2>5 DEF h, key_
<1> QED
  BY <1>1, <1>2

LEMMA CallsInitInv == CallsInit => CallsInv
<1> SUFFICES ASSUME CallsInit PROVE CallsInv
  OBVIOUS
<1>1. RequestsOk
  BY DEF CallsInit, RequestsOk
<1>2. AnswerOk
  BY DEF CallsInit, AnswerOk, BetaAskedFor, AnswersUsable, Nothing
<1>3. CallStateOk
  BY DEF CallsInit, CallStateOk, RatedPicturesExist, Synthetic, Pictures, Keys, Key
<1> QED
  BY <1>1, <1>2, <1>3 DEF CallsInv

\* A call that ends gives its answer and leaves the other threads' calls alone.
LEMMA FinishFacts ==
    ASSUME RequestsOk, NEW t \in CallThreads, NEW body, Finish(t, body)
    PROVE  /\ RequestsOk'
           /\ out'.op = req[t].op /\ out'.id = req[t].id
           /\ out'.body = body /\ out'.as = req[t].as
<1>1. /\ out'.op = req[t].op /\ out'.id = req[t].id
      /\ out'.body = body /\ out'.as = req[t].as
  BY DEF Finish
<1>2. req' = [req EXCEPT ![t] = Idle]
  BY DEF Finish
<1>3. req' \in [CallThreads -> {Idle} \cup Requests]
  BY <1>2 DEF RequestsOk
<1>4. \A u \in CallThreads : req'[u] = Idle \/ req'[u] = req[u]
  BY <1>2 DEF RequestsOk
<1>5. \A u \in CallThreads :
          req'[u] # Idle => /\ req'[u].op \in {"cover", "task"} => ~IsLocalId(req'[u].id)
                            /\ req'[u].op = "picture" =>
                                  req'[u].cfg \in Configs /\ req'[u].pic \in Pictures
  BY <1>4 DEF RequestsOk
<1>6. RequestsOk'
  BY <1>3, <1>5 DEF RequestsOk, IsLocalId
<1> QED
  BY <1>1, <1>6

\* A call that asks at a second place is the same call.
LEMMA SecondFacts ==
    ASSUME RequestsOk, NEW t \in CallThreads, req[t] # Idle,
           req' = [req EXCEPT ![t].ph = "second"]
    PROVE  RequestsOk'
<1> DEFINE r == [req[t] EXCEPT !.ph = "second"]
<1>1. req[t] \in Requests
  BY DEF RequestsOk
<1>2. r \in Requests /\ r.op = req[t].op /\ r.id = req[t].id /\ r.cfg = req[t].cfg
      /\ r.pic = req[t].pic
  BY <1>1 DEF Requests
<1>3. req' = [req EXCEPT ![t] = r]
  BY DEF RequestsOk
<1> HIDE DEF r
<1>4. req' \in [CallThreads -> {Idle} \cup Requests]
  BY <1>2, <1>3 DEF RequestsOk
<1>5. \A u \in CallThreads : u # t => req'[u] = req[u]
  BY <1>3 DEF RequestsOk
<1>6. req'[t] = r
  BY <1>3 DEF RequestsOk
<1>7. \A u \in CallThreads :
          req'[u] # Idle => /\ req'[u].op \in {"cover", "task"} => ~IsLocalId(req'[u].id)
                            /\ req'[u].op = "picture" =>
                                  req'[u].cfg \in Configs /\ req'[u].pic \in Pictures
  BY <1>2, <1>5, <1>6 DEF RequestsOk
<1> QED
  BY <1>4, <1>7 DEF RequestsOk, IsLocalId

\* A call, up to its first request or its answer.
LEMMA CallStep ==
    ASSUME CallsInv, NEW t \in CallThreads, NEW op \in Calls(page), NEW id \in IdsOf(page),
           Call(t, op, id)
    PROVE  CallsInv'
<1>0. op \in CloudOps /\ id \in TaskIds
  BY DEF CallsInv, CallStateOk, Calls, CloudOps, IdsOf, TaskIds
<1>1. CallStateOk'
  BY DEF CallsInv, CallStateOk, Call, account, follow, local_, RatedPicturesExist
<1>2. CASE Early(op, id) = "ask"
  <2> DEFINE r == [op |-> op, id |-> id, as |-> acct, cfg |-> ossConfig, pic |-> path, ph |-> "first"]
  <2>1. r \in Requests
    BY <1>0 DEF CallsInv, CallStateOk, Requests
  <2>2. r.op \in {"cover", "task"} => ~IsLocalId(r.id)
    BY <1>2 DEF Early, FromCover, FromTask
  <2>3. r.op = "picture" => r.cfg \in Configs /\ r.pic \in Pictures
    <3>1. ASSUME op = "picture" PROVE ossConfig.store # "none" /\ path \in Pictures
      BY <1>2, <3>1 DEF Early, FromOss, parse_config
    <3>2. BadConfig.store = "none"
      BY DEF BadConfig
    <3> QED
      BY <3>1, <3>2 DEF CallsInv, CallStateOk
  <2>4. req' = [req EXCEPT ![t] = r] /\ out' = out /\ optedIn' = optedIn
    BY <1>2 DEF Call, account
  <2> HIDE DEF r
  <2>5. req' \in [CallThreads -> {Idle} \cup Requests]
    BY <2>1, <2>4 DEF CallsInv, RequestsOk
  <2>6. \A u \in CallThreads : IF u = t THEN req'[u] = r ELSE req'[u] = req[u]
    BY <2>4 DEF CallsInv, RequestsOk
  <2>7. \A u \in CallThreads :
          req'[u] # Idle => /\ req'[u].op \in {"cover", "task"} => ~IsLocalId(req'[u].id)
                            /\ req'[u].op = "picture" =>
                                  req'[u].cfg \in Configs /\ req'[u].pic \in Pictures
    BY <2>2, <2>3, <2>6 DEF CallsInv, RequestsOk
  <2>8. RequestsOk'
    BY <2>5, <2>7 DEF RequestsOk, IsLocalId
  <2>9. AnswerOk'
    BY <2>4 DEF CallsInv, AnswerOk, BetaAskedFor, AnswersUsable
  <2> QED
    BY <1>1, <2>8, <2>9 DEF CallsInv
<1>3. CASE Early(op, id) # "ask"
  <2> DEFINE body == Early(op, id)
  <2>1. req' = req /\ out'.op = op /\ out'.id = id /\ out'.body = body
    BY <1>3 DEF Call
  <2>2. /\ body # "withBeta"
        /\ op = "preference" => body = "stub"
        /\ op = "task" => body = "echo"
    BY <1>0, <1>3 DEF Early, LoggedIn, FromHistory, FromPrinter, FromCover, FromTask, FromStub,
       FromRegion, FromOss, CloudOps
  <2> HIDE DEF body
  <2>3. AnswerOk'
    BY <2>1, <2>2 DEF AnswerOk, BetaAskedFor, AnswersUsable
  <2>4. RequestsOk'
    BY <2>1 DEF CallsInv, RequestsOk, IsLocalId
  <2> QED
    BY <1>1, <2>3, <2>4 DEF CallsInv
<1> QED
  BY <1>2, <1>3

\* An answer Studio is given, when the state behind it is as before.
LEMMA AnswerGiven ==
    ASSUME CallsInv, NEW t \in CallThreads, NEW body, Finish(t, body),
           req[t].op = "preference" => body \in {"stub", "clouds"},
           req[t].op = "task" => body \in {"echo", "clouds"},
           req[t].op = "firmware" /\ body = "withBeta" => req[t].as \in optedIn,
           UNCHANGED optedIn
    PROVE  RequestsOk' /\ AnswerOk'
<1>1. RequestsOk' /\ out'.op = req[t].op /\ out'.body = body /\ out'.as = req[t].as
  BY FinishFacts DEF CallsInv
<1>2. AnswerOk'
  BY <1>1 DEF AnswerOk, BetaAskedFor, AnswersUsable
<1> QED
  BY <1>1, <1>2

\* The answers of the cloud and of the store.
LEMMA ReplyStep ==
    ASSUME CallsInv, NEW t \in CallThreads, req[t] # Idle, NEW reply \in Replies(t),
           \/ get_user_print_info(t, reply) \/ get_printer_firmware(t, reply)
           \/ get_subtask_info(t, reply) \/ get_subtask(t, reply) \/ get_mw_user(t, reply)
           \/ get_user_tasks(t, reply) \/ get_model_mall_rating(t, reply)
           \/ post_device_region(t, reply)
           \/ get_oss_config(t, reply) \/ put_rating_picture_oss(t, reply)
           \/ put_model_mall_rating(t, reply)
    PROVE  CallsInv'
<1> USE DEF CallStateOk, RatedPicturesExist
<1>0. RequestsOk /\ AnswerOk /\ CallStateOk
  BY DEF CallsInv
<1>00. /\ req[t].op \in {"cover", "task"} => ~IsLocalId(req[t].id)
       /\ req[t].op = "picture" => req[t].pic \in Pictures
       /\ req[t].id \in TaskIds
  BY <1>0 DEF RequestsOk, Requests
<1>1. CASE get_user_print_info(t, reply)
  <2>1. /\ req[t].op = "list" /\ UNCHANGED <<account, link, local_, askedIds, oss>>
    BY <1>1 DEF get_user_print_info
  <2>2. CallStateOk'
    BY <1>0, <1>1, <2>1 DEF get_user_print_info, cloud_add_subscribe, remap_bind_payload,
       account, local_, oss
  <2>3. CASE \E body : Finish(t, body)
    <3> PICK body : Finish(t, body)
      BY <2>3
    <3>1. RequestsOk' /\ AnswerOk'
      BY <2>1, AnswerGiven DEF account
    <3> QED
      BY <2>2, <3>1 DEF CallsInv
  <2>4. CASE req' = [req EXCEPT ![t].ph = "second"] /\ UNCHANGED out
    <3>1. RequestsOk'
      BY <1>0, <2>4, SecondFacts
    <3>2. AnswerOk'
      BY <1>0, <2>1, <2>4 DEF AnswerOk, BetaAskedFor, AnswersUsable, account
    <3> QED
      BY <2>2, <3>1, <3>2 DEF CallsInv
  <2> QED
    BY <1>1, <2>3, <2>4 DEF get_user_print_info
<1>2. CASE get_printer_firmware(t, reply)
  <2> DEFINE body == IF reply # "body" THEN "empty"
                     ELSE IF WantsBeta(t) THEN "withBeta" ELSE "releases"
  <2>1. Finish(t, body) /\ req[t].op = "firmware" /\ UNCHANGED optedIn
    BY <1>2 DEF get_printer_firmware, account
  <2>2. body = "withBeta" => req[t].as \in optedIn
    BY DEF WantsBeta
  <2>3. RequestsOk' /\ AnswerOk'
    BY <2>1, <2>2, AnswerGiven
  <2>4. CallStateOk'
    BY <1>0, <1>2 DEF get_printer_firmware, account, follow, local_, oss
  <2> QED
    BY <2>3, <2>4 DEF CallsInv
<1>3. CASE get_subtask_info(t, reply)
  <2> DEFINE body == IF reply \in GoodAnswer THEN "clouds" ELSE "empty"
  <2>1. Finish(t, body) /\ req[t].op = "cover" /\ UNCHANGED optedIn
    BY <1>3 DEF get_subtask_info, account
  <2>2. RequestsOk' /\ AnswerOk'
    BY <2>1, AnswerGiven
  <2>3. CallStateOk'
    BY <1>0, <1>00, <1>3, <2>1 DEF get_subtask_info, account, follow, local_, oss, IsLocalId
  <2> QED
    BY <2>2, <2>3 DEF CallsInv
<1>4. CASE get_subtask(t, reply)
  <2> DEFINE body == IF reply \in {"body", "lacking"} THEN "clouds" ELSE "echo"
  <2>1. Finish(t, body) /\ req[t].op = "task" /\ UNCHANGED optedIn
    BY <1>4 DEF get_subtask, account
  <2>2. RequestsOk' /\ AnswerOk'
    BY <2>1, AnswerGiven
  <2>3. CallStateOk'
    BY <1>0, <1>00, <1>4, <2>1 DEF get_subtask, account, follow, local_, oss, IsLocalId
  <2> QED
    BY <2>2, <2>3 DEF CallsInv
<1>5. CASE get_mw_user(t, reply)
  <2> DEFINE body == IF ~PassedOn(t, reply) THEN "stub"
                     ELSE IF reply = "body" THEN "clouds" ELSE "unchecked"
  <2>1. Finish(t, body) /\ req[t].op \in {"preference", "forYou"} /\ UNCHANGED optedIn
    BY <1>5 DEF get_mw_user, account
  <2>2. req[t].op = "preference" => body \in {"stub", "clouds"}
    BY DEF PassedOn
  <2>3. RequestsOk' /\ AnswerOk'
    BY <2>1, <2>2, AnswerGiven
  <2>4. CallStateOk'
    BY <1>0, <1>5 DEF get_mw_user, account, follow, local_, oss
  <2> QED
    BY <2>3, <2>4 DEF CallsInv
<1>6. ASSUME NEW op \in {"tasks", "rating", "region"}, Forwarded(t, op, reply) PROVE CallsInv'
  <2> DEFINE body == IF reply \in GoodAnswer THEN "clouds" ELSE "failed"
  <2>1. Finish(t, body) /\ req[t].op = op /\ UNCHANGED optedIn
    BY <1>6 DEF Forwarded, account
  <2>2. RequestsOk' /\ AnswerOk'
    BY <2>1, AnswerGiven
  <2>3. CallStateOk'
    BY <1>0, <1>6 DEF Forwarded, account, follow, local_, oss
  <2> QED
    BY <2>2, <2>3 DEF CallsInv
<1>7. CASE get_oss_config(t, reply)
  <2>1. req[t].op = "config" /\ UNCHANGED <<account, follow, local_, askedIds, path, bucket, rating>>
    BY <1>7 DEF get_oss_config
  <2>2. ossConfig' \in Configs \cup {BadConfig}
    BY <1>0, <1>7 DEF get_oss_config
  <2>3. CallStateOk'
    BY <1>0, <2>1, <2>2 DEF account, follow, local_
  <2>4. CASE \E body : Finish(t, body)
    <3> PICK body : Finish(t, body)
      BY <2>4
    <3>1. RequestsOk' /\ AnswerOk'
      BY <2>1, AnswerGiven DEF account
    <3> QED
      BY <2>3, <3>1 DEF CallsInv
  <2>5. CASE req' = [req EXCEPT ![t].ph = "second"] /\ UNCHANGED out
    <3>1. RequestsOk'
      BY <1>0, <2>5, SecondFacts
    <3>2. AnswerOk'
      BY <1>0, <2>1, <2>5 DEF AnswerOk, BetaAskedFor, AnswersUsable, account
    <3> QED
      BY <2>3, <3>1, <3>2 DEF CallsInv
  <2> QED
    BY <1>7, <2>4, <2>5 DEF get_oss_config
<1>8. CASE put_rating_picture_oss(t, reply)
  <2> DEFINE stored == reply \in GoodAnswer
             key_ == Key(req[t].pic)
             body == IF stored THEN "stored" ELSE "failed"
  <2>1. Finish(t, body) /\ req[t].op = "picture" /\ UNCHANGED optedIn
    BY <1>8 DEF put_rating_picture_oss, account
  <2>2. RequestsOk' /\ AnswerOk'
    BY <2>1, AnswerGiven
  <2>3. key_ \in Keys
    BY <1>00, <2>1 DEF Keys
  <2>4. /\ path' = PathAfter(t, stored) /\ bucket \subseteq bucket' /\ (stored => key_ \in bucket')
        /\ UNCHANGED <<account, follow, local_, askedIds, ossConfig, rating>>
    BY <1>8 DEF put_rating_picture_oss
  <2>5. path' = IF stored THEN key_ ELSE path
    BY <2>4 DEF PathAfter
  <2> HIDE DEF key_
  <2>6. CallStateOk'
    BY <1>0, <2>3, <2>4, <2>5 DEF account, follow, local_
  <2> QED
    BY <2>2, <2>6 DEF CallsInv
<1>9. CASE put_model_mall_rating(t, reply)
  <2> DEFINE body == IF reply \in GoodAnswer THEN "clouds" ELSE "failed"
  <2>1. Finish(t, body) /\ req[t].op = "rate" /\ UNCHANGED optedIn
    BY <1>9 DEF put_model_mall_rating, account
  <2>2. RequestsOk' /\ AnswerOk'
    BY <2>1, AnswerGiven
  <2>3. CallStateOk'
    BY <1>0, <1>9 DEF put_model_mall_rating, account, follow, local_
  <2> QED
    BY <2>2, <2>3 DEF CallsInv
<1> QED
  BY <1>1, <1>2, <1>3, <1>4, <1>5, <1>6, <1>7, <1>8, <1>9
     DEF get_user_tasks, get_model_mall_rating, post_device_region

LEMMA CallsStepInv == CallsInv /\ [CallsNext]_callVars => CallsInv'
<1> SUFFICES ASSUME CallsInv, [CallsNext]_callVars PROVE CallsInv'
  OBVIOUS
<1>1. ASSUME NEW t \in CallThreads, NEW op \in Calls(page), NEW id \in IdsOf(page), Call(t, op, id)
      PROVE  CallsInv'
  BY <1>1, CallStep
<1>2. ASSUME NEW t \in CallThreads, req[t] # Idle, NEW reply \in Replies(t),
             \/ get_user_print_info(t, reply) \/ get_printer_firmware(t, reply)
             \/ get_subtask_info(t, reply) \/ get_subtask(t, reply) \/ get_mw_user(t, reply)
             \/ get_user_tasks(t, reply) \/ get_model_mall_rating(t, reply)
             \/ post_device_region(t, reply)
             \/ get_oss_config(t, reply) \/ put_rating_picture_oss(t, reply)
             \/ put_model_mall_rating(t, reply)
      PROVE  CallsInv'
  BY <1>2, ReplyStep
<1>3. CASE ChangeUser \/ ChangeLink \/ GetVersionArrives \/ NextPrint \/ UNCHANGED callVars
  <2>1. UNCHANGED <<req, out, optedIn>>
    BY <1>3 DEF ChangeUser, ChangeLink, GetVersionArrives, NextPrint, callVars, account
  <2>2. RequestsOk' /\ AnswerOk'
    BY <2>1 DEF CallsInv, RequestsOk, IsLocalId, AnswerOk, BetaAskedFor, AnswersUsable
  <2>3. CallStateOk'
    BY <1>3 DEF CallsInv, CallStateOk, RatedPicturesExist, ChangeUser,
       ChangeLink, GetVersionArrives, NextPrint, callVars, account, follow, local_, oss, Synthetic
  <2> QED
    BY <2>2, <2>3 DEF CallsInv
<1> QED
  BY <1>1, <1>2, <1>3 DEF CallsNext

\* Whatever two threads ask while the user, the cloud session or the print changes: what
\* Studio is given is usable and asked for by this account, no made-up id leaves, a rating
\* refers to pictures that exist, and a store refuses exactly the pictures with a name a URI
\* must encode (S3) or without a known bucket (Aliyun).  For any accounts, printers, threads
\* and number of calls.
THEOREM CallsHold == Spec => []CallsSound
<1>1. Init => CallsInv
  BY CallsInitInv DEF Init
<1>2. CallsInv => SignaturesHold
  <2> SUFFICES ASSUME RequestsOk, NEW t \in CallThreads, req[t].op = "picture"
               PROVE  Accepted(req[t]) <=> IF req[t].cfg.store = "aliyun" THEN req[t].cfg.bucket
                                           ELSE req[t].pic[2] = "plain"
    BY DEF CallsInv, SignaturesHold
  <2>1. req[t] # Idle
    BY DEF Idle
  <2>2. req[t].cfg \in Configs /\ req[t].pic \in Pictures
    BY <2>1 DEF RequestsOk
  <2> QED
    BY <2>2, SignedRight DEF Accepted
<1>3. CallsInv => CallsSound
  BY <1>2 DEF CallsInv, AnswerOk, CallStateOk, CallsSound, SyntheticStaysLocal
<1> QED
  BY <1>1, <1>3, ServiceSteps, CallsStepInv, PTL DEF Spec

-----------------------------------------------------------------------------
(* The handshake of the cloud camera.  All that travels is known: Hello, one flight, one
   message with the client's keys, and the printer's ticket and Finished, or its alert when
   the two sides' keys differ.  The network can only lose, repeat, swap or delay these. *)
SeenFlight == <<"client_hello">> \o Flight
Keyed == SeenFlight \o <<"client_key_exchange">>
WholeTranscript == Append(Keyed, "client_finished")
WithTicket == Append(WholeTranscript, "ticket")

KeysOfClient == derive_session_keys(choice.suite, choice.ems, derive_psk(typed), Keyed)
KeysOfPrinter == derive_session_keys(choice.suite, choice.ems, PrinterPsk, Keyed)
KeysAgree == KeysOfClient = KeysOfPrinter

HelloGram == Datagram(0, "hello", 0)
KeysGram == Datagram(1, "keys", encrypt_record(KeysOfClient, 0,
                                    finished_verify_data(KeysOfClient, "client finished", Keyed)))
NoiseGram == Datagram(0, "noise", 0)
FlightGram == Datagram(0, "flight", choice)
TicketGram == Datagram(0, "ticket", 0)
AlertGram == Datagram(0, "alert", 0)
FinishedGram == Datagram(0, "finished", encrypt_record(KeysOfPrinter, 0,
                    finished_verify_data(KeysOfPrinter, "server finished", peer.transcript)))

HelloSeen == <<0, "hello">> \in peer.seen
KeysSeen == <<1, "keys">> \in peer.seen

\* What may be under way to the printer and to the client.
DataGrams == {Datagram(n, "data", r) : n \in Nat \ {0, 1}, r \in sealed}
ToPeerGrams == {HelloGram} \cup (IF dtls.pkt > 1 THEN {KeysGram} ELSE {}) \cup DataGrams
ToHostGrams == {NoiseGram} \cup (IF HelloSeen THEN {FlightGram} ELSE {})
               \cup (IF KeysSeen THEN IF KeysAgree THEN {FinishedGram, TicketGram} ELSE {AlertGram}
                     ELSE {})

HsTypes ==
    /\ digest \in Digests /\ typed \in {digest, <<9>>} /\ choice \in ServerChoices
    /\ hsPc \in {"idle", "hello", "finish", "done", "failed"} /\ netFaults \in Nat
    /\ dtls \in [keys : {NoKeys, KeysOfClient}, tx : Nat, pkt : Nat]
    /\ peer \in [seen : SUBSET ({<<0, "hello">>, <<1, "keys">>}
                                \cup {<<n, "data">> : n \in Nat \ {0, 1}}),
                 transcript : {<<>>, SeenFlight, WholeTranscript, WithTicket},
                 keys : {NoKeys, KeysOfPrinter}, ignored : {FALSE}]
    /\ toPeer \in Seq(ToPeerGrams) /\ toHost \in Seq(ToHostGrams)

\* Where the client is, and what it sealed.
ClientInv ==
    /\ hsPc = "idle" => toPeer = <<>> /\ toHost = <<>> /\ ~HelloSeen /\ dtls.pkt = 0
                     /\ sealed = {}
    /\ hsPc = "hello" => transcript = <<"client_hello">> /\ dtls.pkt = 1 /\ sealed = {}
    /\ hsPc \in {"finish", "done"} => dtls.pkt > 1
    /\ dtls.pkt > 1 => HelloSeen /\ dtls.keys = KeysOfClient
    /\ hsPc \in {"finish", "done"} => dtls.tx >= 1 /\ dtls.pkt = dtls.tx + 1
    /\ hsPc = "finish" => dtls.tx = 1
    /\ hsPc = "done" => KeysSeen /\ KeysAgree /\ transcript = peer.transcript
    /\ \A r \in sealed : \E n \in Nat : n < dtls.tx /\ r.nonce = <<1, n>>
    /\ NumberedOnce

PrinterInv ==
    /\ KeysSeen => dtls.pkt > 1
    /\ ~HelloSeen => peer.transcript = <<>>
    /\ HelloSeen /\ ~(KeysSeen /\ KeysAgree) => peer.transcript = SeenFlight
    /\ KeysSeen /\ KeysAgree => /\ peer.transcript \in {WholeTranscript, WithTicket}
                                /\ peer.keys = KeysOfPrinter

\* With no fault of the network, the right password and a choice the client can do, what is
\* missing for the handshake's end is under way, and in the right order.
Clean == netFaults = 0 /\ KeysAgree /\ choice.suite # "other" /\ choice.curve = "x25519"

OneFlightComes == \E f \in DOMAIN toHost :
    toHost[f] = FlightGram /\ \A i \in DOMAIN toHost \ {f} : toHost[i] = NoiseGram

FinishedComes == \E f \in DOMAIN toHost :
    /\ toHost[f] = FinishedGram
    /\ \A i \in DOMAIN toHost \ {f} : toHost[i] \in {NoiseGram, TicketGram}
    /\ \A i \in DOMAIN toHost : toHost[i] = TicketGram =>
          /\ i < f /\ transcript = WholeTranscript /\ peer.transcript = WithTicket
          /\ \A j \in DOMAIN toHost : toHost[j] = TicketGram => i = j
    /\ (\A i \in DOMAIN toHost : toHost[i] # TicketGram) => transcript = peer.transcript

CleanInv ==
    Clean =>
    /\ hsPc # "failed"
    /\ hsPc = "hello" => IF HelloSeen THEN OneFlightComes ELSE toPeer # <<>>
    /\ hsPc = "finish" /\ KeysSeen => FinishedComes
    /\ hsPc = "finish" /\ ~KeysSeen =>
          /\ transcript = WholeTranscript
          /\ \A i \in DOMAIN toHost : toHost[i] = NoiseGram
          /\ \E i \in DOMAIN toPeer : toPeer[i] = KeysGram

HandshakeInv == HsTypes /\ ClientInv /\ PrinterInv /\ CleanInv

\* Kinds, counters and contents of what travels.
LEMMA GramFacts ==
    /\ HelloGram.kind = "hello" /\ HelloGram.n = 0
    /\ KeysGram.kind = "keys" /\ KeysGram.n = 1
    /\ KeysGram.body = encrypt_record(KeysOfClient, 0,
                           finished_verify_data(KeysOfClient, "client finished", Keyed))
    /\ NoiseGram.kind = "noise" /\ TicketGram.kind = "ticket" /\ AlertGram.kind = "alert"
    /\ FlightGram.kind = "flight" /\ FlightGram.body = choice
    /\ FinishedGram.kind = "finished"
    /\ FinishedGram.body = encrypt_record(KeysOfPrinter, 0,
                    finished_verify_data(KeysOfPrinter, "server finished", peer.transcript))
    /\ \A n \in Nat : \A r : Datagram(n, "data", r).kind = "data" /\ Datagram(n, "data", r).n = n
BY DEF HelloGram, KeysGram, NoiseGram, TicketGram, AlertGram, FlightGram, FinishedGram, Datagram

\* A fault of the network brings nothing new.
LEMMA FaultySeq ==
    ASSUME NEW S, NEW q \in Seq(S), q # <<>>, NEW r \in Faulty(q)
    PROVE  r \in Seq(S)
<1>1. Head(q) \in S /\ Tail(q) \in Seq(S) /\ Len(q) \in Nat
  BY HeadTailProperties, LenProperties
<1>2. <<Head(q)>> \o q \in Seq(S)
  <2>1. <<Head(q)>> \in Seq(S)
    BY <1>1
  <2> QED
    BY <2>1, ConcatProperties
<1>3. ASSUME Len(q) > 1 PROVE <<q[2], q[1]>> \o SubSeq(q, 3, Len(q)) \in Seq(S)
  <2>1. \A i \in 1 .. Len(q) : q[i] \in S
    BY ElementOfSeq
  <2>2. <<q[2], q[1]>> \in Seq(S)
    BY <1>1, <1>3, <2>1
  <2>3. SubSeq(q, 3, Len(q)) \in Seq(S)
    BY <1>1, <2>1, SubSeqProperties
  <2> QED
    BY <2>2, <2>3, ConcatProperties
<1> QED
  BY <1>1, <1>2, <1>3 DEF Faulty

\* The client and the printer write the same transcript.
LEMMA TranscriptFacts ==
    /\ Keyed \o <<"client_finished">> = WholeTranscript
    /\ Append(WholeTranscript, "ticket") = WithTicket
<1> DEFINE msgs == {"client_hello", "server_hello", "server_key_exchange", "server_hello_done",
                    "client_key_exchange", "client_finished"}
<1>1. <<"client_hello">> \in Seq(msgs) /\ Flight \in Seq(msgs)
      /\ <<"client_key_exchange">> \in Seq(msgs) /\ "client_finished" \in msgs
  BY DEF Flight
<1> HIDE DEF msgs
<1>2. SeenFlight \in Seq(msgs)
  BY <1>1, ConcatProperties DEF SeenFlight
<1>3. Keyed \in Seq(msgs)
  BY <1>1, <1>2, ConcatProperties DEF Keyed
<1> QED
  BY <1>1, <1>3, AppendIsConcat DEF WholeTranscript, WithTicket

\* The two sides' keys agree exactly when the password is right.
TypedCodes == {digest, <<9>>}

LEMMA PasswordFacts == digest \in Digests /\ typed \in TypedCodes => (KeysAgree <=> typed = digest)
<1> SUFFICES ASSUME digest \in Digests, typed \in TypedCodes PROVE KeysAgree <=> typed = digest
  OBVIOUS
<1>1. derive_psk(digest) = PrinterPsk
  BY DEF derive_psk, PrinterPsk
<1>2. typed = digest => KeysAgree
  BY <1>1 DEF KeysAgree, KeysOfClient, KeysOfPrinter
<1>3. KeysAgree => derive_psk(typed) = PrinterPsk
  BY DEF KeysAgree, KeysOfClient, KeysOfPrinter, derive_session_keys, tls12_prf
<1>4. derive_psk(typed) = PrinterPsk => DOMAIN typed = DOMAIN digest
  BY DEF derive_psk, PrinterPsk
<1>5. DOMAIN <<9>> = 1..1 /\ DOMAIN <<1, 2>> = 1..2 /\ DOMAIN <<3, 0, 4>> = 1..3
  OBVIOUS
<1>6. 2 \in 1..2 /\ 2 \in 1..3 /\ 2 \notin 1..1
  OBVIOUS
<1>7. DOMAIN typed = DOMAIN digest => typed # <<9>>
  BY <1>5, <1>6, Zenon DEF Digests
<1> QED
  BY <1>2, <1>3, <1>4, <1>7 DEF TypedCodes

\* What may travel, when the printer has seen no more and the client sent nothing new.
LEMMA GramsSame ==
    ASSUME UNCHANGED <<digest, typed, choice, sealed>>, dtls'.pkt = dtls.pkt,
           peer'.seen = peer.seen, peer'.transcript = peer.transcript
    PROVE  /\ KeysOfClient' = KeysOfClient /\ KeysOfPrinter' = KeysOfPrinter
           /\ KeysAgree' <=> KeysAgree
           /\ HelloSeen' <=> HelloSeen
           /\ KeysSeen' <=> KeysSeen
           /\ FlightGram' = FlightGram /\ FinishedGram' = FinishedGram /\ KeysGram' = KeysGram
           /\ ToPeerGrams' = ToPeerGrams /\ ToHostGrams' = ToHostGrams
BY DEF KeysOfClient, KeysOfPrinter, KeysAgree, HelloSeen, KeysSeen, FlightGram, FinishedGram,
   KeysGram, ToPeerGrams, ToHostGrams, DataGrams, derive_psk, PrinterPsk

LEMMA HandshakeInitInv == HandshakeInit => HandshakeInv
<1> SUFFICES ASSUME HandshakeInit PROVE HandshakeInv
  OBVIOUS
<1>1. ~HelloSeen /\ ~KeysSeen
  BY DEF HandshakeInit, HelloSeen, KeysSeen
<1>2. HsTypes
  BY DEF HandshakeInit, HsTypes
<1>3. ClientInv
  BY <1>1 DEF HandshakeInit, ClientInv, NumberedOnce
<1>4. PrinterInv /\ CleanInv
  BY <1>1 DEF HandshakeInit, PrinterInv, CleanInv
<1> QED
  BY <1>2, <1>3, <1>4 DEF HandshakeInv

\* A step that changes only queues and counters, or gives up.
LEMMA QuietStep ==
    ASSUME HandshakeInv, UNCHANGED <<digest, typed, choice, sealed, peer, dtls, transcript>>,
           hsPc # "idle", hsPc' \in {hsPc, "failed"}, netFaults' \in Nat,
           toPeer' \in Seq(ToPeerGrams), toHost' \in Seq(ToHostGrams)
    PROVE  HsTypes' /\ ClientInv' /\ PrinterInv'
<1> USE GramsSame
<1>1. HsTypes'
  BY DEF HandshakeInv, HsTypes
<1>2. ClientInv'
  BY DEF HandshakeInv, HsTypes, ClientInv, NumberedOnce
<1>3. PrinterInv'
  BY DEF HandshakeInv, PrinterInv
<1> QED
  BY <1>1, <1>2, <1>3

LEMMA RepeatHelloInv == HandshakeInv /\ RepeatHello => HandshakeInv'
<1> SUFFICES ASSUME HandshakeInv, RepeatHello PROVE HandshakeInv'
  OBVIOUS
<1>1. /\ UNCHANGED <<digest, typed, choice, sealed, peer, dtls, transcript, toHost>>
      /\ hsPc = "hello" /\ hsPc' \in {hsPc, "failed"}
      /\ netFaults' = netFaults + (IF Late THEN 1 ELSE 0)
  BY DEF RepeatHello, Setting
<1>2. netFaults' \in Nat /\ (netFaults' = 0 => ~Late /\ netFaults = 0)
  BY <1>1 DEF HandshakeInv, HsTypes
<1>3. toPeer' \in Seq(ToPeerGrams)
  <2>1. HelloGram \in ToPeerGrams
    BY DEF ToPeerGrams
  <2>2. toPeer' = toPeer \/ toPeer' = Append(toPeer, HelloGram)
    BY DEF RepeatHello, HelloGram
  <2>3. toPeer \in Seq(ToPeerGrams)
    BY DEF HandshakeInv, HsTypes
  <2> QED
    BY <2>1, <2>2, <2>3, AppendProperties
<1>4. HsTypes' /\ ClientInv' /\ PrinterInv'
  BY <1>1, <1>2, <1>3, QuietStep DEF HandshakeInv, HsTypes
<1>5. ~Clean'
  <2> SUFFICES ASSUME Clean' PROVE FALSE
    OBVIOUS
  <2>1. Clean /\ ~Late
    BY <1>1, <1>2, GramsSame DEF Clean
  <2>2. OneFlightComes \/ toPeer # <<>>
    BY <1>1, <2>1 DEF HandshakeInv, CleanInv
  <2>3. toHost = <<>> => DOMAIN toHost = {}
    OBVIOUS
  <2> QED
    BY <2>1, <2>2, <2>3 DEF Late, OneFlightComes
<1>6. CleanInv'
  BY <1>5 DEF CleanInv
<1> QED
  BY <1>4, <1>6 DEF HandshakeInv

LEMMA FinishedTimeoutInv == HandshakeInv /\ FinishedTimeout => HandshakeInv'
<1> SUFFICES ASSUME HandshakeInv, FinishedTimeout PROVE HandshakeInv'
  OBVIOUS
<1>1. /\ UNCHANGED <<digest, typed, choice, sealed, peer, dtls, transcript, toHost, toPeer>>
      /\ hsPc = "finish" /\ hsPc' = "failed"
      /\ netFaults' = netFaults + (IF Late THEN 1 ELSE 0)
  BY DEF FinishedTimeout, Setting
<1>2. netFaults' \in Nat /\ (netFaults' = 0 => ~Late /\ netFaults = 0)
  BY <1>1 DEF HandshakeInv, HsTypes
<1>3. HsTypes' /\ ClientInv' /\ PrinterInv'
  BY <1>1, <1>2, QuietStep DEF HandshakeInv, HsTypes
<1>4. ~Clean'
  <2> SUFFICES ASSUME Clean' PROVE FALSE
    OBVIOUS
  <2>1. Clean /\ ~Late
    BY <1>1, <1>2, GramsSame DEF Clean
  <2>2. (\E i \in DOMAIN toHost : TRUE) \/ (\E i \in DOMAIN toPeer : TRUE)
    BY <1>1, <2>1 DEF HandshakeInv, CleanInv, FinishedComes
  <2>3. (toHost = <<>> => DOMAIN toHost = {}) /\ (toPeer = <<>> => DOMAIN toPeer = {})
    OBVIOUS
  <2> QED
    BY <2>1, <2>2, <2>3 DEF Late
<1>5. CleanInv'
  BY <1>4 DEF CleanInv
<1> QED
  BY <1>3, <1>5 DEF HandshakeInv

LEMMA NetFaultInv == HandshakeInv /\ NetFault => HandshakeInv'
<1> SUFFICES ASSUME HandshakeInv, NetFault PROVE HandshakeInv'
  OBVIOUS
<1>1. /\ UNCHANGED <<digest, typed, choice, sealed, peer, dtls, transcript, hsPc>>
      /\ netFaults' = netFaults + 1
  BY DEF NetFault, Setting
<1>2. netFaults' \in Nat /\ netFaults' # 0
  BY <1>1 DEF HandshakeInv, HsTypes
<1>3. toPeer' \in Seq(ToPeerGrams) /\ toHost' \in Seq(ToHostGrams)
  BY FaultySeq DEF NetFault, HandshakeInv, HsTypes
<1>4. hsPc # "idle"
  BY DEF NetFault, HandshakeInv, ClientInv
<1>5. HsTypes' /\ ClientInv' /\ PrinterInv'
  BY <1>1, <1>2, <1>3, <1>4, QuietStep
<1>6. CleanInv'
  BY <1>2 DEF CleanInv, Clean
<1> QED
  BY <1>5, <1>6 DEF HandshakeInv

\* What comes after the first element.
LEMMA TailFacts ==
    ASSUME NEW S, NEW q \in Seq(S), q # <<>>
    PROVE  /\ Tail(q) \in Seq(S) /\ Head(q) \in S /\ Head(q) = q[1] /\ 1 \in DOMAIN q
           /\ \A i \in DOMAIN Tail(q) : i + 1 \in DOMAIN q /\ Tail(q)[i] = q[i + 1] /\ i \in Nat
           /\ \A i \in DOMAIN q : i # 1 => i - 1 \in DOMAIN Tail(q) /\ Tail(q)[i - 1] = q[i]
           /\ \A i \in DOMAIN q : i \in Nat /\ i >= 1
<1>1. /\ Tail(q) \in Seq(S) /\ Head(q) \in S /\ Len(Tail(q)) = Len(q) - 1
      /\ \A i \in 1 .. Len(Tail(q)) : Tail(q)[i] = q[i+1]
  BY HeadTailProperties
<1>2. Len(q) \in Nat /\ Len(q) # 0 /\ DOMAIN q = 1 .. Len(q)
      /\ DOMAIN Tail(q) = 1 .. Len(Tail(q)) /\ Head(q) = q[1]
  BY <1>1, EmptySeq, LenProperties
<1>3. \A i \in 1 .. Len(q) : i # 1 => i - 1 \in 1 .. (Len(q) - 1) /\ (i - 1) + 1 = i
  BY <1>2
<1>4. \A i \in 1 .. (Len(q) - 1) : i + 1 \in 1 .. Len(q) /\ i \in Nat
  BY <1>2
<1>5. \A i \in DOMAIN q : i # 1 => i - 1 \in DOMAIN Tail(q) /\ Tail(q)[i - 1] = q[i]
  <2> SUFFICES ASSUME NEW i \in DOMAIN q, i # 1
               PROVE  i - 1 \in DOMAIN Tail(q) /\ Tail(q)[i - 1] = q[i]
    OBVIOUS
  <2>1. i - 1 \in 1 .. Len(Tail(q)) /\ (i - 1) + 1 = i
    BY <1>1, <1>2, <1>3
  <2> QED
    BY <1>1, <1>2, <2>1
<1>6. \A i \in 1 .. Len(q) : i \in Nat /\ i >= 1
  BY <1>2
<1>7. 1 \in 1 .. Len(q)
  BY <1>2
<1> QED
  BY <1>1, <1>2, <1>4, <1>5, <1>6, <1>7

\* What comes before the last.
LEMMA AppendFacts ==
    ASSUME NEW S, NEW q \in Seq(S), NEW x \in S
    PROVE  /\ Append(q, x) \in Seq(S) /\ Append(q, x) # <<>>
           /\ \A i \in DOMAIN q : i \in DOMAIN Append(q, x) /\ Append(q, x)[i] = q[i]
           /\ \E k \in DOMAIN Append(q, x) :
                 /\ Append(q, x)[k] = x /\ \A i \in DOMAIN q : i < k
                 /\ \A i \in DOMAIN Append(q, x) : i = k \/ i \in DOMAIN q
           /\ \A i \in DOMAIN Append(q, x) : i \in Nat
<1>1. /\ Append(q, x) \in Seq(S) /\ Append(q, x) # <<>> /\ Len(Append(q, x)) = Len(q) + 1
      /\ \A i \in 1 .. Len(q) : Append(q, x)[i] = q[i]
      /\ Append(q, x)[Len(q) + 1] = x
  BY AppendProperties
<1>2. Len(q) \in Nat /\ DOMAIN q = 1 .. Len(q) /\ DOMAIN Append(q, x) = 1 .. (Len(q) + 1)
  BY <1>1, LenProperties
<1> DEFINE k == Len(q) + 1
<1>3. /\ k \in 1 .. k /\ \A i \in 1 .. Len(q) : i < k /\ i \in 1 .. k
      /\ \A i \in 1 .. k : (i = k \/ i \in 1 .. Len(q)) /\ i \in Nat
  BY <1>2
<1>4. \E j \in DOMAIN Append(q, x) :
                 /\ Append(q, x)[j] = x /\ \A i \in DOMAIN q : i < j
                 /\ \A i \in DOMAIN Append(q, x) : i = j \/ i \in DOMAIN q
  <2> WITNESS k \in DOMAIN Append(q, x)
  <2> QED
    BY <1>1, <1>2, <1>3
<1> QED
  BY <1>1, <1>2, <1>3, <1>4

\* What is at the head of the client's queue.
LEMMA HeadFacts ==
    ASSUME HandshakeInv, toHost # <<>>
    PROVE  /\ Head(toHost) \in ToHostGrams /\ toHost \in Seq(ToHostGrams)
           /\ Skips(Head(toHost)) <=> Head(toHost) = NoiseGram
           /\ Head(toHost).kind = "flight" <=> Head(toHost) = FlightGram
           /\ Head(toHost).kind = "ticket" <=> Head(toHost) = TicketGram
           /\ Head(toHost).kind = "alert" <=> Head(toHost) = AlertGram
           /\ Head(toHost) = FlightGram => HelloSeen
           /\ Head(toHost) = TicketGram => KeysSeen /\ KeysAgree
           /\ Head(toHost) = AlertGram => KeysSeen /\ ~KeysAgree
           /\ Head(toHost) = FinishedGram => KeysSeen /\ KeysAgree
           /\ Head(toHost) \in {NoiseGram, FlightGram, TicketGram, AlertGram, FinishedGram}
<1>1. Head(toHost) \in ToHostGrams /\ toHost \in Seq(ToHostGrams)
  BY TailFacts DEF HandshakeInv, HsTypes
<1> QED
  BY <1>1, GramFacts DEF ToHostGrams, Skips

\* Positions in a queue whose first element is gone.
LEMMA Shift == \A i, f \in Nat : /\ i + 1 = f <=> i = f - 1
                                 /\ i + 1 < f <=> i < f - 1
                                 /\ i + 1 = f + 1 => i = f
OBVIOUS

LEMMA SkipNoiseInv == HandshakeInv /\ SkipNoise => HandshakeInv'
<1> SUFFICES ASSUME HandshakeInv, SkipNoise PROVE HandshakeInv'
  OBVIOUS
<1>1. /\ UNCHANGED <<digest, typed, choice, sealed, peer, dtls, transcript, hsPc, netFaults, toPeer>>
      /\ hsPc \in {"hello", "finish"} /\ toHost # <<>> /\ toHost' = Tail(toHost)
      /\ Skips(Head(toHost))
  BY DEF SkipNoise, Setting
<1>2. Head(toHost) = NoiseGram
  BY <1>1, HeadFacts
<1>3. /\ toHost \in Seq(ToHostGrams) /\ toHost' \in Seq(ToHostGrams)
      /\ toHost[1] = NoiseGram /\ 1 \in DOMAIN toHost
      /\ \A i \in DOMAIN toHost' : i + 1 \in DOMAIN toHost /\ toHost'[i] = toHost[i + 1] /\ i \in Nat
      /\ \A i \in DOMAIN toHost : i # 1 => i - 1 \in DOMAIN toHost' /\ toHost'[i - 1] = toHost[i]
      /\ \A i \in DOMAIN toHost : i \in Nat /\ i >= 1
  BY <1>1, <1>2, HeadFacts, TailFacts
<1>4. HsTypes' /\ ClientInv' /\ PrinterInv'
  BY <1>1, <1>3, QuietStep DEF HandshakeInv, HsTypes
<1>5. Clean' <=> Clean
  BY <1>1, GramsSame DEF Clean
<1> USE GramFacts
<1>6. ASSUME OneFlightComes PROVE OneFlightComes'
  <2> PICK f \in DOMAIN toHost :
         toHost[f] = FlightGram /\ \A i \in DOMAIN toHost \ {f} : toHost[i] = NoiseGram
    BY <1>6 DEF OneFlightComes
  <2>1. f # 1 /\ f - 1 \in DOMAIN toHost' /\ toHost'[f - 1] = FlightGram
    BY <1>3
  <2>2. \A i \in DOMAIN toHost' \ {f - 1} : toHost'[i] = NoiseGram
    <3> TAKE i \in DOMAIN toHost' \ {f - 1}
    <3>1. i + 1 \in DOMAIN toHost /\ toHost'[i] = toHost[i + 1] /\ i \in Nat /\ f \in Nat
      BY <1>3
    <3>2. i + 1 # f
      BY <3>1, Shift
    <3> QED
      BY <3>1, <3>2
  <2>3. FlightGram' = FlightGram
    BY <1>1, GramsSame
  <2> QED
    BY <2>1, <2>2, <2>3 DEF OneFlightComes
<1>7. ASSUME FinishedComes PROVE FinishedComes'
  <2> PICK f \in DOMAIN toHost :
        /\ toHost[f] = FinishedGram
        /\ \A i \in DOMAIN toHost \ {f} : toHost[i] \in {NoiseGram, TicketGram}
        /\ \A i \in DOMAIN toHost : toHost[i] = TicketGram =>
              /\ i < f /\ transcript = WholeTranscript /\ peer.transcript = WithTicket
              /\ \A j \in DOMAIN toHost : toHost[j] = TicketGram => i = j
        /\ (\A i \in DOMAIN toHost : toHost[i] # TicketGram) => transcript = peer.transcript
    BY <1>7 DEF FinishedComes
  <2>1. f # 1 /\ f - 1 \in DOMAIN toHost' /\ toHost'[f - 1] = FinishedGram
    BY <1>3
  <2>2. \A i \in DOMAIN toHost' \ {f - 1} : toHost'[i] \in {NoiseGram, TicketGram}
    <3> TAKE i \in DOMAIN toHost' \ {f - 1}
    <3>1. i + 1 \in DOMAIN toHost /\ toHost'[i] = toHost[i + 1] /\ i \in Nat /\ f \in Nat
      BY <1>3
    <3>2. i + 1 # f
      BY <3>1, Shift
    <3> QED
      BY <3>1, <3>2
  <2>3. \A i \in DOMAIN toHost' : toHost'[i] = TicketGram =>
              /\ i < f - 1 /\ transcript = WholeTranscript /\ peer.transcript = WithTicket
              /\ \A j \in DOMAIN toHost' : toHost'[j] = TicketGram => i = j
    <3> SUFFICES ASSUME NEW i \in DOMAIN toHost', toHost'[i] = TicketGram
                 PROVE  /\ i < f - 1 /\ transcript = WholeTranscript /\ peer.transcript = WithTicket
                        /\ \A j \in DOMAIN toHost' : toHost'[j] = TicketGram => i = j
      OBVIOUS
    <3>1. i + 1 \in DOMAIN toHost /\ toHost[i + 1] = TicketGram /\ i \in Nat
      BY <1>3
    <3>2. i + 1 < f /\ transcript = WholeTranscript /\ peer.transcript = WithTicket
      BY <3>1
    <3>3. ASSUME NEW j \in DOMAIN toHost', toHost'[j] = TicketGram PROVE i = j
      <4>1. j + 1 \in DOMAIN toHost /\ toHost[j + 1] = TicketGram /\ j \in Nat
        BY <1>3, <3>3
      <4>2. i + 1 = j + 1
        BY <3>1, <4>1
      <4> QED
        BY <3>1, <4>1, <4>2, Shift
    <3>4. f \in Nat
      BY <1>3
    <3>5. i < f - 1
      BY <3>1, <3>2, <3>4, Shift
    <3> QED
      BY <3>2, <3>3, <3>5
  <2>4. (\A i \in DOMAIN toHost' : toHost'[i] # TicketGram) => transcript = peer.transcript
    <3>1. ASSUME \A i \in DOMAIN toHost' : toHost'[i] # TicketGram
          PROVE  \A i \in DOMAIN toHost : toHost[i] # TicketGram
      <4> TAKE i \in DOMAIN toHost
      <4>1. CASE i = 1
        BY <1>3, <4>1
      <4>2. CASE i # 1
        <5>1. i - 1 \in DOMAIN toHost' /\ toHost'[i - 1] = toHost[i]
          BY <1>3, <4>2
        <5> QED
          BY <3>1, <5>1
      <4> QED
        BY <4>1, <4>2
    <3> QED
      BY <3>1
  <2>5. FinishedGram' = FinishedGram
    BY <1>1, GramsSame
  <2> QED
    BY <1>1, <2>1, <2>2, <2>3, <2>4, <2>5 DEF FinishedComes
<1>8. CleanInv'
  <2> SUFFICES ASSUME Clean'
               PROVE  /\ hsPc # "failed"
                      /\ hsPc = "hello" => IF HelloSeen THEN OneFlightComes' ELSE toPeer # <<>>
                      /\ hsPc = "finish" /\ KeysSeen => FinishedComes'
                      /\ hsPc = "finish" /\ ~KeysSeen =>
                            /\ transcript = WholeTranscript
                            /\ \A i \in DOMAIN toHost' : toHost'[i] = NoiseGram
                            /\ \E i \in DOMAIN toPeer : toPeer[i] = KeysGram
    BY <1>1, GramsSame DEF CleanInv
  <2>1. Clean /\ CleanInv
    BY <1>5 DEF HandshakeInv
  <2>2. ASSUME \A i \in DOMAIN toHost : toHost[i] = NoiseGram
        PROVE  \A i \in DOMAIN toHost' : toHost'[i] = NoiseGram
    <3> TAKE i \in DOMAIN toHost'
    <3>1. i + 1 \in DOMAIN toHost /\ toHost'[i] = toHost[i + 1]
      BY <1>3
    <3> QED
      BY <2>2, <3>1
  <2> QED
    BY <1>6, <1>7, <2>1, <2>2 DEF CleanInv
<1> QED
  BY <1>4, <1>8 DEF HandshakeInv

\* A ping of the relay delays nothing and disturbs no order.
LEMMA NoiseInv == HandshakeInv /\ Noise => HandshakeInv'
<1> SUFFICES ASSUME HandshakeInv, Noise PROVE HandshakeInv'
  OBVIOUS
<1>1. /\ UNCHANGED <<digest, typed, choice, sealed, peer, dtls, transcript, hsPc, netFaults, toPeer>>
      /\ hsPc \in {"hello", "finish"} /\ toHost' = Append(toHost, NoiseGram)
  BY DEF Noise, Setting, NoiseGram
<1>2. toHost \in Seq(ToHostGrams) /\ NoiseGram \in ToHostGrams
  BY DEF HandshakeInv, HsTypes, ToHostGrams
<1>3. PICK k \in DOMAIN toHost' :
          /\ toHost'[k] = NoiseGram /\ \A i \in DOMAIN toHost : i < k
          /\ \A i \in DOMAIN toHost' : i = k \/ i \in DOMAIN toHost
  BY <1>1, <1>2, AppendFacts
<1>4. /\ toHost' \in Seq(ToHostGrams)
      /\ \A i \in DOMAIN toHost : i \in DOMAIN toHost' /\ toHost'[i] = toHost[i]
  BY <1>1, <1>2, AppendFacts
<1>5. HsTypes' /\ ClientInv' /\ PrinterInv'
  BY <1>1, <1>4, QuietStep DEF HandshakeInv, HsTypes
<1>6. Clean' <=> Clean
  BY <1>1, GramsSame DEF Clean
<1>7. NoiseGram # TicketGram
  BY GramFacts
<1>8. ASSUME OneFlightComes PROVE OneFlightComes'
  <2> PICK f \in DOMAIN toHost :
         toHost[f] = FlightGram /\ \A i \in DOMAIN toHost \ {f} : toHost[i] = NoiseGram
    BY <1>8 DEF OneFlightComes
  <2>1. f \in DOMAIN toHost' /\ toHost'[f] = FlightGram
    BY <1>4
  <2>2. \A i \in DOMAIN toHost' \ {f} : toHost'[i] = NoiseGram
    BY <1>3, <1>4
  <2>3. FlightGram' = FlightGram
    BY <1>1, GramsSame
  <2> QED
    BY <2>1, <2>2, <2>3 DEF OneFlightComes
<1>9. ASSUME FinishedComes PROVE FinishedComes'
  <2> PICK f \in DOMAIN toHost :
        /\ toHost[f] = FinishedGram
        /\ \A i \in DOMAIN toHost \ {f} : toHost[i] \in {NoiseGram, TicketGram}
        /\ \A i \in DOMAIN toHost : toHost[i] = TicketGram =>
              /\ i < f /\ transcript = WholeTranscript /\ peer.transcript = WithTicket
              /\ \A j \in DOMAIN toHost : toHost[j] = TicketGram => i = j
        /\ (\A i \in DOMAIN toHost : toHost[i] # TicketGram) => transcript = peer.transcript
    BY <1>9 DEF FinishedComes
  <2>1. f \in DOMAIN toHost' /\ toHost'[f] = FinishedGram
    BY <1>4
  <2>2. \A i \in DOMAIN toHost' \ {f} : toHost'[i] \in {NoiseGram, TicketGram}
    BY <1>3, <1>4
  <2>3. \A i \in DOMAIN toHost' : toHost'[i] = TicketGram =>
              /\ i < f /\ transcript = WholeTranscript /\ peer.transcript = WithTicket
              /\ \A j \in DOMAIN toHost' : toHost'[j] = TicketGram => i = j
    BY <1>3, <1>4, <1>7
  <2>4. (\A i \in DOMAIN toHost' : toHost'[i] # TicketGram) => transcript = peer.transcript
    BY <1>4
  <2>5. FinishedGram' = FinishedGram
    BY <1>1, GramsSame
  <2> QED
    BY <1>1, <2>1, <2>2, <2>3, <2>4, <2>5 DEF FinishedComes
<1>10. CleanInv'
  <2> SUFFICES ASSUME Clean'
               PROVE  /\ hsPc # "failed"
                      /\ hsPc = "hello" => IF HelloSeen THEN OneFlightComes' ELSE toPeer # <<>>
                      /\ hsPc = "finish" /\ KeysSeen => FinishedComes'
                      /\ hsPc = "finish" /\ ~KeysSeen =>
                            /\ transcript = WholeTranscript
                            /\ \A i \in DOMAIN toHost' : toHost'[i] = NoiseGram
                            /\ \E i \in DOMAIN toPeer : toPeer[i] = KeysGram
    BY <1>1, GramsSame DEF CleanInv
  <2>1. Clean /\ CleanInv
    BY <1>6 DEF HandshakeInv
  <2>2. (\A i \in DOMAIN toHost : toHost[i] = NoiseGram)
            => \A i \in DOMAIN toHost' : toHost'[i] = NoiseGram
    BY <1>3, <1>4
  <2> QED
    BY <1>8, <1>9, <2>1, <2>2 DEF CleanInv
<1> QED
  BY <1>5, <1>10 DEF HandshakeInv

\* Within the bound the counter does not wrap.
LEMMA CounterCounts == \A n \in Nat : n <= 65534 => Counter(n) = n + 1
BY DEF Counter

\* The first hellos.
LEMMA ClientHelloInv == HandshakeInv /\ build_client_hello => HandshakeInv'
<1> SUFFICES ASSUME HandshakeInv, build_client_hello PROVE HandshakeInv'
  OBVIOUS
<1>1. /\ UNCHANGED <<digest, typed, choice, sealed, peer, toHost, netFaults>>
      /\ hsPc = "idle" /\ hsPc' = "hello" /\ transcript' = <<"client_hello">>
      /\ dtls' = [dtls EXCEPT !.pkt = Counter(0)] /\ toPeer' = <<HelloGram, HelloGram>>
  BY DEF build_client_hello, Setting, HelloGram
<1>2. dtls \in [keys : {NoKeys, KeysOfClient}, tx : Nat, pkt : Nat] /\ dtls.pkt = 0 /\ ~HelloSeen
  BY <1>1 DEF HandshakeInv, HsTypes, ClientInv
<1>3. /\ dtls' \in [keys : {NoKeys, KeysOfClient}, tx : Nat, pkt : Nat]
      /\ dtls'.pkt = 1 /\ dtls'.tx = dtls.tx /\ dtls'.keys = dtls.keys
  BY <1>1, <1>2, CounterCounts
<1>4. /\ KeysOfClient' = KeysOfClient /\ KeysOfPrinter' = KeysOfPrinter /\ (KeysAgree' <=> KeysAgree)
      /\ (HelloSeen' <=> HelloSeen) /\ (KeysSeen' <=> KeysSeen) /\ ToHostGrams' = ToHostGrams
  BY <1>1 DEF KeysOfClient, KeysOfPrinter, KeysAgree, HelloSeen, KeysSeen, ToHostGrams, FlightGram,
     FinishedGram, derive_psk, PrinterPsk
<1>5. toPeer' \in Seq(ToPeerGrams')
  <2>1. HelloGram \in ToPeerGrams'
    BY DEF ToPeerGrams, HelloGram
  <2> QED
    BY <1>1, <2>1
<1>6. ~KeysSeen
  BY <1>2 DEF HandshakeInv, PrinterInv
<1>7. HsTypes'
  BY <1>1, <1>3, <1>4, <1>5 DEF HandshakeInv, HsTypes
<1>8. sealed = {}
  BY <1>1 DEF HandshakeInv, ClientInv
<1>9. ClientInv'
  BY <1>1, <1>3, <1>8 DEF ClientInv, NumberedOnce
<1>10. PrinterInv'
  BY <1>1, <1>3, <1>4, <1>6 DEF HandshakeInv, PrinterInv
<1>11. CleanInv'
  BY <1>1, <1>2, <1>4 DEF CleanInv
<1> QED
  BY <1>7, <1>9, <1>10, <1>11 DEF HandshakeInv

\* The flight, and the client's keys and Finished.
LEMMA TakeFlightInv == HandshakeInv /\ TakeFlight => HandshakeInv'
<1> SUFFICES ASSUME HandshakeInv, TakeFlight PROVE HandshakeInv'
  OBVIOUS
<1> DEFINE rec == encrypt_record(KeysOfClient, 0,
                      finished_verify_data(KeysOfClient, "client finished", Keyed))
<1>1. /\ UNCHANGED <<digest, typed, choice, peer, netFaults>>
      /\ hsPc = "hello" /\ toHost # <<>> /\ ~Skips(Head(toHost)) /\ toHost' = Tail(toHost)
  BY DEF TakeFlight, Setting
<1>2. /\ transcript = <<"client_hello">> /\ dtls.pkt = 1 /\ sealed = {} /\ ~KeysSeen
  BY <1>1 DEF HandshakeInv, ClientInv, PrinterInv
<1>3. Head(toHost) = FlightGram /\ HelloSeen /\ toHost \in Seq(ToHostGrams)
  BY <1>1, <1>2, HeadFacts
<1>4. toHost' \in Seq(ToHostGrams)
  BY <1>1, <1>3, TailFacts
<1>5. CASE ~parse_server_hello_flight(FlightGram)
  <2>1. UNCHANGED <<transcript, sealed, toPeer, dtls>> /\ hsPc' = "failed"
    BY <1>3, <1>5 DEF TakeFlight
  <2>2. HsTypes' /\ ClientInv' /\ PrinterInv'
    BY <1>1, <1>4, <2>1, QuietStep DEF HandshakeInv, HsTypes
  <2>3. choice.suite = "other" \/ choice.curve # "x25519"
    <3>1. choice.suite \in {"cbc", "chacha", "other"}
      BY DEF HandshakeInv, HsTypes, ServerChoices
    <3>2. FlightGram.kind = "flight" /\ FlightGram.body = choice
      BY GramFacts
    <3> QED
      BY <1>5, <3>1, <3>2 DEF parse_server_hello_flight
  <2>4. CleanInv'
    BY <1>1, <2>3 DEF CleanInv, Clean
  <2> QED
    BY <2>2, <2>4 DEF HandshakeInv
<1>6. CASE parse_server_hello_flight(FlightGram)
  <2>1. /\ hsPc' = "finish" /\ transcript' = WholeTranscript
        /\ sealed' = {rec} /\ toPeer' = Append(toPeer, KeysGram)
        /\ dtls' = [keys |-> KeysOfClient, tx |-> 1, pkt |-> 2]
    <3> DEFINE d == Head(toHost)
               t == transcript \o Flight \o <<"client_key_exchange">>
               k == derive_session_keys(d.body.suite, d.body.ems, derive_psk(typed), t)
               fin == finished_verify_data(k, "client finished", t)
    <3>1. t = Keyed
      BY <1>2 DEF Keyed, SeenFlight
    <3>2. k = KeysOfClient
      BY <1>3, <3>1, GramFacts DEF KeysOfClient
    <3>3. encrypt_record(k, 0, fin) = rec
      BY <3>1, <3>2
    <3>4. /\ hsPc' = "finish" /\ transcript' = t \o <<"client_finished">>
          /\ sealed' = {encrypt_record(k, 0, fin)}
          /\ toPeer' = Append(toPeer, Datagram(dtls.pkt, "keys", encrypt_record(k, 0, fin)))
          /\ dtls' = [keys |-> k, tx |-> 1, pkt |-> Counter(dtls.pkt)]
      BY <1>3, <1>6 DEF TakeFlight
    <3>5. Datagram(dtls.pkt, "keys", rec) = KeysGram
      BY <1>2 DEF KeysGram
    <3>6. transcript' = WholeTranscript
      BY <3>1, <3>4, TranscriptFacts
    <3>7. Counter(dtls.pkt) = 2
      BY <1>2, CounterCounts
    <3> HIDE DEF t, k, fin, rec
    <3> QED
      BY <3>2, <3>3, <3>4, <3>5, <3>6, <3>7
  <2>2. /\ KeysOfClient' = KeysOfClient /\ KeysOfPrinter' = KeysOfPrinter /\ (KeysAgree' <=> KeysAgree)
        /\ (HelloSeen' <=> HelloSeen) /\ (KeysSeen' <=> KeysSeen) /\ ToHostGrams' = ToHostGrams
        /\ KeysGram' = KeysGram
    BY <1>1 DEF KeysOfClient, KeysOfPrinter, KeysAgree, HelloSeen, KeysSeen, ToHostGrams,
       FlightGram, FinishedGram, KeysGram, derive_psk, PrinterPsk
  <2>3. dtls' \in [keys : {NoKeys, KeysOfClient}, tx : Nat, pkt : Nat]
        /\ dtls'.pkt = 2 /\ dtls'.tx = 1 /\ dtls'.keys = KeysOfClient
    BY <2>1
  <2>4. ToPeerGrams \subseteq ToPeerGrams' /\ KeysGram \in ToPeerGrams'
    BY <1>2, <2>2, <2>3 DEF ToPeerGrams, DataGrams
  <2>5. toPeer \in Seq(ToPeerGrams')
    BY <2>4, SeqMonotonic DEF HandshakeInv, HsTypes
  <2>6. /\ toPeer' \in Seq(ToPeerGrams')
        /\ \E i \in DOMAIN toPeer' : toPeer'[i] = KeysGram
    <3>1. toPeer' \in Seq(ToPeerGrams')
      BY <2>1, <2>4, <2>5, AppendProperties
    <3>2. \E i \in DOMAIN Append(toPeer, KeysGram) : Append(toPeer, KeysGram)[i] = KeysGram
      BY <2>4, <2>5, AppendFacts
    <3> QED
      BY <2>1, <3>1, <3>2
  <2>7. HsTypes'
    BY <1>1, <1>4, <2>1, <2>2, <2>3, <2>6 DEF HandshakeInv, HsTypes
  <2>8. rec.nonce = <<1, 0>>
    BY DEF encrypt_record, build_nonce
  <2> HIDE DEF rec
  <2>9. ClientInv'
    <3>1. NumberedOnce'
      BY <2>1 DEF NumberedOnce
    <3>2. \A r \in sealed' : \E n \in Nat : n < dtls'.tx /\ r.nonce = <<1, n>>
      BY <2>1, <2>3, <2>8
    <3> QED
      BY <1>3, <2>1, <2>2, <2>3, <3>1, <3>2 DEF ClientInv
  <2>10. PrinterInv'
    BY <1>1, <2>2, <2>3 DEF HandshakeInv, PrinterInv
  <2>11. ASSUME Clean' PROVE \A i \in DOMAIN toHost' : toHost'[i] = NoiseGram
    <3>1. Clean
      BY <1>1, <2>2, <2>11 DEF Clean
    <3> PICK f \in DOMAIN toHost :
           toHost[f] = FlightGram /\ \A i \in DOMAIN toHost \ {f} : toHost[i] = NoiseGram
      BY <1>1, <1>3, <3>1 DEF HandshakeInv, CleanInv, OneFlightComes
    <3>2. FlightGram # NoiseGram
      BY GramFacts
    <3>3. toHost[1] = FlightGram /\ 1 \in DOMAIN toHost
      BY <1>1, <1>3, TailFacts
    <3>4. f = 1
      BY <3>2, <3>3
    <3> TAKE i \in DOMAIN toHost'
    <3>5. i + 1 \in DOMAIN toHost /\ toHost'[i] = toHost[i + 1] /\ i \in Nat
      BY <1>1, <1>3, TailFacts
    <3>6. i \in DOMAIN toHost' => i # 0
      <4>1. DOMAIN toHost' = 1 .. Len(toHost')
        BY <1>4, LenProperties
      <4> QED
        BY <4>1
    <3>7. i + 1 # 1
      BY <3>5, <3>6
    <3> QED
      BY <3>4, <3>5, <3>7
  <2>12. CleanInv'
    BY <1>2, <2>1, <2>2, <2>6, <2>11 DEF CleanInv
  <2> QED
    BY <2>7, <2>9, <2>10, <2>12 DEF HandshakeInv
<1> QED
  BY <1>5, <1>6

\* Application data takes the next number of the record layer.
LEMMA SendDataInv == ASSUME HandshakeInv, NEW a \in {1, 2}, iotc_send_app_data(a) PROVE HandshakeInv'
<1> DEFINE what == [secret |-> dtls.keys, label |-> "data", seed |-> <<a>>]
           rec == encrypt_record(dtls.keys, dtls.tx, what)
<1>1. /\ UNCHANGED <<digest, typed, choice, hsPc, transcript, peer, toHost, netFaults>>
      /\ hsPc = "done" /\ sealed' = sealed \cup {rec}
      /\ toPeer' = Append(toPeer, Datagram(dtls.pkt, "data", rec))
      /\ dtls' = [dtls EXCEPT !.tx = @ + 1, !.pkt = Counter(@)]
  BY DEF iotc_send_app_data, Setting
<1>2. rec.nonce = <<1, dtls.tx>>
  BY DEF encrypt_record, build_nonce
<1> HIDE DEF rec
<1>3. dtls \in [keys : {NoKeys, KeysOfClient}, tx : Nat, pkt : Nat] /\ dtls.pkt > 1
  BY <1>1 DEF HandshakeInv, HsTypes, ClientInv
<1>4. /\ dtls' \in [keys : {NoKeys, KeysOfClient}, tx : Nat, pkt : Nat]
      /\ dtls'.pkt = dtls.pkt + 1 /\ dtls'.tx = dtls.tx + 1 /\ dtls'.keys = dtls.keys
  <2>1. dtls.tx + 1 \in Nat /\ dtls.pkt + 1 \in Nat
    BY <1>3
  <2>2. dtls' = [dtls EXCEPT !.tx = dtls.tx + 1, !.pkt = dtls.pkt + 1]
    <3>1. dtls.tx <= MaxAppData /\ dtls.pkt = dtls.tx + 1
      BY <1>1 DEF iotc_send_app_data, HandshakeInv, ClientInv
    <3>2. dtls.pkt \in Nat /\ dtls.pkt <= 65534
      BY <1>3, <3>1, HandshakeAssumption
    <3>3. Counter(dtls.pkt) = dtls.pkt + 1
      BY <3>2, CounterCounts
    <3> QED
      BY <1>1, <3>3
  <2> DEFINE x == dtls.tx + 1
             y == dtls.pkt + 1
  <2>3. x \in Nat /\ y \in Nat /\ dtls' = [dtls EXCEPT !.tx = x, !.pkt = y]
    BY <2>1, <2>2
  <2> HIDE DEF x, y
  <2>4. /\ dtls' \in [keys : {NoKeys, KeysOfClient}, tx : Nat, pkt : Nat]
        /\ dtls'.pkt = y /\ dtls'.tx = x /\ dtls'.keys = dtls.keys
    BY <1>3, <2>3
  <2> QED
    BY <2>4 DEF x, y
<1>5. /\ KeysOfClient' = KeysOfClient /\ KeysOfPrinter' = KeysOfPrinter /\ (KeysAgree' <=> KeysAgree)
      /\ (HelloSeen' <=> HelloSeen) /\ (KeysSeen' <=> KeysSeen) /\ ToHostGrams' = ToHostGrams
      /\ KeysGram' = KeysGram
  BY <1>1 DEF KeysOfClient, KeysOfPrinter, KeysAgree, HelloSeen, KeysSeen, ToHostGrams,
     FlightGram, FinishedGram, KeysGram, derive_psk, PrinterPsk
<1>6. dtls.pkt \in Nat \ {0, 1} /\ dtls'.pkt > 1
  BY <1>3, <1>4
<1>7. DataGrams \subseteq DataGrams' /\ Datagram(dtls.pkt, "data", rec) \in DataGrams'
  BY <1>1, <1>6 DEF DataGrams
<1>8. ToPeerGrams \subseteq ToPeerGrams' /\ Datagram(dtls.pkt, "data", rec) \in ToPeerGrams'
  BY <1>5, <1>6, <1>7 DEF ToPeerGrams
<1>9. toPeer \in Seq(ToPeerGrams')
  BY <1>8, SeqMonotonic DEF HandshakeInv, HsTypes
<1>10. toPeer' \in Seq(ToPeerGrams')
  BY <1>1, <1>8, <1>9, AppendProperties
<1>11. HsTypes'
  BY <1>1, <1>4, <1>5, <1>10 DEF HandshakeInv, HsTypes
<1>12. \A r \in sealed : \E n \in Nat : n < dtls.tx /\ r.nonce = <<1, n>>
  BY DEF HandshakeInv, ClientInv
<1>13. \A r \in sealed' : \E n \in Nat : n < dtls'.tx /\ r.nonce = <<1, n>>
  <2> TAKE r \in sealed'
  <2>1. CASE r = rec
    BY <1>2, <1>3, <1>4, <2>1
  <2>2. CASE r \in sealed
    <3> PICK n \in Nat : n < dtls.tx /\ r.nonce = <<1, n>>
      BY <1>12, <2>2
    <3>1. n < dtls'.tx
      BY <1>3, <1>4
    <3> QED
      BY <3>1
  <2> QED
    BY <1>1, <2>1, <2>2
<1>14. NumberedOnce'
  <2>1. \A r \in sealed : r.nonce # rec.nonce
    <3> TAKE r \in sealed
    <3> PICK n \in Nat : n < dtls.tx /\ r.nonce = <<1, n>>
      BY <1>12
    <3>1. n # dtls.tx
      BY <1>3
    <3> QED
      BY <1>2, <3>1
  <2> QED
    BY <1>1, <2>1 DEF HandshakeInv, ClientInv, NumberedOnce
<1>15. ClientInv'
  <2>1. hsPc' = "done" /\ dtls'.tx >= 1 /\ dtls'.pkt = dtls'.tx + 1
    BY <1>1, <1>3, <1>4 DEF HandshakeInv, ClientInv
  <2> QED
    BY <1>1, <1>3, <1>4, <1>5, <1>6, <1>13, <1>14, <2>1 DEF HandshakeInv, ClientInv
<1>16. PrinterInv'
  BY <1>1, <1>5, <1>6 DEF HandshakeInv, PrinterInv
<1>17. CleanInv'
  BY <1>1 DEF CleanInv
<1> QED
  BY <1>11, <1>15, <1>16, <1>17 DEF HandshakeInv

\* The printer's answer: its ticket and Finished, its alert, or a flight that came twice.
LEMMA ServerFinishedInv == HandshakeInv /\ recv_server_finished => HandshakeInv'
<1> SUFFICES ASSUME HandshakeInv, recv_server_finished PROVE HandshakeInv'
  OBVIOUS
<1> DEFINE d == Head(toHost)
<1>1. /\ UNCHANGED <<digest, typed, choice, sealed, peer, toPeer, netFaults>>
      /\ hsPc = "finish" /\ toHost # <<>> /\ ~Skips(d) /\ toHost' = Tail(toHost)
  BY DEF recv_server_finished, Setting
<1>2. /\ dtls \in [keys : {NoKeys, KeysOfClient}, tx : Nat, pkt : Nat]
      /\ dtls.tx = 1 /\ dtls.pkt > 1 /\ dtls.keys = KeysOfClient /\ HelloSeen
  BY <1>1 DEF HandshakeInv, HsTypes, ClientInv
<1>3. /\ d \in {FlightGram, TicketGram, AlertGram, FinishedGram}
      /\ toHost \in Seq(ToHostGrams)
  BY <1>1, HeadFacts
<1>4. /\ toHost' \in Seq(ToHostGrams) /\ toHost[1] = d /\ 1 \in DOMAIN toHost
      /\ \A i \in DOMAIN toHost' : i + 1 \in DOMAIN toHost /\ toHost'[i] = toHost[i + 1] /\ i \in Nat
      /\ \A i \in DOMAIN toHost : i # 1 => i - 1 \in DOMAIN toHost' /\ toHost'[i - 1] = toHost[i]
      /\ \A i \in DOMAIN toHost : i \in Nat /\ i >= 1
  BY <1>1, <1>3, TailFacts
<1>5. /\ dtls' \in [keys : {NoKeys, KeysOfClient}, tx : Nat, pkt : Nat]
      /\ dtls'.tx = 1 /\ dtls'.pkt = dtls.pkt /\ dtls'.keys = KeysOfClient
  <2>1. dtls' = dtls \/ dtls' = [dtls EXCEPT !.tx = 1]
    BY DEF recv_server_finished, AfterHandshake
  <2> QED
    BY <1>2, <2>1
<1>6. /\ KeysOfClient' = KeysOfClient /\ KeysOfPrinter' = KeysOfPrinter /\ (KeysAgree' <=> KeysAgree)
      /\ (HelloSeen' <=> HelloSeen) /\ (KeysSeen' <=> KeysSeen) /\ ToHostGrams' = ToHostGrams
      /\ FinishedGram' = FinishedGram /\ ToPeerGrams' = ToPeerGrams /\ KeysGram' = KeysGram
  BY <1>1, <1>5, GramsSame
<1>7. hsPc' \in {"finish", "done", "failed"}
  BY <1>1 DEF recv_server_finished
<1>8. HsTypes'
  BY <1>1, <1>4, <1>5, <1>6, <1>7 DEF HandshakeInv, HsTypes
<1>9. PrinterInv'
  BY <1>1, <1>5, <1>6 DEF HandshakeInv, PrinterInv
<1>10. ASSUME hsPc' = "done" => KeysSeen /\ KeysAgree /\ transcript' = peer.transcript
       PROVE  ClientInv'
  BY <1>1, <1>2, <1>5, <1>6, <1>7, <1>10 DEF HandshakeInv, ClientInv, NumberedOnce
<1>11. ASSUME Clean'
       PROVE  /\ Clean
              /\ d # FlightGram /\ d # AlertGram /\ KeysSeen /\ FinishedComes
  <2>1. Clean
    BY <1>1, <1>6, <1>11 DEF Clean
  <2>2. d # AlertGram
    BY <1>1, <2>1, HeadFacts DEF Clean
  <2>3. KeysSeen
    <3> SUFFICES ASSUME ~KeysSeen PROVE FALSE
      OBVIOUS
    <3>1. toHost[1] = NoiseGram
      BY <1>1, <1>4, <2>1 DEF HandshakeInv, CleanInv
    <3>2. NoiseGram \notin {FlightGram, TicketGram, AlertGram, FinishedGram}
      BY GramFacts
    <3> QED
      BY <1>3, <1>4, <3>1, <3>2
  <2>4. FinishedComes
    BY <1>1, <2>1, <2>3 DEF HandshakeInv, CleanInv
  <2>5. d # FlightGram
    <3>1. toHost[1] \in {FinishedGram, NoiseGram, TicketGram}
      BY <1>4, <2>4 DEF FinishedComes
    <3>2. FlightGram \notin {FinishedGram, NoiseGram, TicketGram}
      BY GramFacts
    <3> QED
      BY <1>4, <3>1, <3>2
  <2> QED
    BY <2>1, <2>2, <2>3, <2>4, <2>5
<1>12. CASE d = FlightGram
  <2>1. UNCHANGED <<hsPc, dtls>>
    BY <1>12, GramFacts DEF recv_server_finished
  <2>2. ~Clean'
    BY <1>11, <1>12
  <2> QED
    BY <1>1, <1>8, <1>9, <1>10, <2>1, <2>2 DEF HandshakeInv, CleanInv
<1>13. CASE d = AlertGram
  <2>1. hsPc' = "failed"
    BY <1>13, GramFacts DEF recv_server_finished
  <2>2. ~Clean'
    BY <1>11, <1>13
  <2> QED
    BY <1>8, <1>9, <1>10, <2>1, <2>2 DEF HandshakeInv, CleanInv
<1>14. CASE d = TicketGram
  <2>1. UNCHANGED <<hsPc, dtls>> /\ transcript' = Append(transcript, "ticket")
    BY <1>14, GramFacts DEF recv_server_finished
  <2>2. ASSUME Clean' PROVE FinishedComes' /\ KeysSeen
    <3> PICK f \in DOMAIN toHost :
        /\ toHost[f] = FinishedGram
        /\ \A i \in DOMAIN toHost \ {f} : toHost[i] \in {NoiseGram, TicketGram}
        /\ \A i \in DOMAIN toHost : toHost[i] = TicketGram =>
              /\ i < f /\ transcript = WholeTranscript /\ peer.transcript = WithTicket
              /\ \A j \in DOMAIN toHost : toHost[j] = TicketGram => i = j
        /\ (\A i \in DOMAIN toHost : toHost[i] # TicketGram) => transcript = peer.transcript
      BY <1>11, <2>2 DEF FinishedComes
    <3>1. FinishedGram # TicketGram
      BY GramFacts
    <3>2. toHost[1] = TicketGram /\ transcript = WholeTranscript /\ peer.transcript = WithTicket
      BY <1>4, <1>14
    <3>3. transcript' = peer'.transcript
      BY <1>1, <2>1, <3>2, TranscriptFacts
    <3>4. f # 1 /\ f - 1 \in DOMAIN toHost' /\ toHost'[f - 1] = FinishedGram
      BY <1>4, <3>1, <3>2
    <3>5. ASSUME NEW i \in DOMAIN toHost' PROVE toHost'[i] # TicketGram
      <4>1. i + 1 \in DOMAIN toHost /\ toHost'[i] = toHost[i + 1] /\ i \in Nat
        BY <1>4
      <4>2. i \in 1 .. Len(toHost')
        BY <1>4, LenProperties
      <4>3. i + 1 # 1
        BY <4>2
      <4> QED
        BY <1>4, <3>2, <4>1, <4>3
    <3>6. ASSUME NEW i \in DOMAIN toHost' \ {f - 1} PROVE toHost'[i] \in {NoiseGram, TicketGram}
      <4>1. i + 1 \in DOMAIN toHost /\ toHost'[i] = toHost[i + 1] /\ i \in Nat /\ f \in Nat
        BY <1>4
      <4>2. i + 1 # f
        BY <4>1, Shift
      <4> QED
        BY <4>1, <4>2
    <3>7. FinishedComes'
      BY <1>6, <3>3, <3>4, <3>5, <3>6 DEF FinishedComes
    <3> QED
      BY <1>11, <2>2, <3>7
  <2>3. CleanInv'
    BY <1>1, <1>6, <2>1, <2>2 DEF CleanInv
  <2> QED
    BY <1>1, <1>8, <1>9, <1>10, <2>1, <2>3 DEF HandshakeInv
<1>15. CASE d = FinishedGram
  <2> DEFINE ok == Verifies(d.body, dtls.keys, transcript)
  <2>1. hsPc' = (IF ok THEN "done" ELSE "failed") /\ UNCHANGED transcript
    <3>1. d.kind = "finished"
      BY <1>15, GramFacts
    <3> QED
      BY <3>1 DEF recv_server_finished
  <2>2. KeysSeen /\ KeysAgree
    BY <1>1, <1>15, HeadFacts
  <2>3. ok <=> transcript = peer.transcript
    <3>1. d.body = encrypt_record(KeysOfPrinter, 0,
                     finished_verify_data(KeysOfPrinter, "server finished", peer.transcript))
      BY <1>15, GramFacts
    <3>2. d.body.keys = KeysOfPrinter
          /\ d.body.what = finished_verify_data(KeysOfPrinter, "server finished", peer.transcript)
      <4> DEFINE w == finished_verify_data(KeysOfPrinter, "server finished", peer.transcript)
      <4>1. d.body = encrypt_record(KeysOfPrinter, 0, w)
        BY <3>1
      <4> HIDE DEF w, d
      <4>2. d.body.keys = KeysOfPrinter /\ d.body.what = w
        BY <4>1 DEF encrypt_record
      <4> QED
        BY <4>2 DEF w
    <3>3. \A t, u : finished_verify_data(KeysOfPrinter, "server finished", t)
                    = finished_verify_data(KeysOfPrinter, "server finished", u) <=> t = u
      BY DEF finished_verify_data, tls12_prf
    <3> QED
      BY <1>2, <2>2, <3>2, <3>3 DEF Verifies, decrypt_record, KeysAgree
  <2>4. ASSUME Clean' PROVE ok
    <3> PICK f \in DOMAIN toHost :
        /\ toHost[f] = FinishedGram
        /\ \A i \in DOMAIN toHost \ {f} : toHost[i] \in {NoiseGram, TicketGram}
        /\ \A i \in DOMAIN toHost : toHost[i] = TicketGram =>
              /\ i < f /\ transcript = WholeTranscript /\ peer.transcript = WithTicket
              /\ \A j \in DOMAIN toHost : toHost[j] = TicketGram => i = j
        /\ (\A i \in DOMAIN toHost : toHost[i] # TicketGram) => transcript = peer.transcript
      BY <1>11, <2>4 DEF FinishedComes
    <3>1. toHost[1] = FinishedGram /\ FinishedGram \notin {NoiseGram, TicketGram}
      BY <1>4, <1>15, GramFacts
    <3>2. f = 1
      BY <1>4, <3>1
    <3>3. \A i \in DOMAIN toHost : toHost[i] # TicketGram
      <4> SUFFICES ASSUME NEW i \in DOMAIN toHost, toHost[i] = TicketGram PROVE FALSE
        OBVIOUS
      <4>1. i < 1 /\ i \in Nat /\ i >= 1
        BY <1>4, <3>2
      <4> QED
        BY <4>1
    <3> QED
      BY <2>3, <3>3
  <2>5. CleanInv'
    BY <2>1, <2>4 DEF CleanInv
  <2> QED
    BY <1>8, <1>9, <1>10, <2>1, <2>2, <2>3, <2>5 DEF HandshakeInv
<1> QED
  BY <1>3, <1>12, <1>13, <1>14, <1>15

\* The counters the printer has seen tell what it has seen.
LEMMA SeenFacts ==
    ASSUME HandshakeInv, NEW e \in ToPeerGrams
    PROVE  /\ e.kind \in {"hello", "keys", "data"} /\ e.n \in Nat
           /\ e.kind = "hello" <=> e = HelloGram
           /\ e.kind = "keys" <=> e = KeysGram
           /\ e = HelloGram => ({s \in peer.seen : s[1] = e.n} = {} <=> ~HelloSeen)
           /\ e = KeysGram => ({s \in peer.seen : s[1] = e.n} = {} <=> ~KeysSeen) /\ dtls.pkt > 1
           /\ {s \in peer.seen : s[1] = e.n} # {} =>
                 <<e.n, e.kind>> \in {s \in peer.seen : s[1] = e.n}
           /\ e.kind = "data" => e.n \in Nat \ {0, 1}
<1>1. peer.seen \subseteq ({<<0, "hello">>, <<1, "keys">>} \cup {<<n, "data">> : n \in Nat \ {0, 1}})
  BY DEF HandshakeInv, HsTypes
<1>2. e = HelloGram \/ (e = KeysGram /\ dtls.pkt > 1)
      \/ \E n \in Nat \ {0, 1}, r \in sealed : e = Datagram(n, "data", r)
  BY DEF ToPeerGrams, DataGrams
<1>3. /\ HelloGram.kind = "hello" /\ HelloGram.n = 0
      /\ KeysGram.kind = "keys" /\ KeysGram.n = 1
  BY GramFacts
<1>4. ASSUME NEW s \in peer.seen
      PROVE  /\ s = <<0, "hello">> \/ s = <<1, "keys">> \/ \E n \in Nat \ {0, 1} : s = <<n, "data">>
  BY <1>1
<1>5. ASSUME NEW s \in peer.seen
      PROVE  /\ s[1] = 0 => s = <<0, "hello">>
             /\ s[1] = 1 => s = <<1, "keys">>
             /\ s[1] \in Nat \ {0, 1} => s = <<s[1], "data">>
  BY <1>4
<1>6. CASE e = HelloGram
  BY <1>3, <1>5, <1>6 DEF HelloSeen
<1>7. CASE e = KeysGram /\ dtls.pkt > 1
  BY <1>3, <1>5, <1>7 DEF KeysSeen
<1>8. CASE \E n \in Nat \ {0, 1}, r \in sealed : e = Datagram(n, "data", r)
  <2>1. e.kind = "data" /\ e.n \in Nat \ {0, 1}
    BY <1>8 DEF Datagram
  <2> QED
    BY <1>3, <1>5, <2>1
<1> QED
  BY <1>2, <1>6, <1>7, <1>8

\* The printer takes a datagram: a copy, a hello, the client's keys, or data.
LEMMA PrinterTakesInv == HandshakeInv /\ PrinterTakes => HandshakeInv'
<1> SUFFICES ASSUME HandshakeInv, PrinterTakes PROVE HandshakeInv'
  OBVIOUS
<1> DEFINE d == Head(toPeer)
           old == {s \in peer.seen : s[1] = d.n}
<1>1. /\ UNCHANGED <<digest, typed, choice, hsPc, transcript, dtls, sealed, netFaults>>
      /\ toPeer # <<>> /\ toPeer' = Tail(toPeer)
  BY DEF PrinterTakes, Setting
<1>2. IF old = {} THEN PrinterAnswers(d)
      ELSE /\ peer' = [peer EXCEPT !.ignored = @ \/ <<d.n, d.kind>> \notin old]
           /\ UNCHANGED toHost
  BY DEF PrinterTakes
<1>3. /\ KeysOfClient' = KeysOfClient /\ KeysOfPrinter' = KeysOfPrinter /\ (KeysAgree' <=> KeysAgree)
      /\ KeysGram' = KeysGram /\ FlightGram' = FlightGram /\ ToPeerGrams' = ToPeerGrams
  BY <1>1 DEF KeysOfClient, KeysOfPrinter, KeysAgree, FlightGram, KeysGram, ToPeerGrams, DataGrams,
     derive_psk, PrinterPsk
<1>4. /\ toPeer \in Seq(ToPeerGrams) /\ toHost \in Seq(ToHostGrams)
      /\ peer \in [seen : SUBSET ({<<0, "hello">>, <<1, "keys">>}
                                \cup {<<n, "data">> : n \in Nat \ {0, 1}}),
                 transcript : {<<>>, SeenFlight, WholeTranscript, WithTicket},
                 keys : {NoKeys, KeysOfPrinter}, ignored : {FALSE}]
  BY DEF HandshakeInv, HsTypes
<1>5. /\ toPeer' \in Seq(ToPeerGrams) /\ d \in ToPeerGrams /\ d = toPeer[1]
      /\ \A i \in DOMAIN toPeer : i # 1 => i - 1 \in DOMAIN toPeer' /\ toPeer'[i - 1] = toPeer[i]
  BY <1>1, <1>4, TailFacts
<1>6. /\ d.kind \in {"hello", "keys", "data"} /\ d.n \in Nat
      /\ d.kind = "hello" <=> d = HelloGram
      /\ d.kind = "keys" <=> d = KeysGram
      /\ d = HelloGram => (old = {} <=> ~HelloSeen)
      /\ d = KeysGram => (old = {} <=> ~KeysSeen) /\ dtls.pkt > 1
      /\ old # {} => <<d.n, d.kind>> \in old
      /\ d.kind = "data" => d.n \in Nat \ {0, 1}
  BY <1>5, SeenFacts
<1>7. hsPc # "idle"
  BY <1>1 DEF HandshakeInv, ClientInv
<1>8. ASSUME HelloSeen => HelloSeen', KeysSeen => KeysSeen',
             hsPc = "done" => peer'.transcript = peer.transcript
      PROVE  ClientInv'
  BY <1>1, <1>3, <1>7, <1>8 DEF HandshakeInv, ClientInv, NumberedOnce
<1>9. ASSUME peer' \in [seen : SUBSET ({<<0, "hello">>, <<1, "keys">>}
                                \cup {<<n, "data">> : n \in Nat \ {0, 1}}),
                 transcript : {<<>>, SeenFlight, WholeTranscript, WithTicket},
                 keys : {NoKeys, KeysOfPrinter}, ignored : {FALSE}],
             toHost' \in Seq(ToHostGrams')
      PROVE  HsTypes'
  BY <1>1, <1>3, <1>5, <1>9 DEF HandshakeInv, HsTypes
<1>10. Clean' <=> Clean
  BY <1>1, <1>3 DEF Clean
<1>11. hsPc = "hello" => d = HelloGram
  <2>1. hsPc = "hello" => dtls.pkt = 1 /\ sealed = {}
    BY DEF HandshakeInv, ClientInv
  <2> QED
    BY <1>5, <2>1 DEF ToPeerGrams, DataGrams
<1>12. ASSUME d # KeysGram, \E i \in DOMAIN toPeer : toPeer[i] = KeysGram
       PROVE  \E i \in DOMAIN toPeer' : toPeer'[i] = KeysGram
  BY <1>5, <1>12
<1>13. CASE old # {} \/ d.kind = "data"
  <2>1. /\ peer'.transcript = peer.transcript /\ peer'.keys = peer.keys /\ UNCHANGED toHost
        /\ peer' \in [seen : SUBSET ({<<0, "hello">>, <<1, "keys">>}
                                \cup {<<n, "data">> : n \in Nat \ {0, 1}}),
                 transcript : {<<>>, SeenFlight, WholeTranscript, WithTicket},
                 keys : {NoKeys, KeysOfPrinter}, ignored : {FALSE}]
        /\ peer'.seen = peer.seen \/ \E n \in Nat \ {0, 1} : peer'.seen = peer.seen \cup {<<n, "data">>}
    <3>1. CASE old # {}
      <4>1. peer' = [peer EXCEPT !.ignored = FALSE] /\ UNCHANGED toHost
        BY <1>2, <1>4, <1>6, <3>1
      <4> QED
        BY <1>4, <4>1
    <3>2. CASE old = {} /\ d.kind = "data"
      <4>1. peer' = [peer EXCEPT !.seen = @ \cup {<<d.n, d.kind>>}] /\ UNCHANGED toHost
        BY <1>2, <3>2 DEF PrinterAnswers
      <4>2. d.n \in Nat \ {0, 1} /\ d.kind = "data"
        BY <1>6, <3>2
      <4> HIDE DEF d
      <4>3. peer' = [peer EXCEPT !.seen = peer.seen \cup {<<d.n, "data">>}]
        BY <1>4, <4>1, <4>2
      <4>4. <<d.n, "data">> \in {<<n, "data">> : n \in Nat \ {0, 1}}
        BY <4>2
      <4> DEFINE more == peer.seen \cup {<<d.n, "data">>}
      <4>5. more \in SUBSET ({<<0, "hello">>, <<1, "keys">>}
                                \cup {<<n, "data">> : n \in Nat \ {0, 1}})
        BY <1>4, <4>4
      <4>6. \E n \in Nat \ {0, 1} : more = peer.seen \cup {<<n, "data">>}
        BY <4>2
      <4> HIDE DEF more
      <4> QED
        BY <1>4, <4>1, <4>3, <4>5, <4>6 DEF more
    <3> QED
      BY <1>13, <3>1, <3>2
  <2>2. (HelloSeen' <=> HelloSeen) /\ (KeysSeen' <=> KeysSeen)
    <3>1. \A n \in Nat \ {0, 1} : <<n, "data">> # <<0, "hello">> /\ <<n, "data">> # <<1, "keys">>
      OBVIOUS
    <3> QED
      BY <2>1, <3>1 DEF HelloSeen, KeysSeen
  <2>3. FinishedGram' = FinishedGram
    BY <1>3, <2>1 DEF FinishedGram
  <2>4. ToHostGrams' = ToHostGrams
    BY <1>3, <2>2, <2>3 DEF ToHostGrams
  <2>5. HsTypes' /\ ClientInv'
    BY <1>4, <1>8, <1>9, <2>1, <2>2, <2>4
  <2>6. PrinterInv'
    BY <1>1, <1>3, <2>1, <2>2 DEF HandshakeInv, PrinterInv
  <2>7. OneFlightComes => OneFlightComes'
    BY <1>3, <2>1 DEF OneFlightComes
  <2>8. FinishedComes => FinishedComes'
    BY <1>1, <2>1, <2>3 DEF FinishedComes
  <2>9. hsPc = "hello" => HelloSeen
    BY <1>6, <1>11, <1>13
  <2>10. ~KeysSeen => d # KeysGram
    BY <1>6, <1>13
  <2>11. CleanInv'
    BY <1>1, <1>3, <1>10, <1>12, <2>1, <2>2, <2>7, <2>8, <2>9, <2>10 DEF HandshakeInv, CleanInv
  <2> QED
    BY <2>5, <2>6, <2>11 DEF HandshakeInv
<1>14. CASE old = {} /\ d.kind = "hello"
  <2>1. d = HelloGram /\ ~HelloSeen /\ ~KeysSeen
    BY <1>6, <1>14 DEF HandshakeInv, PrinterInv, ClientInv
  <2>2. /\ peer' = [peer EXCEPT !.seen = @ \cup {<<0, "hello">>}, !.transcript = SeenFlight]
        /\ toHost' = Append(toHost, FlightGram)
    <3>1. d.n = 0 /\ d.kind = "hello"
      BY <2>1, GramFacts
    <3> QED
      BY <1>2, <1>14, <3>1 DEF PrinterAnswers, FlightGram, SeenFlight
  <2>3. /\ peer' \in [seen : SUBSET ({<<0, "hello">>, <<1, "keys">>}
                                \cup {<<n, "data">> : n \in Nat \ {0, 1}}),
                 transcript : {<<>>, SeenFlight, WholeTranscript, WithTicket},
                 keys : {NoKeys, KeysOfPrinter}, ignored : {FALSE}]
        /\ peer'.seen = peer.seen \cup {<<0, "hello">>} /\ peer'.transcript = SeenFlight
    BY <1>4, <2>2
  <2>4. HelloSeen' /\ ~KeysSeen'
    BY <2>1, <2>3 DEF HelloSeen, KeysSeen
  <2>5. ToHostGrams = {NoiseGram} /\ ToHostGrams' = {NoiseGram, FlightGram}
    BY <1>3, <2>1, <2>4 DEF ToHostGrams, NoiseGram
  <2>6. toHost \in Seq({NoiseGram, FlightGram})
    BY <1>4, <2>5, SeqMonotonic
  <2>7. toHost' \in Seq(ToHostGrams')
    BY <2>2, <2>5, <2>6, AppendProperties
  <2>8. hsPc \notin {"finish", "done"} /\ dtls.pkt <= 1
    BY <2>1, <1>4 DEF HandshakeInv, HsTypes, ClientInv
  <2>9. HsTypes' /\ ClientInv'
    BY <1>8, <1>9, <2>1, <2>3, <2>4, <2>7, <2>8
  <2>10. PrinterInv'
    BY <2>3, <2>4 DEF PrinterInv
  <2>11. OneFlightComes'
    <3> PICK k \in DOMAIN toHost' :
              /\ toHost'[k] = FlightGram
              /\ \A i \in DOMAIN toHost' : i = k \/ i \in DOMAIN toHost
      BY <2>2, <2>6, AppendFacts
    <3>1. \A i \in DOMAIN toHost : toHost'[i] = toHost[i]
      BY <2>2, <2>6, AppendFacts
    <3>2. \A i \in DOMAIN toHost : toHost[i] = NoiseGram
      <4>1. toHost \in Seq({NoiseGram})
        BY <1>4, <2>5
      <4> QED
        BY <4>1, ElementOfSeq, LenProperties
    <3>3. \A i \in DOMAIN toHost' \ {k} : toHost'[i] = NoiseGram
      BY <3>1, <3>2
    <3> QED
      BY <1>3, <3>3 DEF OneFlightComes
  <2>12. CleanInv'
    BY <1>1, <1>10, <2>4, <2>8, <2>11 DEF HandshakeInv, CleanInv
  <2> QED
    BY <2>9, <2>10, <2>12 DEF HandshakeInv
<1>15. CASE old = {} /\ d.kind = "keys"
  <2> DEFINE t == peer.transcript \o <<"client_key_exchange">>
             k == derive_session_keys(choice.suite, choice.ems, PrinterPsk, t)
             full == Append(t, "client_finished")
             good == d.body = encrypt_record(k, 0, finished_verify_data(k, "client finished", t))
             fin(over) == Datagram(0, "finished",
                             encrypt_record(k, 0, finished_verify_data(k, "server finished", over)))
             sent(end) == toHost \o (IF end = full THEN <<>> ELSE <<Datagram(0, "ticket", 0)>>)
                                  \o <<fin(end)>>
  <2>1. d = KeysGram /\ ~KeysSeen /\ dtls.pkt > 1 /\ HelloSeen /\ hsPc \notin {"hello", "done"}
    BY <1>6, <1>11, <1>15 DEF HandshakeInv, ClientInv
  <2>2. peer.transcript = SeenFlight
    BY <2>1 DEF HandshakeInv, PrinterInv
  <2>3. t = Keyed /\ k = KeysOfPrinter /\ full = WholeTranscript
    BY <2>2 DEF Keyed, KeysOfPrinter, WholeTranscript
  <2>4. good <=> KeysAgree
    <3>1. d.body = encrypt_record(KeysOfClient, 0,
                       finished_verify_data(KeysOfClient, "client finished", Keyed))
      BY <2>1, GramFacts
    <3>2. \A a, b : encrypt_record(a, 0, finished_verify_data(a, "client finished", Keyed))
                    = encrypt_record(b, 0, finished_verify_data(b, "client finished", Keyed)) <=> a = b
      BY DEF encrypt_record
    <3>3. good <=> d.body = encrypt_record(KeysOfPrinter, 0,
                       finished_verify_data(KeysOfPrinter, "client finished", Keyed))
      BY <2>3
    <3> HIDE DEF good, d
    <3> QED
      BY <3>1, <3>2, <3>3 DEF KeysAgree
  <2>5. d.n = 1 /\ d.kind = "keys"
    BY <2>1, GramFacts
  <2>6. <<1, "keys">> \in {<<0, "hello">>, <<1, "keys">>}
    OBVIOUS
  <2>7. CASE ~KeysAgree
    <3>1. /\ peer' = [peer EXCEPT !.seen = @ \cup {<<1, "keys">>}]
          /\ toHost' = Append(toHost, AlertGram)
      <4>1. PrinterAnswers(d) /\ ~good
        BY <1>2, <1>15, <2>4, <2>7
      <4> QED
        BY <2>5, <4>1 DEF PrinterAnswers, AlertGram
    <3>2. /\ peer' \in [seen : SUBSET ({<<0, "hello">>, <<1, "keys">>}
                                \cup {<<n, "data">> : n \in Nat \ {0, 1}}),
                 transcript : {<<>>, SeenFlight, WholeTranscript, WithTicket},
                 keys : {NoKeys, KeysOfPrinter}, ignored : {FALSE}]
          /\ peer'.seen = peer.seen \cup {<<1, "keys">>} /\ peer'.transcript = peer.transcript
      BY <1>4, <3>1
    <3>3. HelloSeen' /\ KeysSeen'
      BY <2>1, <3>2 DEF HelloSeen, KeysSeen
    <3>4. ToHostGrams \subseteq ToHostGrams' /\ AlertGram \in ToHostGrams'
      BY <1>3, <2>1, <2>7, <3>3 DEF ToHostGrams, NoiseGram, AlertGram
    <3>5. toHost' \in Seq(ToHostGrams')
      <4>1. toHost \in Seq(ToHostGrams')
        BY <1>4, <3>4, SeqMonotonic
      <4> QED
        BY <3>1, <3>4, <4>1, AppendProperties
    <3>6. HsTypes' /\ ClientInv'
      BY <1>8, <1>9, <3>2, <3>3, <3>5
    <3>7. PrinterInv'
      BY <1>1, <1>3, <2>1, <2>2, <2>7, <3>2, <3>3 DEF PrinterInv
    <3>8. CleanInv'
      BY <1>10, <2>7 DEF Clean, CleanInv
    <3> QED
      BY <3>6, <3>7, <3>8 DEF HandshakeInv
  <2>8. CASE KeysAgree
    <3>1. PICK end \in {WholeTranscript, WithTicket} :
            /\ peer' = [peer EXCEPT !.seen = @ \cup {<<1, "keys">>}, !.keys = KeysOfPrinter,
                                    !.transcript = end]
            /\ toHost' = sent(end)
      <4>1. PrinterAnswers(d) /\ good
        BY <1>2, <1>15, <2>4, <2>8
      <4>2. \E end \in {full, Append(full, "ticket")} :
               /\ peer' = [peer EXCEPT !.seen = @ \cup {<<d.n, d.kind>>}, !.keys = k,
                                       !.transcript = end]
               /\ toHost' = sent(end)
        BY <2>5, <4>1 DEF PrinterAnswers
      <4> HIDE DEF sent, full, t, k, d
      <4> QED
        BY <2>3, <2>5, <4>2 DEF WithTicket
    <3>2. /\ peer' \in [seen : SUBSET ({<<0, "hello">>, <<1, "keys">>}
                                \cup {<<n, "data">> : n \in Nat \ {0, 1}}),
                 transcript : {<<>>, SeenFlight, WholeTranscript, WithTicket},
                 keys : {NoKeys, KeysOfPrinter}, ignored : {FALSE}]
          /\ peer'.seen = peer.seen \cup {<<1, "keys">>} /\ peer'.transcript = end
          /\ peer'.keys = KeysOfPrinter
      BY <1>4, <3>1
    <3>3. HelloSeen' /\ KeysSeen' /\ KeysAgree'
      BY <1>3, <2>1, <2>8, <3>2 DEF HelloSeen, KeysSeen
    <3>4. fin(end) = FinishedGram'
      BY <1>3, <2>3, <3>2 DEF FinishedGram
    <3>5. /\ ToHostGrams \subseteq ToHostGrams' /\ FinishedGram' \in ToHostGrams'
          /\ TicketGram \in ToHostGrams'
      BY <1>3, <2>1, <3>3 DEF ToHostGrams, NoiseGram, TicketGram
    <3>6. toHost \in Seq(ToHostGrams')
      BY <1>4, <3>5, SeqMonotonic
    <3> DEFINE mid == IF end = WholeTranscript THEN toHost ELSE Append(toHost, TicketGram)
    <3>7. mid \in Seq(ToHostGrams')
      BY <3>5, <3>6, AppendProperties
    <3>8. toHost' = Append(mid, FinishedGram')
      <4>1. toHost' = toHost \o (IF end = WholeTranscript THEN <<>> ELSE <<TicketGram>>)
                      \o <<FinishedGram'>>
        BY <2>3, <3>1, <3>4 DEF TicketGram
      <4>2. toHost \o <<>> = toHost /\ toHost \o <<TicketGram>> = Append(toHost, TicketGram)
        BY <3>5, <3>6, ConcatEmptySeq, AppendIsConcat
      <4>3. toHost' = mid \o <<FinishedGram'>>
        BY <4>1, <4>2
      <4> HIDE DEF mid
      <4> QED
        BY <3>5, <3>7, <4>3, AppendIsConcat
    <3>9. toHost' \in Seq(ToHostGrams')
      <4> HIDE DEF mid
      <4> QED
        BY <3>5, <3>7, <3>8, AppendProperties
    <3>10. HsTypes' /\ ClientInv'
      BY <1>8, <1>9, <2>1, <3>2, <3>3, <3>9
    <3>11. PrinterInv'
      BY <1>1, <1>3, <2>1, <3>2, <3>3 DEF PrinterInv
    <3>12. ASSUME Clean, hsPc = "finish" PROVE FinishedComes'
      <4>1. /\ transcript = WholeTranscript
            /\ \A i \in DOMAIN toHost : toHost[i] = NoiseGram
        BY <2>1, <3>12 DEF HandshakeInv, CleanInv
      <4>2. TicketGram # NoiseGram /\ FinishedGram' # NoiseGram /\ FinishedGram' # TicketGram
        <5>1. FinishedGram'.kind = "finished"
          BY DEF FinishedGram, Datagram
        <5>2. TicketGram.kind = "ticket" /\ NoiseGram.kind = "noise"
          BY GramFacts
        <5> QED
          BY <5>1, <5>2
      <4>3. PICK f \in DOMAIN toHost' :
              /\ toHost'[f] = FinishedGram' /\ \A i \in DOMAIN mid : i < f
              /\ \A i \in DOMAIN toHost' : i = f \/ i \in DOMAIN mid
        <5> HIDE DEF mid
        <5> QED
          BY <3>5, <3>7, <3>8, AppendFacts
      <4>4. \A i \in DOMAIN mid : toHost'[i] = mid[i] /\ i \in DOMAIN toHost'
        <5> HIDE DEF mid
        <5> QED
          BY <3>5, <3>7, <3>8, AppendFacts
      <4>5. CASE end = WholeTranscript
        <5>1. \A i \in DOMAIN toHost' : i # f => toHost'[i] = NoiseGram
          BY <4>1, <4>3, <4>4, <4>5
        <5>2. \A i \in DOMAIN toHost' : toHost'[i] # TicketGram
          BY <4>2, <4>3, <5>1
        <5> QED
          BY <1>1, <3>2, <4>1, <4>3, <4>5, <5>1, <5>2 DEF FinishedComes
      <4>6. CASE end # WholeTranscript
        <5>1. end = WithTicket /\ mid = Append(toHost, TicketGram)
          BY <3>1, <4>6
        <5> HIDE DEF mid
        <5>2. PICK j \in DOMAIN mid :
              /\ mid[j] = TicketGram
              /\ \A i \in DOMAIN mid : i = j \/ i \in DOMAIN toHost
          BY <3>5, <3>6, <5>1, AppendFacts
        <5>3. \A i \in DOMAIN toHost : mid[i] = toHost[i]
          BY <3>5, <3>6, <5>1, AppendFacts
        <5>4. \A i \in DOMAIN toHost' : i # f /\ i # j => toHost'[i] = NoiseGram
          BY <4>1, <4>3, <4>4, <5>2, <5>3
        <5>5. toHost'[j] = TicketGram /\ j \in DOMAIN toHost' /\ j < f
          BY <4>3, <4>4, <5>2
        <5>6. \A i \in DOMAIN toHost' : toHost'[i] = TicketGram => i = j
          BY <4>2, <4>3, <5>4
        <5> QED
          BY <1>1, <3>2, <4>1, <4>3, <5>1, <5>4, <5>5, <5>6 DEF FinishedComes
      <4> QED
        BY <4>5, <4>6
    <3>13. CleanInv'
      BY <1>1, <1>10, <2>1, <3>3, <3>12 DEF HandshakeInv, CleanInv
    <3> QED
      BY <3>10, <3>11, <3>13 DEF HandshakeInv
  <2> QED
    BY <2>7, <2>8
<1> QED
  BY <1>6, <1>13, <1>14, <1>15

LEMMA HandshakeStepInv == HandshakeInv /\ [HandshakeNext]_handshakeVars => HandshakeInv'
<1> SUFFICES ASSUME HandshakeInv, [HandshakeNext]_handshakeVars PROVE HandshakeInv'
  OBVIOUS
<1>1. CASE HandshakeNext
  BY <1>1, ClientHelloInv, RepeatHelloInv, SkipNoiseInv, TakeFlightInv, ServerFinishedInv,
     FinishedTimeoutInv, SendDataInv, PrinterTakesInv, NoiseInv, NetFaultInv DEF HandshakeNext
<1>2. CASE UNCHANGED handshakeVars
  <2>1. UNCHANGED <<digest, typed, choice, sealed, peer, dtls, transcript, toPeer, toHost, hsPc,
                    netFaults>>
    BY <1>2 DEF handshakeVars
  <2> USE <2>1, GramsSame
  <2>2. HsTypes'
    BY DEF HandshakeInv, HsTypes
  <2>3. ClientInv'
    BY DEF HandshakeInv, ClientInv, NumberedOnce
  <2>4. PrinterInv'
    BY DEF HandshakeInv, PrinterInv
  <2>5. CleanInv'
    BY DEF HandshakeInv, CleanInv, Clean, OneFlightComes, FinishedComes
  <2> QED
    BY <2>2, <2>3, <2>4, <2>5 DEF HandshakeInv
<1> QED
  BY <1>1, <1>2

\* For any number of faults of the network and of records: a handshake that succeeds is
\* agreed on, keys, transcript and password; one that fails does so for the network, the
\* password or the printer's choice; no record number is used twice, and the printer drops
\* nothing but copies.
THEOREM HandshakeHolds == Spec => []HandshakeSound
<1>1. Init => HandshakeInv
  BY HandshakeInitInv DEF Init
<1>2. HandshakeInv => HandshakeSound
  <2> SUFFICES ASSUME HandshakeInv PROVE HandshakeSound
    OBVIOUS
  <2>1. KeysAgree <=> typed = digest
    BY PasswordFacts DEF HandshakeInv, HsTypes, TypedCodes
  <2>2. HandshakeAgrees
    BY <2>1 DEF HandshakeInv, ClientInv, PrinterInv, HandshakeAgrees, KeysAgree
  <2>3. FailsForAReason
    BY <2>1 DEF HandshakeInv, HsTypes, CleanInv, Clean, FailsForAReason
  <2>4. NumberedOnce /\ OnlyCopiesDropped
    BY DEF HandshakeInv, HsTypes, ClientInv, OnlyCopiesDropped
  <2> QED
    BY <2>2, <2>3, <2>4 DEF HandshakeSound
<1> QED
  BY <1>1, <1>2, ServiceSteps, HandshakeStepInv, PTL DEF Spec
-----------------------------------------------------------------------------
(* obn.conf.  Each of the three repairs changes lines of its own key, in place, and appends
   at most a line of that key; the installer's call is one or three of them, applied to the
   file it found or to the template. *)
LEMMA LeastIn ==
    ASSUME NEW S \in SUBSET Nat, S # {}
    PROVE  \E x \in S : \A y \in S : x <= y
<1>1. \E x \in S : \A y \in S : ~(<<y, x>> \in OpToRel(<, Nat))
  BY NatLessThanWellFounded, WFMin
<1>2. \A x, y \in S : y < x => <<y, x>> \in OpToRel(<, Nat)
  BY DEF OpToRel
<1>3. \A x, y \in S : x <= y \/ y < x
  OBVIOUS
<1> QED
  BY <1>1, <1>2, <1>3, Zenon

Off == <<"block_cloud", "0">>

LEMMA LineFacts ==
    /\ \A l \in Lines : l[1] = "block_cloud" => l \in {<<"block_cloud", "1">>, Off}
    /\ Off \in Lines /\ Off[1] = "block_cloud" /\ Off[2] = "0" /\ Off # <<"block_cloud", "1">>
    /\ <<"log_to_file", "1">> \in Lines /\ <<"client_name", "BambuStudio">> \in Lines
    /\ Template \in Seq(Lines)
<1>1. \A n \in DOMAIN Template : Template[n] \in Lines
  BY DEF Lines
<1>2. Template \in Seq({Template[n] : n \in DOMAIN Template})
  BY DEF Template
<1>3. Template \in Seq(Lines)
  BY <1>2, SeqMonotonic DEF Lines
<1>4. {Template[n] : n \in DOMAIN Template} =
        {<<"log_to_file", "0">>, <<"block_cloud", "1">>, <<"client_name", "BambuStudio">>}
  BY DEF Template
<1>5. \A l \in Line : l[1] = "block_cloud" => l \in {<<"block_cloud", "1">>, Off}
  BY DEF Line, Off
<1>6. Off \in Line /\ <<"log_to_file", "1">> \in Line
  BY DEF Line, Off
<1>7. Off[1] = "block_cloud" /\ Off[2] = "0" /\ Off # <<"block_cloud", "1">>
  BY DEF Off
<1> QED
  BY <1>3, <1>4, <1>5, <1>6, <1>7 DEF Lines

\* There is a first and a last line of a key, and the reader takes the last.
LEMMA FirstFacts ==
    ASSUME NEW ls \in Seq(Lines), NEW k, Has(ls, k)
    PROVE  First(ls, k) \in 1..Len(ls) /\ ls[First(ls, k)][1] = k
<1> DEFINE S == {n \in 1..Len(ls) : ls[n][1] = k}
<1>1. DOMAIN ls = 1..Len(ls) /\ Len(ls) \in Nat
  BY LenProperties
<1>2. S \in SUBSET Nat /\ S # {}
  BY <1>1 DEF Has
<1>3. PICK x \in S : \A y \in S : x <= y
  BY <1>2, LeastIn
<1>4. \A q \in 1..x-1 : ls[q][1] # k
  <2> SUFFICES ASSUME NEW q \in 1..x-1, ls[q][1] = k PROVE FALSE
    OBVIOUS
  <2>1. q \in S /\ ~(x <= q)
    BY <1>1
  <2> QED
    BY <1>3, <2>1
<1>5. \E n \in DOMAIN ls : ls[n][1] = k /\ \A q \in 1..n-1 : ls[q][1] # k
  BY <1>1, <1>4
<1>6. First(ls, k) \in DOMAIN ls /\ ls[First(ls, k)][1] = k
  BY <1>5 DEF First
<1> QED
  BY <1>1, <1>6

IsLast(ls, k, n) == /\ n \in 1..Len(ls) /\ ls[n][1] = k
                    /\ \A q \in 1..Len(ls) : ls[q][1] = k => q <= n

LEMMA LastExists ==
    ASSUME NEW ls \in Seq(Lines), NEW k, Has(ls, k)
    PROVE  \E n \in 1..Len(ls) : IsLast(ls, k, n)
<1> DEFINE S == {x \in 0..Len(ls) : Len(ls) - x \in 1..Len(ls) /\ ls[Len(ls) - x][1] = k}
<1>1. DOMAIN ls = 1..Len(ls) /\ Len(ls) \in Nat
  BY LenProperties
<1>2. \A n \in 1..Len(ls) : ls[n][1] = k => Len(ls) - n \in S
  <2> SUFFICES ASSUME NEW n \in 1..Len(ls), ls[n][1] = k PROVE Len(ls) - n \in S
    OBVIOUS
  <2>1. Len(ls) - n \in 0..Len(ls) /\ Len(ls) - (Len(ls) - n) = n
    BY <1>1
  <2> QED
    BY <2>1
<1>3. S \in SUBSET Nat /\ S # {}
  <2>1. PICK n \in 1..Len(ls) : ls[n][1] = k
    BY <1>1 DEF Has
  <2>2. S \in SUBSET Nat
    BY <1>1
  <2> HIDE DEF S
  <2> QED
    BY <1>2, <2>1, <2>2
<1>4. PICK x \in S : \A y \in S : x <= y
  BY <1>3, LeastIn
<1>5. Len(ls) - x \in 1..Len(ls) /\ ls[Len(ls) - x][1] = k /\ x \in Nat
  BY <1>1
<1>6. ASSUME NEW q \in 1..Len(ls), ls[q][1] = k PROVE q <= Len(ls) - x
  <2>1. x <= Len(ls) - q
    BY <1>2, <1>4, <1>6
  <2> QED
    BY <1>1, <1>5, <2>1
<1> QED
  BY <1>5, <1>6 DEF IsLast

LEMMA ParsedIs ==
    ASSUME NEW ls \in Seq(Lines), NEW k, NEW d, NEW n \in 1..Len(ls), IsLast(ls, k, n)
    PROVE  Has(ls, k) /\ Parsed(ls, k, d) = ls[n][2]
<1>1. DOMAIN ls = 1..Len(ls) /\ Len(ls) \in Nat
  BY LenProperties
<1> DEFINE P(m) == ls[m][1] = k /\ \A q \in DOMAIN ls : ls[q][1] = k => q <= m
<1>2. n \in DOMAIN ls /\ P(n)
  BY <1>1 DEF IsLast
<1>3. \A m \in DOMAIN ls : P(m) => m = n
  <2> SUFFICES ASSUME NEW m \in DOMAIN ls, P(m) PROVE m = n
    OBVIOUS
  <2>1. m <= n /\ n <= m /\ m \in Int /\ n \in Int
    BY <1>1, <1>2
  <2> QED
    BY <2>1
<1>4. (CHOOSE m \in DOMAIN ls : P(m)) = n
  BY <1>2, <1>3
<1>5. Has(ls, k)
  BY <1>2 DEF Has
<1> QED
  BY <1>4, <1>5 DEF Parsed

\* File m is ls with lines of the keys ks changed in place or appended.
Keeps(ls, m, ks) ==
    /\ m \in Seq(Lines) /\ Len(ls) <= Len(m)
    /\ \A n \in 1..Len(m) :
         IF n <= Len(ls) THEN m[n][1] = ls[n][1] /\ (ls[n][1] \notin ks => m[n] = ls[n])
         ELSE m[n][1] \in ks

LEMMA KeepsSame == \A ls \in Seq(Lines) : Keeps(ls, ls, {})
BY LenProperties DEF Keeps

LEMMA KeepsAppended ==
    ASSUME NEW ls \in Seq(Lines), NEW l \in Lines
    PROVE  Keeps(ls, Append(ls, l), {l[1]}) /\ Has(Append(ls, l), l[1])
<1>1. /\ Append(ls, l) \in Seq(Lines) /\ Len(Append(ls, l)) = Len(ls) + 1 /\ Len(ls) \in Nat
      /\ \A n \in 1..Len(ls) : Append(ls, l)[n] = ls[n]
      /\ Append(ls, l)[Len(ls) + 1] = l
  BY LenProperties
<1> DEFINE m == Append(ls, l)
<1> HIDE DEF m
<1>2. \A n \in 1..Len(m) : n \in 1..Len(ls) \/ (n = Len(ls) + 1 /\ ~(n <= Len(ls)))
  BY <1>1 DEF m
<1>3. \A n \in 1..Len(ls) : m[n] = ls[n] /\ n <= Len(ls)
  BY <1>1 DEF m
<1>4. m \in Seq(Lines) /\ Len(ls) <= Len(m) /\ m[Len(ls) + 1] = l /\ Len(ls) + 1 \in 1..Len(m)
  BY <1>1 DEF m
<1>5. Keeps(ls, m, {l[1]})
  BY <1>2, <1>3, <1>4 DEF Keeps
<1>6. Has(m, l[1])
  BY <1>4, LenProperties DEF Has
<1> QED
  BY <1>5, <1>6 DEF m

LEMMA KeepsChanged ==
    ASSUME NEW ls \in Seq(Lines), NEW i \in 1..Len(ls), NEW l \in Lines, ls[i][1] = l[1]
    PROVE  Keeps(ls, [ls EXCEPT ![i] = l], {l[1]})
<1> DEFINE m == [ls EXCEPT ![i] = l]
<1>1. /\ m \in Seq(Lines) /\ Len(m) = Len(ls) /\ Len(ls) \in Nat
      /\ \A n \in 1..Len(ls) : m[n] = IF n = i THEN l ELSE ls[n]
  BY ExceptSeq, LenProperties
<1> HIDE DEF m
<1>2. \A n \in 1..Len(m) : n <= Len(ls)
  BY <1>1
<1>3. Keeps(ls, m, {l[1]})
  BY <1>1, <1>2 DEF Keeps
<1> QED
  BY <1>3 DEF m

LEMMA KeepsThen ==
    ASSUME NEW ls \in Seq(Lines), NEW m, NEW o, NEW ks, NEW js, Keeps(ls, m, ks), Keeps(m, o, js)
    PROVE  Keeps(ls, o, ks \cup js)
<1>1. /\ Len(ls) \in Nat /\ Len(m) \in Nat /\ Len(o) \in Nat /\ o \in Seq(Lines)
      /\ Len(ls) <= Len(m) /\ Len(m) <= Len(o)
  BY LenProperties DEF Keeps
<1>2. ASSUME NEW n \in 1..Len(o)
      PROVE  IF n <= Len(ls) THEN o[n][1] = ls[n][1] /\ (ls[n][1] \notin ks \cup js => o[n] = ls[n])
             ELSE o[n][1] \in ks \cup js
  <2>1. CASE n <= Len(ls)
    <3>1. n \in 1..Len(m) /\ n <= Len(m)
      BY <1>1, <2>1
    <3>2. o[n][1] = m[n][1] /\ (m[n][1] \notin js => o[n] = m[n])
      BY <3>1 DEF Keeps
    <3>3. m[n][1] = ls[n][1] /\ (ls[n][1] \notin ks => m[n] = ls[n])
      BY <2>1, <3>1 DEF Keeps
    <3> QED
      BY <2>1, <3>2, <3>3
  <2>2. CASE ~(n <= Len(ls)) /\ n <= Len(m)
    <3>1. n \in 1..Len(m)
      BY <1>1, <2>2
    <3>2. o[n][1] = m[n][1]
      BY <2>2 DEF Keeps
    <3>3. m[n][1] \in ks
      BY <2>2, <3>1 DEF Keeps
    <3> QED
      BY <2>2, <3>2, <3>3
  <2>3. CASE ~(n <= Len(ls)) /\ ~(n <= Len(m))
    BY <2>3 DEF Keeps
  <2> QED
    BY <2>1, <2>2, <2>3
<1>3. Len(ls) <= Len(o)
  BY <1>1
<1> QED
  BY <1>1, <1>2, <1>3 DEF Keeps

\* What is read of a key nobody touched.
LEMMA KeepsRead ==
    ASSUME NEW ls \in Seq(Lines), NEW m, NEW ks, Keeps(ls, m, ks), NEW k, k \notin ks, NEW d,
           Has(ls, k)
    PROVE  Has(m, k) /\ Parsed(m, k, d) = Parsed(ls, k, d)
<1>1. PICK n \in 1..Len(ls) : IsLast(ls, k, n)
  BY LastExists
<1>2. /\ Len(ls) \in Nat /\ Len(m) \in Nat /\ m \in Seq(Lines) /\ Len(ls) <= Len(m)
  BY LenProperties DEF Keeps
<1>3. n \in 1..Len(m) /\ n <= Len(ls)
  BY <1>2
<1>4. m[n] = ls[n]
  BY <1>1, <1>3 DEF Keeps, IsLast
<1>5. ASSUME NEW q \in 1..Len(m), m[q][1] = k PROVE q <= n
  <2>1. q <= Len(ls) /\ ls[q][1] = k
    BY <1>5 DEF Keeps
  <2>2. q \in 1..Len(ls)
    BY <1>2, <2>1
  <2> QED
    BY <1>1, <2>1, <2>2 DEF IsLast
<1>6. IsLast(m, k, n)
  BY <1>1, <1>3, <1>4, <1>5 DEF IsLast
<1> QED
  BY <1>1, <1>2, <1>3, <1>4, <1>6, ParsedIs

\* No line of the file blocks the cloud, and one says so.
Unblocked(ls) == /\ Has(ls, "block_cloud")
                 /\ \A n \in 1..Len(ls) : ls[n][1] = "block_cloud" => ls[n] = Off

LEMMA BlockFixed ==
    ASSUME NEW ls \in Seq(Lines)
    PROVE  Keeps(ls, fix_lines(ls), {"block_cloud"}) /\ Unblocked(fix_lines(ls))
<1>1. DOMAIN ls = 1..Len(ls) /\ Len(ls) \in Nat /\ \A n \in 1..Len(ls) : ls[n] \in Lines
  BY LenProperties, ElementOfSeq
<1>2. CASE Has(ls, "block_cloud")
  <2> DEFINE m == [n \in 1..Len(ls) |->
                     IF ls[n] = <<"block_cloud", "1">> THEN Off ELSE ls[n]]
  <2>1. fix_lines(ls) = m
    BY <1>1, <1>2 DEF fix_lines, Off
  <2>2. m \in Seq(Lines) /\ Len(m) = Len(ls) /\ DOMAIN m = 1..Len(ls)
    BY <1>1, LineFacts
  <2>3. \A n \in 1..Len(ls) : m[n] = IF ls[n] = <<"block_cloud", "1">> THEN Off ELSE ls[n]
    OBVIOUS
  <2> HIDE DEF m
  <2>4. \A n \in 1..Len(ls) : /\ m[n][1] = ls[n][1]
                              /\ ls[n][1] # "block_cloud" => m[n] = ls[n]
                              /\ ls[n][1] = "block_cloud" => m[n] = Off
    <3> TAKE n \in 1..Len(ls)
    <3>1. CASE ls[n] = <<"block_cloud", "1">>
      <4>1. m[n] = Off /\ ls[n][1] = "block_cloud"
        BY <2>3, <3>1
      <4> QED
        BY <4>1, LineFacts
    <3>2. CASE ls[n] # <<"block_cloud", "1">>
      <4>1. m[n] = ls[n] /\ ls[n] \in Lines
        BY <1>1, <2>3, <3>2
      <4> QED
        BY <3>2, <4>1, LineFacts
    <3> QED
      BY <3>1, <3>2
  <2>5. \A n \in 1..Len(ls) : n <= Len(ls)
    BY <1>1
  <2>6. Keeps(ls, m, {"block_cloud"})
    BY <1>1, <2>2, <2>4, <2>5 DEF Keeps
  <2>7. Unblocked(m)
    BY <1>1, <1>2, <2>2, <2>4 DEF Unblocked, Has
  <2> QED
    BY <2>1, <2>6, <2>7
<1>3. CASE ~Has(ls, "block_cloud")
  <2> DEFINE m == Append(ls, Off)
  <2>1. fix_lines(ls) = m
    BY <1>3 DEF fix_lines, Off
  <2>2. Keeps(ls, m, {"block_cloud"}) /\ Has(m, "block_cloud")
    BY LineFacts, KeepsAppended
  <2>3. ASSUME NEW n \in 1..Len(m), m[n][1] = "block_cloud" PROVE m[n] = Off
    <3>1. Len(m) = Len(ls) + 1 /\ m[Len(ls) + 1] = Off
      BY <1>1, LineFacts
    <3>2. n <= Len(ls) => FALSE
      <4> HAVE n <= Len(ls)
      <4>1. n \in DOMAIN ls
        BY <1>1
      <4>2. ls[n][1] = "block_cloud"
        BY <2>2, <2>3 DEF Keeps
      <4> QED
        BY <1>3, <4>1, <4>2 DEF Has
    <3>3. n = Len(ls) + 1
      BY <1>1, <3>1, <3>2
    <3> QED
      BY <3>1, <3>3
  <2> QED
    BY <2>1, <2>2, <2>3 DEF Unblocked
<1> QED
  BY <1>2, <1>3

LEMMA LogFixed ==
    ASSUME NEW ls \in Seq(Lines), NEW created \in BOOLEAN
    PROVE  /\ Keeps(ls, fix_log_to_file(ls, created), {"log_to_file"})
           /\ Has(ls, "log_to_file") /\ ~created => fix_log_to_file(ls, created) = ls
<1> DEFINE l == <<"log_to_file", "1">>
<1>1. l \in Lines /\ l[1] = "log_to_file"
  BY LineFacts
<1> HIDE DEF l
<1>2. CASE ~Has(ls, "log_to_file")
  <2>1. fix_log_to_file(ls, created) = Append(ls, l)
    BY <1>2 DEF fix_log_to_file, l
  <2> QED
    BY <1>1, <1>2, <2>1, KeepsAppended
<1>3. CASE Has(ls, "log_to_file") /\ created
  <2>1. fix_log_to_file(ls, created) = [ls EXCEPT ![First(ls, "log_to_file")] = l]
    BY <1>3 DEF fix_log_to_file, l
  <2>2. First(ls, "log_to_file") \in 1..Len(ls) /\ ls[First(ls, "log_to_file")][1] = l[1]
    BY <1>1, <1>3, FirstFacts
  <2>3. Keeps(ls, [ls EXCEPT ![First(ls, "log_to_file")] = l], {l[1]})
    BY <1>1, <2>2, KeepsChanged
  <2> QED
    BY <1>1, <1>3, <2>1, <2>3
<1>4. CASE Has(ls, "log_to_file") /\ ~created
  <2>1. fix_log_to_file(ls, created) = ls
    BY <1>4 DEF fix_log_to_file
  <2>2. Keeps(ls, ls, {"log_to_file"})
    BY KeepsSame DEF Keeps
  <2> QED
    BY <2>1, <2>2
<1> QED
  BY <1>2, <1>3, <1>4

LEMMA NameFixed ==
    ASSUME NEW ls \in Seq(Lines)
    PROVE  /\ Keeps(ls, fix_client_name(ls), {"client_name"})
           /\ Parsed(ls, "client_name", "none") = "mine" =>
                Parsed(fix_client_name(ls), "client_name", "none") = "mine"
<1> DEFINE l == <<"client_name", "BambuStudio">>
           f == First(ls, "client_name")
           m == [ls EXCEPT ![f] = l]
<1>1. l \in Lines /\ l[1] = "client_name"
  BY LineFacts
<1>2. CASE Has(ls, "client_name") /\ ls[f][2] = "OpenBambooNetworking"
  <2>1. fix_client_name(ls) = m
    BY <1>2 DEF fix_client_name
  <2> HIDE DEF l
  <2>2. f \in 1..Len(ls) /\ ls[f][1] = l[1]
    BY <1>1, <1>2, FirstFacts
  <2> HIDE DEF f
  <2>3. Keeps(ls, m, {"client_name"})
    BY <1>1, <2>2, KeepsChanged
  <2>4. /\ m \in Seq(Lines) /\ Len(m) = Len(ls) /\ Len(ls) \in Nat
        /\ \A n \in 1..Len(ls) : m[n] = IF n = f THEN l ELSE ls[n]
    BY <1>1, <2>2, ExceptSeq, LenProperties
  <2> HIDE DEF m
  <2>5. ASSUME Parsed(ls, "client_name", "none") = "mine"
        PROVE  Parsed(m, "client_name", "none") = "mine"
    <3>1. PICK n \in 1..Len(ls) : IsLast(ls, "client_name", n)
      BY <1>2, LastExists
    <3>2. ls[n][2] = "mine"
      BY <2>5, <3>1, ParsedIs
    <3>3. n # f
      BY <1>2, <3>2
    <3>4. m[n] = ls[n] /\ n \in 1..Len(m)
      BY <2>4, <3>3
    <3>5. \A q \in 1..Len(m) : m[q][1] = ls[q][1]
      BY <1>1, <2>2, <2>4
    <3>6. IsLast(m, "client_name", n)
      BY <2>4, <3>1, <3>4, <3>5 DEF IsLast
    <3> QED
      BY <2>4, <3>2, <3>4, <3>6, ParsedIs
  <2> QED
    BY <2>1, <2>3, <2>5
<1>3. CASE ~(Has(ls, "client_name") /\ ls[f][2] = "OpenBambooNetworking")
  <2>1. fix_client_name(ls) = ls
    BY <1>3 DEF fix_client_name
  <2>2. Keeps(ls, ls, {"client_name"})
    BY KeepsSame DEF Keeps
  <2> QED
    BY <2>1, <2>2
<1> QED
  BY <1>2, <1>3

\* What the installer's call found, or made.
Found == IF before = NoFile THEN Template ELSE before

ConfInv ==
    /\ conf \in Seq(Lines) \cup {NoFile} /\ before \in Seq(Lines) \cup {NoFile}
    /\ ipc # "idle" => conf = Found
    /\ ipc # "idle" => ~done
    /\ done => conf \in {fix_lines(Found), Fixed(Found, before = NoFile)}

\* What either call makes of a file.
LEMMA Repaired ==
    ASSUME NEW ls \in Seq(Lines), NEW created \in BOOLEAN,
           NEW m, m \in {fix_lines(ls), Fixed(ls, created)}
    PROVE  /\ Keeps(ls, m, {"block_cloud", "log_to_file", "client_name"}) /\ Unblocked(m)
           /\ Has(ls, "log_to_file") /\ ~created =>
                Keeps(ls, m, {"block_cloud", "client_name"})
           /\ Parsed(ls, "client_name", "none") = "mine" =>
                Parsed(m, "client_name", "none") = "mine"
<1> DEFINE a == fix_lines(ls)
           b == fix_log_to_file(a, created)
           c == fix_client_name(b)
<1>1. Keeps(ls, a, {"block_cloud"}) /\ Unblocked(a)
  BY BlockFixed
<1>2. a \in Seq(Lines)
  BY <1>1 DEF Keeps
<1>3. /\ Keeps(a, b, {"log_to_file"})
      /\ Has(a, "log_to_file") /\ ~created => b = a
  BY <1>2, LogFixed
<1>4. b \in Seq(Lines)
  BY <1>3 DEF Keeps
<1>5. /\ Keeps(b, c, {"client_name"})
      /\ Parsed(b, "client_name", "none") = "mine" => Parsed(c, "client_name", "none") = "mine"
  BY <1>4, NameFixed
<1>6. m = a \/ m = c
  BY DEF Fixed
<1> HIDE DEF a, b, c
<1>7. Keeps(ls, b, {"block_cloud"} \cup {"log_to_file"})
  BY <1>1, <1>3, KeepsThen
<1>8. Keeps(ls, c, ({"block_cloud"} \cup {"log_to_file"}) \cup {"client_name"})
  BY <1>5, <1>7, KeepsThen
<1>9. Keeps(ls, a, {"block_cloud", "log_to_file", "client_name"})
  BY <1>1 DEF Keeps
<1>10. Unblocked(c)
  <2>1. Keeps(a, c, {"log_to_file"} \cup {"client_name"})
    BY <1>2, <1>3, <1>5, KeepsThen
  <2>2. Has(c, "block_cloud")
    BY <1>1, <1>2, <2>1, KeepsRead DEF Unblocked
  <2>3. ASSUME NEW n \in 1..Len(c), c[n][1] = "block_cloud" PROVE c[n] = Off
    <3>1. n <= Len(a) /\ a[n][1] = "block_cloud" /\ c[n] = a[n]
      BY <2>1, <2>3 DEF Keeps
    <3>2. n \in 1..Len(a)
      BY <1>2, <3>1, LenProperties
    <3> QED
      BY <1>1, <3>1, <3>2 DEF Unblocked
  <2> QED
    BY <2>2, <2>3 DEF Unblocked
<1>11. ASSUME Has(ls, "log_to_file"), ~created
       PROVE  Keeps(ls, m, {"block_cloud", "client_name"})
  <2>1. Has(a, "log_to_file")
    BY <1>1, <1>11, KeepsRead
  <2>2. b = a
    BY <1>3, <1>11, <2>1
  <2>3. Keeps(ls, c, {"block_cloud"} \cup {"client_name"})
    BY <1>1, <1>5, <2>2, KeepsThen
  <2>4. Keeps(ls, a, {"block_cloud", "client_name"})
    BY <1>1 DEF Keeps
  <2>5. {"block_cloud"} \cup {"client_name"} = {"block_cloud", "client_name"}
    OBVIOUS
  <2> QED
    BY <1>6, <2>3, <2>4, <2>5
<1>12. ASSUME Parsed(ls, "client_name", "none") = "mine"
       PROVE  Parsed(m, "client_name", "none") = "mine"
  <2>1. Has(ls, "client_name")
    BY <1>12 DEF Parsed
  <2>2. Parsed(a, "client_name", "none") = "mine"
    BY <1>1, <1>12, <2>1, KeepsRead
  <2>3. "client_name" \notin {"block_cloud"} \cup {"log_to_file"}
    OBVIOUS
  <2>4. Parsed(b, "client_name", "none") = "mine"
    BY <1>7, <1>12, <2>1, <2>3, KeepsRead
  <2> QED
    BY <1>5, <1>6, <2>2, <2>4
<1>13. ({"block_cloud"} \cup {"log_to_file"}) \cup {"client_name"}
         = {"block_cloud", "log_to_file", "client_name"}
  OBVIOUS
<1>14. Keeps(ls, m, {"block_cloud", "log_to_file", "client_name"}) /\ Unblocked(m)
  BY <1>1, <1>6, <1>8, <1>9, <1>10, <1>13
<1> QED
  BY <1>11, <1>12, <1>14

LEMMA FoundType ==
    ASSUME ConfInv
    PROVE  Found \in Seq(Lines)
BY LineFacts DEF ConfInv, Found

LEMMA ConfInitInv == ConfInit => ConfInv
<1> SUFFICES ASSUME ConfInit PROVE ConfInv
  OBVIOUS
<1>1. \A n \in 0..MaxLines : [1..n -> Line] \subseteq Seq(Lines)
  BY DEF Lines
<1>2. conf \in Seq(Lines) \cup {NoFile}
  BY <1>1 DEF ConfInit, Files
<1> QED
  BY <1>2 DEF ConfInit, ConfInv

LEMMA ConfStepInv == ConfInv /\ [ConfNext]_confVars => ConfInv'
<1> SUFFICES ASSUME ConfInv, [ConfNext]_confVars PROVE ConfInv'
  OBVIOUS
<1>0. /\ NoFile \notin Seq(Lines) /\ Template \in Seq(Lines) /\ Found \in Seq(Lines)
  BY ConfAssumption, LineFacts, FoundType
<1>a. fix_lines(Found) \in Seq(Lines) /\ Fixed(Found, before = NoFile) \in Seq(Lines)
  <2>1. (before = NoFile) \in BOOLEAN
    OBVIOUS
  <2> QED
    BY <1>0, <2>1, Repaired DEF Keeps
<1>1. ASSUME NEW what \in {"all", "block"}, Ensure(what) PROVE ConfInv'
  BY <1>0, <1>1 DEF Ensure, ConfInv, Found
<1>2. CASE EnsureConfFixes
  <2>1. /\ ipc' = "idle" /\ before' = before /\ Found' = Found /\ conf = Found /\ ~done
    BY <1>2 DEF EnsureConfFixes, ConfInv, Found
  <2>2. CASE conf' = Fixed(conf, before = NoFile) /\ done'
    BY <1>a, <2>1, <2>2 DEF ConfInv
  <2>3. CASE UNCHANGED <<conf, done>>
    BY <2>1, <2>3 DEF ConfInv
  <2> QED
    BY <1>2, <2>2, <2>3 DEF EnsureConfFixes
<1>3. CASE EnsureBlockCloudInFile
  <2>1. /\ ipc' = "idle" /\ before' = before /\ Found' = Found /\ conf = Found /\ ~done
    BY <1>3 DEF EnsureBlockCloudInFile, ConfInv, Found
  <2>2. CASE conf' = fix_lines(conf) /\ done'
    BY <1>a, <2>1, <2>2 DEF ConfInv
  <2>3. CASE UNCHANGED <<conf, done>>
    BY <2>1, <2>3 DEF ConfInv
  <2> QED
    BY <1>3, <2>2, <2>3 DEF EnsureBlockCloudInFile
<1>4. CASE load_or_create
  <2>1. UNCHANGED <<before, ipc, done>> /\ Found' = Found
    BY <1>4 DEF load_or_create, Found
  <2>2. CASE conf = NoFile
    <3>1. conf' \in {Template, NoFile}
      BY <1>4, <2>2 DEF load_or_create
    <3>2. ipc = "idle" /\ ~done
      BY <1>0, <1>a, <2>2 DEF ConfInv
    <3> QED
      BY <1>0, <2>1, <3>1, <3>2 DEF ConfInv
  <2>3. CASE conf # NoFile
    <3>1. conf' = conf
      BY <1>4, <2>3 DEF load_or_create
    <3> QED
      BY <2>1, <3>1 DEF ConfInv
  <2> QED
    BY <2>2, <2>3
<1>5. ASSUME NEW l \in Line, UserEdit(l) PROVE ConfInv'
  <2>1. l \in Lines
    BY DEF Lines
  <2>2. conf \in Seq(Lines)
    BY <1>5 DEF UserEdit, ConfInv
  <2>3. conf' \in Seq(Lines)
    BY <1>5, <2>1, <2>2, KeepsAppended DEF UserEdit, Keeps
  <2> QED
    BY <1>5, <2>3 DEF UserEdit, ConfInv
<1>6. CASE UNCHANGED confVars
  BY <1>6 DEF confVars, ConfInv, Found
<1> QED
  BY <1>1, <1>2, <1>3, <1>4, <1>5, <1>6 DEF ConfNext

\* A file without a blocking line is read as such, and left alone by the next repair.
LEMMA UnblockedFacts ==
    ASSUME NEW ls \in Seq(Lines), Unblocked(ls)
    PROVE  Parsed(ls, "block_cloud", "1") = "0" /\ fix_lines(ls) = ls
<1>1. PICK n \in 1..Len(ls) : IsLast(ls, "block_cloud", n)
  BY LastExists DEF Unblocked
<1>2. ls[n] = Off
  BY <1>1 DEF Unblocked, IsLast
<1>3. Parsed(ls, "block_cloud", "1") = "0"
  BY <1>1, <1>2, ParsedIs, LineFacts
<1>4. DOMAIN ls = 1..Len(ls) /\ ls \in [1..Len(ls) -> Lines]
  BY LenProperties
<1>5. \A q \in 1..Len(ls) : ls[q] # <<"block_cloud", "1">>
  <2> SUFFICES ASSUME NEW q \in 1..Len(ls), ls[q] = <<"block_cloud", "1">> PROVE FALSE
    OBVIOUS
  <2>1. ls[q][1] = "block_cloud"
    OBVIOUS
  <2> QED
    BY <2>1, LineFacts DEF Unblocked
<1>6. fix_lines(ls) = [q \in 1..Len(ls) |-> ls[q]]
  BY <1>4, <1>5 DEF fix_lines, Unblocked
<1> QED
  BY <1>3, <1>4, <1>6

\* The installer's call leaves a file from which the plugin reads that the cloud is not
\* blocked, which the next call finds nothing to repair in, and in which every other line
\* of the user, his logging and his client name are as he wrote them, for files of any
\* length with any number of lines for a key (config.cpp ensure_conf_fixes).
THEOREM ConfHolds == Spec => []ConfRepaired
<1>1. Init => ConfInv
  BY ConfInitInv DEF Init
<1>2. ConfInv => ConfRepaired
  <2> SUFFICES ASSUME ConfInv, done PROVE ConfRepaired
    BY DEF ConfRepaired, CloudOnAfterInstall, SecondPassIsIdle, UserValuesKept
  <2>1. (before = NoFile) \in BOOLEAN /\ Found \in Seq(Lines)
    BY FoundType
  <2>2. conf \in {fix_lines(Found), Fixed(Found, before = NoFile)}
    BY DEF ConfInv
  <2>3. /\ Keeps(Found, conf, {"block_cloud", "log_to_file", "client_name"}) /\ Unblocked(conf)
        /\ Has(Found, "log_to_file") /\ ~(before = NoFile) =>
             Keeps(Found, conf, {"block_cloud", "client_name"})
        /\ Parsed(Found, "client_name", "none") = "mine" =>
             Parsed(conf, "client_name", "none") = "mine"
    BY <2>1, <2>2, Repaired
  <2>4. conf \in Seq(Lines)
    BY <2>3 DEF Keeps
  <2>5. CloudOnAfterInstall /\ SecondPassIsIdle
    BY <2>3, <2>4, UnblockedFacts DEF CloudOnAfterInstall, SecondPassIsIdle
  <2>6. ASSUME before # NoFile
        PROVE  /\ {<<n, conf[n]>> : n \in {q \in DOMAIN conf : conf[q][1] = "other"}}
                    = {<<n, before[n]>> : n \in {q \in DOMAIN before : before[q][1] = "other"}}
               /\ Has(before, "log_to_file") =>
                    Parsed(conf, "log_to_file", "0") = Parsed(before, "log_to_file", "0")
               /\ Parsed(before, "client_name", "none") = "mine" =>
                    Parsed(conf, "client_name", "none") = "mine"
    <3>1. Found = before
      BY <2>6 DEF Found
    <3>2. /\ DOMAIN conf = 1..Len(conf) /\ DOMAIN before = 1..Len(before)
          /\ Len(conf) \in Nat /\ Len(before) \in Nat /\ Len(before) <= Len(conf)
      BY <2>1, <2>3, <2>4, <3>1, LenProperties DEF Keeps
    <3>3. \A q \in 1..Len(conf) : conf[q][1] = "other" =>
            q \in 1..Len(before) /\ before[q][1] = "other" /\ conf[q] = before[q]
      <4> SUFFICES ASSUME NEW q \in 1..Len(conf), conf[q][1] = "other"
                   PROVE  q \in 1..Len(before) /\ before[q][1] = "other" /\ conf[q] = before[q]
        OBVIOUS
      <4>1. q <= Len(before) /\ before[q][1] = "other" /\ conf[q] = before[q]
        BY <2>3, <3>1 DEF Keeps
      <4> QED
        BY <3>2, <4>1
    <3>4. \A q \in 1..Len(before) : before[q][1] = "other" =>
            q \in 1..Len(conf) /\ conf[q] = before[q]
      <4> SUFFICES ASSUME NEW q \in 1..Len(before), before[q][1] = "other"
                   PROVE  q \in 1..Len(conf) /\ conf[q] = before[q]
        OBVIOUS
      <4>1. q \in 1..Len(conf) /\ q <= Len(before)
        BY <3>2
      <4> QED
        BY <2>3, <3>1, <4>1 DEF Keeps
    <3>5. {q \in DOMAIN conf : conf[q][1] = "other"} = {q \in DOMAIN before : before[q][1] = "other"}
      BY <3>2, <3>3, <3>4
    <3>6. \A q \in {q \in DOMAIN before : before[q][1] = "other"} : conf[q] = before[q]
      BY <3>2, <3>4
    <3>7. {<<n, conf[n]>> : n \in {q \in DOMAIN conf : conf[q][1] = "other"}}
            = {<<n, before[n]>> : n \in {q \in DOMAIN before : before[q][1] = "other"}}
      BY <3>5, <3>6
    <3>8. ASSUME Has(before, "log_to_file")
          PROVE  Parsed(conf, "log_to_file", "0") = Parsed(before, "log_to_file", "0")
      <4>1. Keeps(before, conf, {"block_cloud", "client_name"}) /\ before \in Seq(Lines)
        BY <2>1, <2>3, <2>6, <3>1, <3>8
      <4>2. "log_to_file" \notin {"block_cloud", "client_name"}
        OBVIOUS
      <4> QED
        BY <3>8, <4>1, <4>2, KeepsRead
    <3> QED
      BY <2>3, <3>1, <3>7, <3>8
  <2> QED
    BY <2>5, <2>6 DEF ConfRepaired, UserValuesKept
<1> QED
  BY <1>1, <1>2, ServiceSteps, ConfStepInv, PTL DEF Spec

-----------------------------------------------------------------------------
(* User presets.  While a sync runs nobody but another device writes to the cloud, so
   what get_full brings for a preset of ours is what is still there, and it is not older
   than what list() returned. *)
PresetTypes ==
    /\ clock \in 1..MaxWrites
    /\ catalogue \in [PresetNames -> 0..clock] /\ listed \in [PresetNames -> 0..clock]
    /\ writer \in [PresetNames -> {"us", "other", "lost"}]
    /\ local \in [PresetNames -> Nat] /\ cached \in [PresetNames -> Nat]
    /\ uploaded \subseteq PresetNames /\ todo \subseteq PresetNames
    /\ syncing \in {"idle", "fetch", "done"}
    /\ \A n \in PresetNames \ uploaded : local[n] \in {0, 1}

\* A listed preset has its turn before it or an entry.
ListedIsKept ==
    /\ syncing # "idle" =>
         \A n \in PresetNames : listed[n] # 0 => n \in todo \/ cached[n] # 0
    /\ syncing = "done" => todo = {}

\* What was fetched, or will be, is as new as what was listed.
FetchedIsNew ==
    syncing # "idle" =>
        \A n \in PresetNames :
            /\ catalogue[n] # 0 => catalogue[n] >= listed[n]
            /\ cached[n] \notin {NoEntry, Thin, Blank} =>
                 /\ cached[n] >= local[n]
                 /\ writer[n] = "us" /\ catalogue[n] # 0 => cached[n] = catalogue[n]

PresetInv == PresetTypes /\ ListedIsKept /\ FetchedIsNew /\ OwnUploadIsKnown

LEMMA PresetInitInv == PresetInit => PresetInv
BY PresetConstants DEF PresetInit, PresetInv, PresetTypes, ListedIsKept, FetchedIsNew,
   OwnUploadIsKnown, Oldest, NoEntry

LEMMA CloudHasFacts ==
    ASSUME PresetTypes, NEW n \in PresetNames, NEW by \in {"us", "other", "lost"},
           CloudHas(n, by)
    PROVE  /\ clock' = clock + 1 /\ clock' \in 1..MaxWrites
           /\ catalogue' \in [PresetNames -> 0..clock'] /\ listed \in [PresetNames -> 0..clock']
           /\ writer' \in [PresetNames -> {"us", "other", "lost"}]
           /\ catalogue'[n] = clock + 1 /\ writer'[n] = by
           /\ \A o \in PresetNames : o # n => catalogue'[o] = catalogue[o] /\ writer'[o] = writer[o]
           /\ \A o \in PresetNames : listed[o] < clock + 1
BY PresetConstants DEF PresetTypes, CloudHas

LEMMA PresetStepInv == PresetInv /\ [PresetNext]_presetVars => PresetInv'
<1> SUFFICES ASSUME PresetInv, [PresetNext]_presetVars PROVE PresetInv'
  OBVIOUS
<1>1. CASE list
  BY <1>1, PresetConstants DEF PresetInv, PresetTypes, ListedIsKept, FetchedIsNew,
     OwnUploadIsKnown, Oldest, list, NamesIn, preset_cache_reset, NoEntry, cloudVars
<1>2. CASE CancelSync
  BY <1>2 DEF PresetInv, PresetTypes, ListedIsKept, FetchedIsNew, OwnUploadIsKnown, Oldest,
     CancelSync, cloudVars
<1>3. CASE SyncDone
  BY <1>3 DEF PresetInv, PresetTypes, ListedIsKept, FetchedIsNew, OwnUploadIsKnown, Oldest,
     SyncDone, cloudVars
<1>4. CASE get_user_presets
  BY <1>4, PresetConstants DEF PresetInv, PresetTypes, ListedIsKept, FetchedIsNew,
     OwnUploadIsKnown, Oldest, get_user_presets, Loaded, NamesIn, NoEntry, Thin, Blank, cloudVars
<1>5. ASSUME NEW n \in PresetNames, sync_user_presets(n) PROVE PresetInv'
  <2>1. PICK fetched \in {0, catalogue[n], Blank} : cached' = [cached EXCEPT ![n] = Entry(n, fetched)]
    BY <1>5 DEF sync_user_presets, get_full, fill_values_from_full
  <2>2. /\ cached' \in [PresetNames -> Nat] /\ cached'[n] = Entry(n, fetched)
        /\ \A o \in PresetNames : o # n => cached'[o] = cached[o]
    BY <2>1, PresetConstants DEF PresetInv, PresetTypes, Entry, Thin, Blank
  <2>3. /\ cached'[n] # 0
        /\ cached'[n] \notin {Thin, Blank} => cached'[n] = catalogue[n] /\ local[n] < listed[n] /\ catalogue[n] # 0
    BY <2>2, PresetConstants DEF Entry, Thin, Blank, chk_fn
  <2>4. PresetTypes' /\ OwnUploadIsKnown'
    BY <1>5, <2>2 DEF PresetInv, PresetTypes, OwnUploadIsKnown, Oldest, sync_user_presets, cloudVars
  <2>5. ListedIsKept'
    BY <1>5, <2>2, <2>3 DEF PresetInv, ListedIsKept, sync_user_presets
  <2>6. FetchedIsNew'
    BY <1>5, <2>2, <2>3 DEF PresetInv, PresetTypes, FetchedIsNew, sync_user_presets,
       cloudVars, NoEntry
  <2> QED
    BY <2>4, <2>5, <2>6 DEF PresetInv
<1>6. ASSUME NEW n \in PresetNames, SaveLocal(n) PROVE PresetInv'
  BY <1>6 DEF PresetInv, PresetTypes, ListedIsKept, FetchedIsNew, OwnUploadIsKnown, Oldest,
     SaveLocal, cloudVars, syncVars, NoEntry
<1>7. ASSUME NEW n \in PresetNames, create(n) PROVE PresetInv'
  <2>1. CASE CloudHas(n, "us") /\ local' = Refreshed(n, clock + 1) /\ uploaded' = uploaded \cup {n}
    BY <1>7, <2>1, CloudHasFacts DEF PresetInv, PresetTypes, ListedIsKept, FetchedIsNew,
       OwnUploadIsKnown, Oldest, create, Refreshed, syncVars
  <2>2. CASE CloudHas(n, "lost") /\ UNCHANGED <<local, uploaded>>
    BY <1>7, <2>2, CloudHasFacts DEF PresetInv, PresetTypes, ListedIsKept, FetchedIsNew,
       OwnUploadIsKnown, Oldest, create, syncVars
  <2> QED
    BY <1>7, <2>1, <2>2 DEF create
<1>8. ASSUME NEW n \in PresetNames, update(n) PROVE PresetInv'
  <2>1. CASE CloudHas(n, "us") /\ local' = Refreshed(n, clock + 1)
    BY <1>8, <2>1, CloudHasFacts DEF PresetInv, PresetTypes, ListedIsKept, FetchedIsNew,
       OwnUploadIsKnown, Oldest, update, Refreshed, syncVars
  <2>2. CASE CloudHas(n, "lost") /\ UNCHANGED local
    BY <1>8, <2>2, CloudHasFacts DEF PresetInv, PresetTypes, ListedIsKept, FetchedIsNew,
       OwnUploadIsKnown, Oldest, update, syncVars
  <2> QED
    BY <1>8, <2>1, <2>2 DEF update
<1>9. ASSUME NEW n \in PresetNames, del(n) PROVE PresetInv'
  BY <1>9 DEF PresetInv, PresetTypes, ListedIsKept, FetchedIsNew, OwnUploadIsKnown, Oldest,
     del, syncVars
<1>10. ASSUME NEW n \in PresetNames, OtherDevice(n) PROVE PresetInv'
  <2>1. CASE CloudHas(n, "other")
    BY <1>10, <2>1, CloudHasFacts DEF PresetInv, PresetTypes, ListedIsKept, FetchedIsNew,
       OwnUploadIsKnown, Oldest, OtherDevice, syncVars
  <2>2. CASE catalogue' = [catalogue EXCEPT ![n] = 0] /\ UNCHANGED <<writer, clock>>
    BY <1>10, <2>2 DEF PresetInv, PresetTypes, ListedIsKept, FetchedIsNew,
       OwnUploadIsKnown, Oldest, OtherDevice, syncVars
  <2> QED
    BY <1>10, <2>1, <2>2 DEF OtherDevice
<1>11. CASE UNCHANGED presetVars
  BY <1>11 DEF PresetInv, PresetTypes, ListedIsKept, FetchedIsNew, OwnUploadIsKnown, Oldest, presetVars
<1> QED
  BY <1>1, <1>2, <1>3, <1>4, <1>5, <1>6, <1>7, <1>8, <1>9, <1>10, <1>11 DEF PresetNext

\* The one step that applies a sync is get_user_presets.
LEMMA SyncApplied ==
    ASSUME PresetInv, [PresetNext]_presetVars, syncing = "done", syncing' = "idle"
    PROVE  \A n \in PresetNames : /\ local[n] # 0 /\ local'[n] = 0 => listed[n] = 0
                                  /\ local'[n] # 0 => local'[n] >= local[n]
<1>1. get_user_presets
  BY DEF PresetNext, presetVars, list, CancelSync, SyncDone, sync_user_presets, SaveLocal,
     create, update, del, OtherDevice, syncVars
<1> QED
  BY <1>1, PresetConstants DEF PresetInv, PresetTypes, ListedIsKept, FetchedIsNew,
     get_user_presets, Loaded, NamesIn, NoEntry, Thin, Blank, Oldest

(* What a sync does to the slicer's presets: it removes none that the catalogue lists, it
   takes none back to an older version, and what the slicer itself uploaded last it knows
   by the cloud's time (abi_presets.cpp, cloud_presets.cpp), for any presets, any number
   of versions, and another device that writes at any moment. *)
THEOREM PresetsHold == Spec => PresetsSound
<1>1. Init => PresetInv
  BY PresetInitInv DEF Init
<1>2. PresetInv /\ [Next]_services => PresetInv'
  BY PresetStepInv, ServiceSteps
<1>3. PresetInv => OwnUploadIsKnown
  BY DEF PresetInv
<1>4. PresetInv /\ [Next]_services
        => /\ [syncing = "done" /\ syncing' = "idle"
                 => \A n \in PresetNames : local[n] # 0 /\ local'[n] = 0 => listed[n] = 0]_presetVars
           /\ [syncing = "done" /\ syncing' = "idle"
                 => \A n \in PresetNames : local'[n] # 0 => local'[n] >= local[n]]_presetVars
  BY SyncApplied, ServiceSteps
<1>5. Spec => []PresetInv /\ [][Next]_services
  BY <1>1, <1>2, PTL DEF Spec
<1> QED
  BY <1>3, <1>4, <1>5, PTL DEF PresetsSound, ListedPresetsKept, NeverOlder
-----------------------------------------------------------------------------
(* The search for the printed model.  What a fetch listed is true of every file that has
   not changed since, and of what it no longer has to try it passed over, unrefused, only
   files that are not the print's. *)
FindPcs == {"none", "listing", "title", "asked", "plates", "tile", "hit"}

PrintFiles == [path : Models, time : Nat, what : Contents]

Finds == [pc : FindPcs, todo : SUBSET PrintFiles, all : SUBSET PrintFiles, left : Int,
          hit : Models \cup {0}, passed : SUBSET PrintFiles, byName : BOOLEAN,
          came : SUBSET Nat, img : Nat]

TitleEntries == [path : Models, time : Nat, what : {"here", "titled", "other", "untitled", "elsewhere"}]

ThumbTypes ==
    /\ now \in Nat /\ sd \in [Models -> [time : Nat, what : Contents]]
    /\ titles \subseteq TitleEntries /\ find \in [Finders -> Finds]

\* No time is yet to come, and a file has one title.
Dated ==
    /\ \A p \in Models : sd[p].time <= now
    /\ \A e \in titles : e.time \in 1..now
    /\ \A e, n \in titles : TitleKey(e) = TitleKey(n) => e = n

\* The listing of a fetch.
ListedWell(f) ==
    /\ find[f].todo \subseteq find[f].all
    /\ \A c \in find[f].all : c.time \in 1..now /\ (Unchanged(c) => sd[c.path].what = c.what)
    /\ \A c, d \in find[f].all : c.path = d.path => c = d

\* The part of it that was tried, and the file whose picture is asked for.
Tries(f) ==
    find[f].pc \notin {"none", "listing", "hit"} =>
        /\ find[f].todo # {}
        /\ ~find[f].byName =>
            /\ \A c \in find[f].all \ find[f].todo :
                  Unchanged(c) /\ c.what = "here" => c \in find[f].passed
            /\ find[f].pc = "tile" /\ Unchanged(Candidate(f)) => Candidate(f).what = "here"

HasHit(f) ==
    find[f].pc = "hit" =>
        /\ find[f].img = Min(find[f].came)
        /\ \E h \in find[f].all :
              /\ h.path = find[f].hit
              /\ ~find[f].byName =>
                    /\ Unchanged(h) => h.what = "here"
                    /\ \A c \in find[f].all :
                          c.time > h.time /\ Unchanged(c) /\ c.what = "here" => c \in find[f].passed

FindOk(f) == ListedWell(f) /\ Tries(f) /\ HasHit(f)

ThumbInv == ThumbTypes /\ Dated /\ CacheIsTrue /\ \A f \in Finders : FindOk(f)

LEMMA NoFindFacts == NoFind \in Finds /\ NoFind.pc = "none" /\ NoFind.all = {} /\ NoFind.todo = {}
BY DEF NoFind, Finds, FindPcs

LEMMA ThumbInitInv == ThumbInit => ThumbInv
<1> SUFFICES ASSUME ThumbInit PROVE ThumbInv
  OBVIOUS
<1>1. ThumbTypes /\ Dated /\ CacheIsTrue
  BY NoFindFacts DEF ThumbInit, ThumbTypes, Dated, CacheIsTrue
<1>2. \A f \in Finders : find[f] = NoFind
  BY DEF ThumbInit
<1>3. \A f \in Finders : FindOk(f)
  BY <1>2, NoFindFacts DEF FindOk, ListedWell, Tries, HasHit
<1> QED
  BY <1>1, <1>3 DEF ThumbInv

\* Times are bounded, so that there is a newest candidate.
LEMMA NewestFacts ==
    ASSUME ThumbInv, NEW C \in SUBSET PrintFiles, C # {}, \A c \in C : c.time \in 1..now
    PROVE  Newest(C) \in C /\ \A d \in C : Newest(C).time >= d.time
<1>0. now \in Nat
  BY DEF ThumbInv, ThumbTypes
<1> DEFINE Ages == {now - c.time : c \in C}
<1>1. Ages \in SUBSET Nat /\ Ages # {}
  BY <1>0
<1>2. PICK x \in Ages : \A y \in Ages : x <= y
  BY <1>1, LeastIn
<1>3. PICK c \in C : x = now - c.time
  BY <1>2
<1>4. \A d \in C : c.time >= d.time
  <2> SUFFICES ASSUME NEW d \in C PROVE c.time >= d.time
    OBVIOUS
  <2>1. now - c.time <= now - d.time
    BY <1>2, <1>3
  <2> QED
    BY <2>1, <1>0
<1>5. \E n \in C : \A d \in C : n.time >= d.time
  BY <1>4
<1> QED
  BY <1>5 DEF Newest

\* The file a fetch is about.
LEMMA CandidateFacts ==
    ASSUME ThumbInv, NEW f \in Finders, find[f].pc \notin {"none", "listing", "hit"}
    PROVE  /\ Candidate(f) \in find[f].todo /\ Candidate(f) \in find[f].all
           /\ Candidate(f) \in PrintFiles /\ Candidate(f).time \in 1..now
           /\ \A d \in find[f].todo : Candidate(f).time >= d.time
<1>1. /\ find[f].todo \in SUBSET PrintFiles /\ find[f].todo # {}
      /\ find[f].todo \subseteq find[f].all /\ \A c \in find[f].todo : c.time \in 1..now
  BY DEF ThumbInv, ThumbTypes, Finds, FindOk, ListedWell, Tries
<1> QED
  BY <1>1, NewestFacts DEF Candidate

\* The other fetches rest.
Goes(f, v) ==
    /\ find' \in [Finders -> Finds] /\ find'[f] = v
    /\ \A o \in Finders : o # f => find'[o] = find[o]
    /\ UNCHANGED <<now, sd>>

LEMMA OthersOk ==
    ASSUME ThumbInv, NEW f \in Finders, NEW v, Goes(f, v), FindOk(f)'
    PROVE  \A o \in Finders : FindOk(o)'
<1> SUFFICES ASSUME NEW o \in Finders, o # f PROVE FindOk(o)'
  OBVIOUS
<1>1. FindOk(o) /\ find'[o] = find[o] /\ sd' = sd /\ now' = now
  BY DEF ThumbInv, Goes
<1> QED
  BY <1>1 DEF FindOk, ListedWell, Tries, HasHit, Unchanged, Candidate, Newest

\* A fetch that ends without a hit.
LEMMA GivesUp ==
    ASSUME ThumbInv, NEW f \in Finders, find' = [find EXCEPT ![f] = NoFind], UNCHANGED <<now, sd>>
    PROVE  find' \in [Finders -> Finds] /\ \A o \in Finders : FindOk(o)'
<1>1. Goes(f, NoFind)
  BY NoFindFacts DEF Goes, ThumbInv, ThumbTypes
<1>2. FindOk(f)'
  BY <1>1, NoFindFacts DEF FindOk, ListedWell, Tries, HasHit, Goes
<1> QED
  BY <1>1, <1>2, OthersOk DEF Goes

\* A fetch that goes on with the same files: it asks for the picture of the print's file only.
LEMMA Asks ==
    ASSUME ThumbInv, NEW f \in Finders, find[f].pc \notin {"none", "listing", "hit"},
           NEW pc \in {"asked", "plates", "tile"}, NEW left \in Int,
           pc = "tile" /\ Unchanged(Candidate(f)) => Candidate(f).what = "here",
           find' = [find EXCEPT ![f] = [find[f] EXCEPT !.pc = pc, !.left = left]],
           UNCHANGED <<now, sd>>
    PROVE  find' \in [Finders -> Finds] /\ \A o \in Finders : FindOk(o)'
<1> DEFINE v == [find[f] EXCEPT !.pc = pc, !.left = left]
<1>1. /\ v \in Finds /\ v.pc = pc /\ v.todo = find[f].todo /\ v.all = find[f].all
      /\ v.byName = find[f].byName /\ v.passed = find[f].passed
  BY DEF ThumbInv, ThumbTypes, Finds, FindPcs
<1>2. Goes(f, v)
  BY <1>1 DEF Goes, ThumbInv, ThumbTypes
<1> HIDE DEF v
<1>3. FindOk(f)
  BY DEF ThumbInv
<1>4. FindOk(f)'
  BY <1>1, <1>2, <1>3 DEF FindOk, ListedWell, Tries, HasHit, Goes, Unchanged, Candidate
<1> QED
  BY <1>2, <1>4, OthersOk DEF Goes

\* A fetch that passes over a file, which it was refused unless the file is not the print's.
LEMMA PassesOver ==
    ASSUME ThumbInv, NEW f \in Finders, find[f].pc \notin {"none", "listing", "hit"},
           NEW spent \in {0, 1}, NEW refused \in BOOLEAN,
           ~find[f].byName /\ Unchanged(Candidate(f)) /\ Candidate(f).what = "here" => refused,
           find' = [find EXCEPT ![f] = Skip(f, spent, refused)],
           UNCHANGED <<now, sd>>
    PROVE  find' \in [Finders -> Finds] /\ \A o \in Finders : FindOk(o)'
<1>1. PICK c : c = Candidate(f)
  OBVIOUS
<1>2. CASE find[f].todo = {c}
  BY <1>1, <1>2, GivesUp DEF Skip
<1>3. CASE find[f].todo # {c}
  <2> DEFINE v == [find[f] EXCEPT !.todo = @ \ {c}, !.left = @ - spent,
                         !.pc = IF find[f].byName THEN "tile" ELSE "title",
                         !.passed = @ \cup (IF refused THEN {c} ELSE {})]
  <2>0. Skip(f, spent, refused) = v
    BY <1>1, <1>3 DEF Skip
  <2>1. c \in find[f].todo /\ c \in PrintFiles
    BY <1>1, CandidateFacts
  <2>2. find[f] \in Finds
    BY DEF ThumbInv, ThumbTypes
  <2>3. /\ v \in Finds /\ v.todo = find[f].todo \ {c} /\ v.all = find[f].all
        /\ v.byName = find[f].byName
        /\ v.passed = find[f].passed \cup (IF refused THEN {c} ELSE {})
        /\ v.pc = IF find[f].byName THEN "tile" ELSE "title"
    <3>1. /\ find[f].todo \ {c} \in SUBSET PrintFiles /\ find[f].all \in SUBSET PrintFiles
          /\ find[f].passed \cup (IF refused THEN {c} ELSE {}) \in SUBSET PrintFiles
          /\ find[f].left - spent \in Int
          /\ (IF find[f].byName THEN "tile" ELSE "title") \in FindPcs
      BY <2>1, <2>2 DEF Finds, FindPcs
    <3>2. DOMAIN find[f] = {"pc", "todo", "all", "left", "hit", "passed", "byName", "came", "img"}
      BY <2>2 DEF Finds
    <3>3. /\ v.todo = find[f].todo \ {c} /\ v.all = find[f].all
          /\ v.byName = find[f].byName
          /\ v.passed = find[f].passed \cup (IF refused THEN {c} ELSE {})
          /\ v.pc = IF find[f].byName THEN "tile" ELSE "title"
      BY <3>2
    <3>4. v \in Finds
      BY <3>1, <2>2, ZenonT(60) DEF Finds
    <3> QED
      BY <3>3, <3>4
  <2>4. Goes(f, v)
    BY <2>0, <2>3 DEF Goes, ThumbInv, ThumbTypes
  <2>5. v.todo # {}
    BY <1>3, <2>1, <2>3
  <2> HIDE DEF v
  <2>6. FindOk(f)
    BY DEF ThumbInv
  <2>7. ListedWell(f)'
    BY <2>3, <2>4, <2>6 DEF FindOk, ListedWell, Goes, Unchanged
  <2>8. Tries(f)'
    BY <1>1, <2>3, <2>4, <2>5, <2>6 DEF FindOk, Tries, Goes, Unchanged
  <2>9. HasHit(f)'
    BY <2>3, <2>4 DEF HasHit, Goes
  <2> QED
    BY <2>4, <2>7, <2>8, <2>9, OthersOk DEF Goes, FindOk
<1> QED
  BY <1>2, <1>3

\* What the cache learns of a file.
LEMMA RememberedOk ==
    ASSUME ThumbInv, NEW p \in Models, NEW t \in 1..now, NEW c, c.path = p, c.time = t,
           NEW w \in {"here", "titled", "other", "untitled", "elsewhere"},
           sd[p].time = t => CASE w = "here" -> sd[p].what = "here"
                               [] w = "titled" -> sd[p].what # "other"
                               [] w = "other" -> sd[p].what = "other"
                               [] OTHER -> TRUE,
           titles' = Remembered(c, w), UNCHANGED <<now, sd>>
    PROVE  titles' \subseteq TitleEntries /\ Dated' /\ CacheIsTrue'
<1> DEFINE e == [path |-> p, time |-> t, what |-> w]
<1>0. now \in Nat /\ titles \subseteq TitleEntries
  BY DEF ThumbInv, ThumbTypes
<1>1. titles' = {x \in titles : TitleKey(x) # <<p, t>>} \cup {e}
  BY DEF Remembered, TitleKey
<1>2. e \in TitleEntries /\ e.path = p /\ e.time = t /\ e.what = w /\ TitleKey(e) = <<p, t>>
  BY <1>0 DEF TitleEntries, TitleKey
<1> HIDE DEF e
<1>3. titles' \subseteq TitleEntries
  BY <1>0, <1>1, <1>2
<1>4. Dated'
  BY <1>0, <1>1, <1>2 DEF ThumbInv, Dated, TitleKey
<1>5. CacheIsTrue'
  <2> SUFFICES ASSUME NEW x \in titles', Unchanged(x)'
               PROVE  CASE x.what = "here" -> sd'[x.path].what = "here"
                        [] x.what = "titled" -> sd'[x.path].what # "other"
                        [] x.what = "other" -> sd'[x.path].what = "other"
                        [] OTHER -> TRUE
    BY DEF CacheIsTrue
  <2>1. CASE x = e
    BY <2>1, <1>2 DEF Unchanged
  <2>2. CASE x \in titles
    BY <2>2 DEF ThumbInv, CacheIsTrue, Unchanged
  <2> QED
    BY <2>1, <2>2, <1>1
<1> QED
  BY <1>3, <1>4, <1>5

LEMMA ReplacedOk ==
    ASSUME ThumbInv, NEW p \in Models, NEW k \in Contents \cup {"gone"}, ModelReplaced(p, k)
    PROVE  ThumbInv'
<1> DEFINE r == IF k = "gone" THEN [time |-> 0, what |-> "here"] ELSE [time |-> now', what |-> k]
<1>0. now \in Nat /\ now' = now + 1
  BY DEF ThumbInv, ThumbTypes, ModelReplaced
<1>1. /\ r \in [time : Nat, what : Contents] /\ r.time \in {0, now + 1}
      /\ sd' = [sd EXCEPT ![p] = r] /\ UNCHANGED <<titles, find>>
  BY <1>0 DEF ModelReplaced, Contents
<1> HIDE DEF r
<1>2. sd' \in [Models -> [time : Nat, what : Contents]] /\ sd'[p] = r
      /\ \A o \in Models : o # p => sd'[o] = sd[o]
  BY <1>1 DEF ThumbInv, ThumbTypes
<1>3. \A o \in Models : \A t \in 1..now : sd'[o].time = t => sd[o].time = t /\ sd'[o] = sd[o]
  BY <1>0, <1>1, <1>2
<1>4. ThumbTypes'
  BY <1>0, <1>1, <1>2 DEF ThumbInv, ThumbTypes
<1>5. Dated'
  BY <1>0, <1>1, <1>2 DEF ThumbInv, ThumbTypes, Dated, TitleKey
<1>6. CacheIsTrue'
  <2> SUFFICES ASSUME NEW e \in titles, sd'[e.path].time = e.time
               PROVE  CASE e.what = "here" -> sd'[e.path].what = "here"
                        [] e.what = "titled" -> sd'[e.path].what # "other"
                        [] e.what = "other" -> sd'[e.path].what = "other"
                        [] OTHER -> TRUE
    BY <1>1 DEF CacheIsTrue, Unchanged
  <2>1. e.path \in Models /\ e.time \in 1..now
    BY DEF ThumbInv, ThumbTypes, Dated, TitleEntries
  <2>2. sd[e.path].time = e.time /\ sd'[e.path] = sd[e.path]
    BY <1>3, <2>1
  <2> QED
    BY <2>2 DEF ThumbInv, CacheIsTrue, Unchanged
<1>7. ASSUME NEW f \in Finders PROVE FindOk(f)'
  <2>1. FindOk(f) /\ find' = find
    BY <1>1 DEF ThumbInv
  <2>2. find[f].all \subseteq PrintFiles /\ find[f].todo \subseteq find[f].all
    BY <2>1 DEF ThumbInv, ThumbTypes, Finds, FindOk, ListedWell
  <2>3. \A c \in find[f].all : c.path \in Models /\ c.time \in 1..now
    BY <2>1, <2>2 DEF FindOk, ListedWell, PrintFiles
  <2>4. \A c \in find[f].all : Unchanged(c)' => Unchanged(c) /\ sd'[c.path] = sd[c.path]
    BY <1>3, <2>3 DEF Unchanged
  <2>5. ListedWell(f)'
    BY <1>0, <2>1, <2>4 DEF FindOk, ListedWell
  <2>6. Tries(f)'
    <3>1. CASE find[f].pc \in {"none", "listing", "hit"}
      BY <2>1, <3>1 DEF Tries
    <3>2. CASE find[f].pc \notin {"none", "listing", "hit"}
      <4>1. Candidate(f) \in find[f].all /\ Candidate(f)' = Candidate(f)
        BY <2>1, <3>2, CandidateFacts DEF Candidate, Newest
      <4> QED
        BY <2>1, <2>4, <4>1 DEF FindOk, Tries
    <3> QED
      BY <3>1, <3>2
  <2>7. HasHit(f)'
    BY <2>1, <2>4 DEF FindOk, HasHit
  <2> QED
    BY <2>5, <2>6, <2>7 DEF FindOk
<1> QED
  BY <1>4, <1>5, <1>6, <1>7 DEF ThumbInv

\* A fetch that asks for the listings.
Asking == [NoFind EXCEPT !.pc = "listing"]

LEMMA AskingFacts == Asking \in Finds /\ Asking.pc = "listing" /\ Asking.all = {} /\ Asking.todo = {}
BY NoFindFacts DEF Asking, NoFind, Finds, FindPcs

LEMMA BeginsOk ==
    ASSUME ThumbInv, NEW f \in Finders, FetchBegins(f)
    PROVE  ThumbInv'
<1>0. UNCHANGED <<now, sd, titles>> /\ find' = [find EXCEPT ![f] = Asking]
  BY DEF FetchBegins, Asking
<1>1. Goes(f, Asking)
  BY <1>0, AskingFacts DEF Goes, ThumbInv, ThumbTypes
<1>2. FindOk(f)'
  BY <1>1, AskingFacts DEF FindOk, ListedWell, Tries, HasHit, Goes
<1>3. \A o \in Finders : FindOk(o)'
  BY <1>1, <1>2, OthersOk
<1>4. ThumbTypes' /\ Dated' /\ CacheIsTrue'
  BY <1>0, <1>1 DEF Goes, ThumbInv, ThumbTypes, Dated, CacheIsTrue, Unchanged, TitleKey
<1> QED
  BY <1>3, <1>4 DEF ThumbInv

\* Those considered are among those listed.
LEMMA NewestAreListed == \A C : \A K \in NewestOf(C) : K \subseteq C
BY DEF NewestOf

LEMMA ListsOk ==
    ASSUME ThumbInv, NEW f \in Finders, NEW ok \in SUBSET {"usb", "internal"}, NEW names,
           FetchLists(f, ok, names)
    PROVE  ThumbInv'
<1> DEFINE named == Listed(ok) \cap names
           S == IF named # {} THEN named ELSE Listed(ok)
<1>10. PICK order : /\ order \in IF named # {} THEN {merged_candidates(named)}
                                  ELSE NewestOf(merged_candidates(Listed(ok)))
                    /\ LET begin == [NoFind EXCEPT !.todo = order, !.all = order, !.left = ReadBudget,
                                                   !.byName = (named # {})]
                       IN  find' = [find EXCEPT ![f] =
                               IF order = {} THEN NoFind
                               ELSE [begin EXCEPT !.pc = IF named # {} THEN "tile" ELSE "title"]]
  BY DEF FetchLists
<1>11. order \subseteq merged_candidates(S)
  BY <1>10, NewestAreListed
<1> DEFINE begin == [NoFind EXCEPT !.todo = order, !.all = order, !.left = ReadBudget,
                                   !.byName = (named # {})]
           v == IF order = {} THEN NoFind
                ELSE [begin EXCEPT !.pc = IF named # {} THEN "tile" ELSE "title"]
<1>0. now \in Nat /\ sd \in [Models -> [time : Nat, what : Contents]] /\ ReadBudget \in Int
  BY ThumbAssumption DEF ThumbInv, ThumbTypes
<1>1. /\ find' = [find EXCEPT ![f] = v] /\ UNCHANGED <<now, sd>>
      /\ titles' \subseteq titles
  BY <1>10 DEF FetchLists
<1>2. S \subseteq Models /\ \A p \in S : sd[p].time > 0
  BY DEF Listed
<1>3. /\ order \in SUBSET PrintFiles
      /\ \A c \in order : c.time \in 1..now /\ c.what = sd[c.path].what /\ c.time = sd[c.path].time
  <2> SUFFICES ASSUME NEW p \in S
               PROVE  /\ [path |-> p, time |-> sd[p].time, what |-> sd[p].what] \in PrintFiles
                      /\ sd[p].time \in 1..now
    BY <1>11 DEF merged_candidates
  <2>1. p \in Models /\ sd[p].time > 0 /\ sd[p].time <= now /\ sd[p] \in [time : Nat, what : Contents]
    BY <1>0, <1>2 DEF ThumbInv, Dated
  <2> QED
    BY <2>1, <1>0 DEF PrintFiles
<1>4. \A c, d \in order : c.path = d.path => c = d
  BY <1>11 DEF merged_candidates
<1>5. /\ v \in Finds /\ v.todo = v.all
      /\ v.pc # "hit" /\ (v.pc # "none" => v.all = order /\ order # {})
      /\ v.all \subseteq order
      /\ v.pc = "tile" => v.byName
  <2>1. CASE order = {}
    BY <2>1, NoFindFacts
  <2>2. CASE order # {}
    <3>1. v = [pc |-> IF named # {} THEN "tile" ELSE "title", todo |-> order, all |-> order,
               left |-> ReadBudget, hit |-> 0, passed |-> {}, byName |-> (named # {}),
               came |-> {}, img |-> 0]
      BY <2>2 DEF NoFind
    <3>2. v \in Finds
      <4>1. (IF named # {} THEN "tile" ELSE "title") \in FindPcs /\ 0 \in Models \cup {0} /\ 0 \in Nat
        BY DEF FindPcs
      <4>2. (named # {}) \in BOOLEAN /\ {} \in SUBSET Nat /\ {} \in SUBSET PrintFiles
        OBVIOUS
      <4> DEFINE pc == IF named # {} THEN "tile" ELSE "title"
                 u == [pc |-> pc, todo |-> order, all |-> order, left |-> ReadBudget, hit |-> 0,
                       passed |-> {}, byName |-> (named # {}), came |-> {}, img |-> 0]
      <4>3. u \in Finds
        BY <4>1, <4>2, <1>0, <1>3 DEF Finds
      <4>4. v = u
        BY <3>1
      <4> QED
        BY <4>3, <4>4
    <3> QED
      BY <3>1, <3>2, <2>2
  <2> QED
    BY <2>1, <2>2
<1> HIDE DEF v
<1>6. Goes(f, v)
  BY <1>1, <1>5 DEF Goes, ThumbInv, ThumbTypes
<1>7. FindOk(f)'
  BY <1>3, <1>4, <1>5, <1>6 DEF Goes, FindOk, ListedWell, Tries, HasHit, Unchanged
<1>8. \A o \in Finders : FindOk(o)'
  BY <1>6, <1>7, OthersOk
<1>9. ThumbTypes' /\ Dated' /\ CacheIsTrue'
  BY <1>1, <1>6 DEF Goes, ThumbInv, ThumbTypes, Dated, CacheIsTrue, Unchanged, TitleKey
<1> QED
  BY <1>8, <1>9 DEF ThumbInv

\* The rest of the invariant does not mind what a fetch does.
LEMMA CacheRests ==
    ASSUME ThumbInv, UNCHANGED <<now, sd, titles>>
    PROVE  now' \in Nat /\ sd' \in [Models -> [time : Nat, what : Contents]]
           /\ titles' \subseteq TitleEntries /\ Dated' /\ CacheIsTrue'
BY DEF ThumbInv, ThumbTypes, Dated, CacheIsTrue, Unchanged, TitleKey

\* What the cache says of the candidate, it says of the listed file.
LEMMA CachedFacts ==
    ASSUME ThumbInv, NEW f \in Finders, find[f].pc \notin {"none", "listing", "hit"},
           KnownTitles(Candidate(f)) # {}, Unchanged(Candidate(f))
    PROVE  /\ CachedTitle(Candidate(f)) = "here" => Candidate(f).what = "here"
           /\ CachedTitle(Candidate(f)) = "other" => Candidate(f).what = "other"
<1>1. PICK c : c = Candidate(f)
  OBVIOUS
<1>2. PICK e \in KnownTitles(c) : CachedTitle(c) = e.what
  BY <1>1 DEF CachedTitle
<1>3. e \in titles /\ e.path = c.path /\ e.time = c.time
  BY <1>2 DEF KnownTitles, SameFile
<1>4. Unchanged(e) /\ sd[c.path].what = c.what
  BY <1>1, <1>3, CandidateFacts DEF ThumbInv, FindOk, ListedWell, Unchanged
<1> QED
  BY <1>1, <1>2, <1>3, <1>4 DEF ThumbInv, CacheIsTrue

LEMMA LookUpOk ==
    ASSUME ThumbInv, NEW f \in Finders, LookUp(f)
    PROVE  ThumbInv'
<1>0. find[f].pc = "title" /\ UNCHANGED <<now, sd, titles>> /\ find[f].left \in Int
  BY DEF LookUp, ThumbInv, ThumbTypes, Finds
<1>1. PICK c : c = Candidate(f)
  OBVIOUS
<1>2. Unchanged(c) /\ KnownTitles(c) # {} =>
        (CachedTitle(c) = "here" => c.what = "here") /\ (CachedTitle(c) = "other" => c.what = "other")
  BY <1>0, <1>1, CachedFacts
<1>3. find' \in [Finders -> Finds] /\ \A o \in Finders : FindOk(o)'
  <2>1. CASE find' = [find EXCEPT ![f] = NoFind]
    BY <1>0, <2>1, GivesUp
  <2>2. CASE find' = [find EXCEPT ![f] = [find[f] EXCEPT !.pc = "asked"]]
    <3>1. find' = [find EXCEPT ![f] = [find[f] EXCEPT !.pc = "asked", !.left = find[f].left]]
      BY <2>2, <1>0 DEF ThumbInv, ThumbTypes, Finds
    <3> QED
      BY <1>0, <3>1, Asks
  <2>3. CASE find' = [find EXCEPT ![f] = [find[f] EXCEPT !.pc = "plates"]]
    <3>1. find' = [find EXCEPT ![f] = [find[f] EXCEPT !.pc = "plates", !.left = find[f].left]]
      BY <2>3, <1>0 DEF ThumbInv, ThumbTypes, Finds
    <3> QED
      BY <1>0, <3>1, Asks
  <2>4. CASE /\ find' = [find EXCEPT ![f] = [find[f] EXCEPT !.pc = "tile"]]
             /\ KnownTitles(c) # {} /\ CachedTitle(c) = "here"
    <3>1. find' = [find EXCEPT ![f] = [find[f] EXCEPT !.pc = "tile", !.left = find[f].left]]
      BY <2>4, <1>0 DEF ThumbInv, ThumbTypes, Finds
    <3> QED
      BY <1>0, <1>1, <1>2, <2>4, <3>1, Asks
  <2>5. CASE /\ find' = [find EXCEPT ![f] = Skip(f, 0, CachedTitle(c) # "other")]
             /\ KnownTitles(c) # {}
    <3>1. PICK refused \in BOOLEAN : refused = (CachedTitle(c) # "other")
      OBVIOUS
    <3>2. Unchanged(c) /\ c.what = "here" => refused
      BY <1>2, <2>5, <3>1
    <3>3. find' = [find EXCEPT ![f] = Skip(f, 0, refused)]
      BY <2>5, <3>1
    <3> QED
      BY <1>0, <1>1, <3>2, <3>3, PassesOver
  <2>6. \/ find' = [find EXCEPT ![f] = NoFind]
        \/ find' = [find EXCEPT ![f] = [find[f] EXCEPT !.pc = "asked"]]
        \/ find' = [find EXCEPT ![f] = [find[f] EXCEPT !.pc = "plates"]]
        \/ /\ find' = [find EXCEPT ![f] = [find[f] EXCEPT !.pc = "tile"]]
           /\ KnownTitles(c) # {} /\ CachedTitle(c) = "here"
        \/ /\ find' = [find EXCEPT ![f] = Skip(f, 0, CachedTitle(c) # "other")]
           /\ KnownTitles(c) # {}
    BY <1>1 DEF LookUp
  <2> QED
    BY <2>1, <2>2, <2>3, <2>4, <2>5, <2>6
<1> QED
  BY <1>0, <1>3, CacheRests DEF ThumbInv, ThumbTypes

\* What is read of a file that has not changed is what was listed.
LEMMA ContentFacts ==
    ASSUME ThumbInv, NEW f \in Finders, find[f].pc \notin {"none", "listing", "hit"}, NEW c, c = Candidate(f)
    PROVE  /\ c.path \in Models /\ c.time \in 1..now
           /\ Content(c) \in Contents
           /\ sd[c.path].time = c.time => Content(c) = sd[c.path].what /\ Content(c) = c.what
<1>1. c \in PrintFiles /\ c \in find[f].all /\ c.time \in 1..now
  BY CandidateFacts
<1>2. c.path \in Models /\ now \in Nat /\ sd[c.path].what \in Contents
  BY <1>1 DEF PrintFiles, ThumbInv, ThumbTypes
<1>3. sd[c.path].time = c.time => sd[c.path].what = c.what
  BY <1>1 DEF ThumbInv, FindOk, ListedWell, Unchanged
<1> QED
  BY <1>1, <1>2, <1>3 DEF Content, Contents

LEMMA TitleAnswerOk ==
    ASSUME ThumbInv, NEW f \in Finders, NEW r, TitleAnswer(f, r)
    PROVE  ThumbInv'
<1>0. find[f].pc = "asked" /\ r \in {"data", "refused"} /\ UNCHANGED <<now, sd>> /\ find[f].left \in Int
  BY DEF TitleAnswer, ThumbInv, ThumbTypes, Finds
<1>1. PICK c : c = Candidate(f)
  OBVIOUS
<1>2. PICK w : w = TitleEntry(c, r)
  OBVIOUS
<1>3. /\ c.path \in Models /\ c.time \in 1..now /\ Content(c) \in Contents
      /\ sd[c.path].time = c.time => Content(c) = sd[c.path].what /\ Content(c) = c.what
  BY <1>0, <1>1, ContentFacts
<1>4. /\ w \in {"untitled", "other", "titled"}
      /\ w = "other" => Content(c) = "other"
      /\ w = "titled" => Content(c) # "other"
      /\ w = "untitled" => r = "refused"
  BY <1>0, <1>2 DEF TitleEntry
<1>5. titles' = Remembered(c, w)
  BY <1>1, <1>2 DEF TitleAnswer
<1>6. titles' \subseteq TitleEntries /\ Dated' /\ CacheIsTrue'
  BY <1>0, <1>3, <1>4, <1>5, RememberedOk
<1>7. find' \in [Finders -> Finds] /\ \A o \in Finders : FindOk(o)'
  <2>1. CASE w # "titled"
    <3>1. PICK refused \in BOOLEAN : refused = (r = "refused")
      OBVIOUS
    <3>2. find' = [find EXCEPT ![f] = Skip(f, 1, refused)]
      BY <1>1, <1>2, <2>1, <3>1 DEF TitleAnswer
    <3>3. Unchanged(c) /\ c.what = "here" => refused
      BY <1>3, <1>4, <2>1, <3>1 DEF Unchanged
    <3> QED
      BY <1>0, <1>1, <3>2, <3>3, PassesOver
  <2>2. CASE w = "titled" /\ find[f].left = 1
    <3>1. find' = [find EXCEPT ![f] = NoFind]
      BY <1>1, <1>2, <2>2 DEF TitleAnswer
    <3> QED
      BY <1>0, <3>1, GivesUp
  <2>3. CASE w = "titled" /\ find[f].left # 1
    <3>1. PICK left \in Int : left = find[f].left - 1
      BY <1>0
    <3>2. find' = [find EXCEPT ![f] = [find[f] EXCEPT !.pc = "plates", !.left = left]]
      <4>1. find' = [find EXCEPT ![f] = [find[f] EXCEPT !.pc = "plates", !.left = find[f].left - 1]]
        BY <1>1, <1>2, <2>3 DEF TitleAnswer
      <4> QED
        BY <3>1, <4>1, Zenon
    <3> QED
      BY <1>0, <3>2, Asks
  <2> QED
    BY <2>1, <2>2, <2>3
<1> QED
  BY <1>0, <1>6, <1>7 DEF ThumbInv, ThumbTypes

LEMMA TitleUnansweredOk ==
    ASSUME ThumbInv, NEW f \in Finders, NEW r, TitleUnanswered(f, r)
    PROVE  ThumbInv'
<1>0. find[f].pc = "asked" /\ UNCHANGED <<now, sd>> /\ find' = [find EXCEPT ![f] = NoFind]
  BY DEF TitleUnanswered
<1>1. PICK c : c = Candidate(f)
  OBVIOUS
<1>2. c.path \in Models /\ c.time \in 1..now
  BY <1>0, <1>1, ContentFacts
<1>3. titles' = titles \/ titles' = Remembered(c, "untitled")
  BY <1>1 DEF TitleUnanswered
<1>4. titles' \subseteq TitleEntries /\ Dated' /\ CacheIsTrue'
  BY <1>0, <1>2, <1>3, RememberedOk, CacheRests
<1> QED
  BY <1>0, <1>4, GivesUp DEF ThumbInv, ThumbTypes

LEMMA PlatesAnswerOk ==
    ASSUME ThumbInv, NEW f \in Finders, NEW r, PlatesAnswer(f, r)
    PROVE  ThumbInv'
<1>0. find[f].pc = "plates" /\ UNCHANGED <<now, sd>> /\ find[f].left \in Int
  BY DEF PlatesAnswer, ThumbInv, ThumbTypes, Finds
<1>1. PICK c : c = Candidate(f)
  OBVIOUS
<1>2. PICK w : w = IF r = "data" /\ Content(c) = "here" THEN "here" ELSE "elsewhere"
  OBVIOUS
<1>3. /\ c.path \in Models /\ c.time \in 1..now /\ Content(c) \in Contents
      /\ sd[c.path].time = c.time => Content(c) = sd[c.path].what /\ Content(c) = c.what
  BY <1>0, <1>1, ContentFacts
<1>4. CASE r \in {"data", "refused"}
  <2>1. titles' = Remembered(c, w)
    BY <1>1, <1>2, <1>4 DEF PlatesAnswer
  <2>2. titles' \subseteq TitleEntries /\ Dated' /\ CacheIsTrue'
    BY <1>0, <1>2, <1>3, <2>1, RememberedOk
  <2>3. find' \in [Finders -> Finds] /\ \A o \in Finders : FindOk(o)'
    <3>1. CASE w = "here"
      <4>1. PICK left \in Int : left = find[f].left - 1
        BY <1>0
      <4>2. find' = [find EXCEPT ![f] = [find[f] EXCEPT !.pc = "tile", !.left = left]]
        <5>1. find' = [find EXCEPT ![f] = [find[f] EXCEPT !.pc = "tile", !.left = find[f].left - 1]]
          BY <1>1, <1>2, <1>4, <3>1 DEF PlatesAnswer
        <5> QED
          BY <4>1, <5>1, Zenon
      <4>3. Unchanged(c) => c.what = "here"
        BY <1>2, <1>3, <3>1 DEF Unchanged
      <4> QED
        BY <1>0, <1>1, <4>2, <4>3, Asks
    <3>2. CASE w # "here"
      <4>1. PICK refused \in BOOLEAN : refused = (r = "refused")
        OBVIOUS
      <4>2. find' = [find EXCEPT ![f] = Skip(f, 1, refused)]
        BY <1>1, <1>2, <1>4, <3>2, <4>1 DEF PlatesAnswer
      <4>3. Unchanged(c) /\ c.what = "here" => refused
        BY <1>2, <1>3, <1>4, <3>2, <4>1 DEF Unchanged
      <4> QED
        BY <1>0, <1>1, <4>2, <4>3, PassesOver
    <3> QED
      BY <3>1, <3>2
  <2> QED
    BY <1>0, <2>2, <2>3 DEF ThumbInv, ThumbTypes
<1>5. CASE r \notin {"data", "refused"}
  <2>1. find' = [find EXCEPT ![f] = NoFind] /\ UNCHANGED titles
    BY <1>5 DEF PlatesAnswer
  <2> QED
    BY <1>0, <2>1, GivesUp, CacheRests DEF ThumbInv, ThumbTypes
<1> QED
  BY <1>4, <1>5

\* The orders in which the images of one archive come.
ImagesCame == {<<>>, <<2>>, <<1, 2>>, <<2, 1>>}

LEMMA TileAnswerOk ==
    ASSUME ThumbInv, NEW f \in Finders, NEW frames \in ImagesCame,
           TileAnswer(f, frames)
    PROVE  ThumbInv'
<1>0. find[f].pc = "tile" /\ UNCHANGED <<now, sd, titles>> /\ find[f] \in Finds
  BY DEF TileAnswer, ThumbInv, ThumbTypes
<1>1. PICK c : c = Candidate(f)
  OBVIOUS
<1>2. CASE frames = <<>>
  <2>1. find' = [find EXCEPT ![f] = Skip(f, 0, TRUE)]
    BY <1>2 DEF TileAnswer
  <2> QED
    BY <1>0, <2>1, PassesOver, CacheRests DEF ThumbInv, ThumbTypes
<1>3. CASE frames # <<>>
  <2> DEFINE v == [find[f] EXCEPT !.pc = "hit", !.hit = c.path, !.todo = {}, !.left = 0,
                                  !.came = Range(frames), !.img = BestImage(frames)]
  <2>1. Range(frames) \in SUBSET Nat /\ Range(frames) # {}
    <3>1. Range(<<2>>) = {2} /\ Range(<<1, 2>>) = {1, 2} /\ Range(<<2, 1>>) = {1, 2}
      BY DEF Range
    <3> QED
      BY <1>3, <3>1 DEF ImagesCame
  <2>2. PICK x \in Range(frames) : \A y \in Range(frames) : x <= y
    BY <2>1, LeastIn
  <2>3. BestImage(frames) \in Nat /\ BestImage(frames) = Min(Range(frames))
    BY <2>1, <2>2 DEF BestImage, Min
  <2>4. c \in find[f].all /\ c \in PrintFiles /\ c.path \in Models
    BY <1>0, <1>1, CandidateFacts DEF PrintFiles
  <2>5. /\ v \in Finds /\ v.pc = "hit" /\ v.hit = c.path /\ v.todo = {} /\ v.all = find[f].all
        /\ v.byName = find[f].byName /\ v.passed = find[f].passed /\ v.img = Min(v.came)
    <3>1. v \in Finds
      <4>1. "hit" \in FindPcs /\ c.path \in Models \cup {0} /\ {} \in SUBSET PrintFiles /\ 0 \in Int
        BY <2>4 DEF FindPcs
      <4> QED
        BY <1>0, <2>1, <2>3, <4>1, ZenonT(60) DEF Finds
    <3>2. v.came = Range(frames) /\ v.img = BestImage(frames)
      BY <1>0 DEF Finds
    <3>3. /\ v.pc = "hit" /\ v.hit = c.path /\ v.todo = {} /\ v.all = find[f].all
          /\ v.byName = find[f].byName /\ v.passed = find[f].passed
      BY <1>0 DEF Finds
    <3> QED
      BY <2>3, <3>1, <3>2, <3>3
  <2>6. find' = [find EXCEPT ![f] = v]
    BY <1>0, <1>1, <1>3 DEF TileAnswer, ThumbInv, ThumbTypes, Finds
  <2> HIDE DEF v
  <2>7. Goes(f, v)
    BY <1>0, <2>5, <2>6 DEF Goes, ThumbInv, ThumbTypes
  <2>8. FindOk(f)
    BY DEF ThumbInv
  <2>9. ListedWell(f)' /\ Tries(f)'
    BY <2>5, <2>7, <2>8 DEF FindOk, ListedWell, Tries, Goes, Unchanged
  <2>10. HasHit(f)'
    <3>1. ASSUME ~find[f].byName
          PROVE  /\ Unchanged(c) => c.what = "here"
                 /\ \A d \in find[f].all :
                       d.time > c.time /\ Unchanged(d) /\ d.what = "here" => d \in find[f].passed
      <4>1. Unchanged(c) => c.what = "here"
        BY <1>0, <1>1, <2>8, <3>1 DEF FindOk, Tries
      <4>2. ASSUME NEW d \in find[f].all, d.time > c.time, Unchanged(d), d.what = "here"
            PROVE  d \in find[f].passed
        <5>1. d \notin find[f].todo
          <6>1. d \in find[f].todo => c.time >= d.time
            BY <1>0, <1>1, CandidateFacts
          <6>2. c.time \in Nat /\ d.time \in Nat
            BY <2>4, <1>0 DEF PrintFiles, Finds
          <6> QED
            BY <6>1, <6>2, <4>2
        <5> QED
          BY <1>0, <2>8, <3>1, <4>2, <5>1 DEF FindOk, Tries
      <4> QED
        BY <4>1, <4>2
    <3> QED
      BY <2>4, <2>5, <2>7, <3>1 DEF HasHit, Goes, Unchanged
  <2>11. \A o \in Finders : FindOk(o)'
    BY <2>7, <2>9, <2>10, OthersOk DEF FindOk
  <2> QED
    BY <1>0, <2>7, <2>11, CacheRests DEF ThumbInv, ThumbTypes, Goes
<1> QED
  BY <1>2, <1>3

LEMMA OtherFetchOk ==
    ASSUME ThumbInv, NEW p \in Models, OtherFetch(p)
    PROVE  ThumbInv'
<1> DEFINE c == [path |-> p, time |-> sd[p].time]
<1>0. UNCHANGED <<now, sd, find>> /\ now \in Nat
  BY DEF OtherFetch, ThumbInv, ThumbTypes
<1>1. sd[p].time \in 1..now
  BY DEF OtherFetch, ThumbInv, ThumbTypes, Dated
<1>2. CASE UNCHANGED titles
  BY <1>0, <1>2, CacheRests
     DEF ThumbInv, ThumbTypes, FindOk, ListedWell, Tries, HasHit, Unchanged, Candidate, Newest
<1>3. ASSUME NEW w \in {"other", "titled"}, titles' = Remembered(c, w),
             w = IF sd[p].what = "other" THEN "other" ELSE "titled"
      PROVE  ThumbInv'
  <2>1. titles' \subseteq TitleEntries /\ Dated' /\ CacheIsTrue'
    BY <1>0, <1>1, <1>3, RememberedOk
  <2> QED
    BY <1>0, <2>1
       DEF ThumbInv, ThumbTypes, FindOk, ListedWell, Tries, HasHit, Unchanged, Candidate, Newest
<1> QED
  BY <1>2, <1>3 DEF OtherFetch

LEMMA ThumbStepInv == ThumbInv /\ [ThumbNext]_thumbVars => ThumbInv'
<1> SUFFICES ASSUME ThumbInv, [ThumbNext]_thumbVars PROVE ThumbInv'
  OBVIOUS
<1>1. ASSUME NEW f \in Finders, TitleStep(f) PROVE ThumbInv'
  <2>1. CASE LookUp(f)
    BY <2>1, LookUpOk
  <2>2. ASSUME NEW r, TitleAnswer(f, r) \/ TitleUnanswered(f, r) \/ PlatesAnswer(f, r)
        PROVE  ThumbInv'
    BY <2>2, TitleAnswerOk, TitleUnansweredOk, PlatesAnswerOk
  <2> QED
    BY <1>1, <2>1, <2>2 DEF TitleStep
<1>3. ASSUME NEW f \in Finders, FilesAnswered(f) PROVE ThumbInv'
  BY <1>3, ListsOk, TileAnswerOk DEF FilesAnswered, ImagesCame
<1>2. CASE UNCHANGED thumbVars
  <2>1. UNCHANGED <<now, sd, titles>> /\ UNCHANGED find
    BY <1>2 DEF thumbVars
  <2>2. ThumbTypes' /\ Dated' /\ CacheIsTrue'
    BY <2>1, CacheRests DEF ThumbInv, ThumbTypes
  <2>3. \A f \in Finders : FindOk(f)'
    BY <2>1 DEF ThumbInv, FindOk, ListedWell, Tries, HasHit, Unchanged, Candidate, Newest
  <2> QED
    BY <2>2, <2>3 DEF ThumbInv
<1> QED
  BY <1>1, <1>2, <1>3, ReplacedOk, BeginsOk, OtherFetchOk DEF ThumbNext

LEMMA MatchFacts == ThumbInv => NewestMatchWins /\ BestPicture
<1> SUFFICES ASSUME ThumbInv, NEW f \in Finders, find[f].pc = "hit"
             PROVE  /\ find[f].img = Min(find[f].came)
                    /\ ~find[f].byName =>
                        /\ Unchanged(Hit(f)) => Hit(f).what = "here"
                        /\ \A c \in find[f].all :
                              c.time > Hit(f).time /\ Unchanged(c) /\ c.what = "here"
                                  => c \in find[f].passed
  BY DEF NewestMatchWins, BestPicture
<1>1. FindOk(f)
  BY DEF ThumbInv
<1>2. PICK h \in find[f].all :
         /\ h.path = find[f].hit
         /\ ~find[f].byName =>
               /\ Unchanged(h) => h.what = "here"
               /\ \A c \in find[f].all :
                     c.time > h.time /\ Unchanged(c) /\ c.what = "here" => c \in find[f].passed
  BY <1>1 DEF FindOk, HasHit
<1>3. Hit(f) = h
  BY <1>1, <1>2 DEF FindOk, ListedWell, Hit
<1> QED
  BY <1>1, <1>2, <1>3 DEF FindOk, HasHit

\* Only a silence of the title's own file makes it untitled, and only while it is not known.
LEMMA SilenceFacts ==
    ASSUME ThumbInv, [ThumbNext]_thumbVars, timedOut' # timedOut,
           NEW e \in titles, e.what # "untitled", NEW n \in titles', TitleKey(n) = TitleKey(e)
    PROVE  n.what # "untitled"
<1>1. CASE n \in titles
  BY <1>1 DEF ThumbInv, Dated
<1>2. CASE n \notin titles
  <2>1. ASSUME NEW f \in Finders, NEW r, TitleUnanswered(f, r) PROVE FALSE
    <3>1. PICK c : c = Candidate(f)
      OBVIOUS
    <3>2. titles' = Remembered(c, "untitled") /\ ~ReadMeanwhile(c)
      BY <1>2, <2>1, <3>1 DEF TitleUnanswered
    <3>3. TitleKey(n) = TitleKey(c)
      BY <1>2, <3>2 DEF Remembered, TitleKey
    <3>4. SameFile(e, c)
      BY <3>3 DEF TitleKey, SameFile
    <3> QED
      BY <3>2, <3>4 DEF ReadMeanwhile, KnownTitles
  <2>2. ASSUME NEW p \in Models, OtherFetch(p) PROVE FALSE
    BY <1>2, <2>2 DEF OtherFetch
  <2>3. ASSUME NEW f \in Finders, NEW ok, NEW names, FetchLists(f, ok, names) PROVE FALSE
    BY <1>2, <2>3 DEF FetchLists
  <2>4. ASSUME NEW f \in Finders, NEW r, LookUp(f) \/ TitleAnswer(f, r) \/ PlatesAnswer(f, r)
        PROVE  FALSE
    BY <2>4 DEF LookUp, TitleAnswer, PlatesAnswer
  <2>5. ASSUME NEW f \in Finders, NEW frames, TileAnswer(f, frames) PROVE FALSE
    BY <2>5 DEF TileAnswer
  <2>6. ASSUME NEW p, NEW k, ModelReplaced(p, k) PROVE FALSE
    BY <2>6 DEF ModelReplaced
  <2>7. ASSUME NEW f \in Finders, FetchBegins(f) PROVE FALSE
    BY <2>7 DEF FetchBegins
  <2>8. ~UNCHANGED thumbVars
    BY DEF thumbVars
  <2> QED
    BY <2>1, <2>2, <2>3, <2>4, <2>5, <2>6, <2>7, <2>8 DEF ThumbNext, TitleStep, FilesAnswered
<1> QED
  BY <1>1, <1>2

(* The safety part of ModelSound: for any files, any number of fetches and writes between
   their steps, the picture shown is of the newest file, of those a fetch considers, with the print's title
   and plate that the printer lets be read, and the best of that file; the cache is true of every
   file that has not changed, and a title that was read outlives another fetch's silence
   (tunnel_upload.cpp). *)
THEOREM ModelFound ==
    Spec => []NewestMatchWins /\ []BestPicture /\ []CacheIsTrue /\ TitleKept
<1>1. Init => ThumbInv
  BY ThumbInitInv DEF Init
<1>2. ThumbInv /\ [Next]_services => ThumbInv'
  BY ThumbStepInv, ServiceSteps
<1>3. ThumbInv => NewestMatchWins /\ BestPicture /\ CacheIsTrue
  BY MatchFacts DEF ThumbInv
<1>4. ThumbInv /\ [Next]_services
        => [\A e \in titles : e.what # "untitled" /\ timedOut' # timedOut =>
               ~\E n \in titles' : TitleKey(n) = TitleKey(e) /\ n.what = "untitled"]_thumbVars
  BY SilenceFacts, ServiceSteps
<1>5. Spec => []ThumbInv /\ [][Next]_services
  BY <1>1, <1>2, PTL DEF Spec
<1> QED
  BY <1>3, <1>4, <1>5, PTL DEF TitleKept
=============================================================================
