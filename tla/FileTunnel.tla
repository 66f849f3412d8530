----------------------------- MODULE FileTunnel -----------------------------
(***************************************************************************)
(* File transfer: the ft_* ABI (abi_ft.cpp) on one tunnel, the connection  *)
(* to the printer's port 6000 that its jobs share (tunnel_upload.cpp) and  *)
(* the framed session on it (tunnel_local.cpp).                            *)
(*                                                                         *)
(* Every ft_tunnel_start_job runs on a detached thread; lan_mu serialises  *)
(* the use of the connection; results are delivered outside lan_mu, and    *)
(* the slicer's result callback may itself call ft_tunnel_shutdown.  The   *)
(* printer answers, answers late, or closes the connection at any time.    *)
(* A file is FSize chunks long; reading a file never fails here.           *)
(***************************************************************************)
EXTENDS Naturals, Sequences, FiniteSets

CONSTANTS
    Jobs, Threads, Slicer, NoJob,
    Kinds,      \* the cmd_types of the jobs that are created
    Urls,       \* the urls the slicer passes to ft_tunnel_create
    FSize,      \* chunks of the file, uploaded or downloaded
    MaxSteps,   \* bound for the 64 handshake steps and the 32 skipped replies
    MaxDials,   \* bound: connections made in a run
    MaxFaults,  \* bound: cancels, exceptions, closes and shutdowns in a run
    Events      \* which inputs occur, see EventNames

AllKinds == {"ability", "upload", "download", "other"}
EventNames == {"cancel", "throw", "restart", "coalesce", "close", "shutdown"}

ASSUME TunnelAssumption ==
    /\ FSize \in Nat /\ MaxSteps \in Nat /\ MaxDials \in Nat
    /\ MaxFaults \in Nat
    /\ Kinds \subseteq AllKinds /\ Events \subseteq EventNames
    /\ Slicer \notin Threads \cup Jobs /\ NoJob \notin Jobs /\ IsFiniteSet(Threads)
    /\ Urls \subseteq {"local", "nohost", "cloud"}

Actors == Threads \cup {Slicer}

VARIABLES
    isLan,              \* FT_Tunnel::is_lan
    mu,                 \* lan_mu: the set of its holder, {} when free
    up,                 \* Connection: ssl and a session that is Ready
    hs,                 \* HandshakePhase of the session being opened
    alive,              \* the peer has not closed this connection
    seqNo, dials,       \* Connection::wire_seq; connections made
    inbox, wire,        \* requests and replies under way
    have,               \* chunks of the file the printer has
    probed,             \* FT_Tunnel::ability_probed
    kind, cancelled, finished, res,  \* FT_Job
    trefs, jrefs,       \* refcounts of the tunnel and the jobs
    owned,              \* the handles whose reference the slicer still holds
    pc, job, seq,       \* actors: position, job, sequence of their command
    off, hashed, tries, \* upload offset, chunks in the digest, loop counter
    got, out,           \* frames a download kept, outcome of a transfer
    starts, results,    \* history: starts of a job, result callbacks
    faults              \* history: cancels, exceptions, closes and shutdowns

connVars == <<up, hs, alive, seqNo, dials>>
wireVars == <<inbox, wire, have>>
jobVars  == <<kind, cancelled, finished, res>>
refVars  == <<trefs, jrefs, owned>>
xferVars == <<seq, off, hashed, tries, got, out>>
histVars == <<starts, results, faults>>
vars == <<isLan, mu, connVars, wireVars, probed, jobVars, refVars, pc, job,
          xferVars, histVars>>

Outcomes == {"none", "ok", "eio", "cancelled"}
Pcs == {"idle", "lock", "hello", "send", "init", "chunk", "final", "frames",
        "answer", "deliver", "callback", "shutdown", "thrown", "release"}
Frames == [seq : Nat, cmd : AllKinds, res : {"ok", "more", "exist", "err"},
           at : 0..FSize + 1]
Requests == [seq : Nat, cmd : AllKinds, at : 0..FSize, md5 : 0..FSize,
             step : {"init", "chunk", "last"}]

TypeOK ==
    /\ isLan \in BOOLEAN
    /\ mu \in SUBSET Actors
    /\ up \in BOOLEAN /\ alive \in BOOLEAN
    /\ hs \in {"NotStarted", "LoginSent", "SetupSent", "Ready"}
    /\ seqNo \in Nat /\ dials \in 0..MaxDials
    /\ inbox \in Seq(Requests) /\ wire \in Seq(Frames)
    /\ have \in 0..FSize /\ probed \in BOOLEAN
    /\ kind \in [Jobs -> AllKinds]
    /\ cancelled \in [Jobs -> BOOLEAN] /\ finished \in [Jobs -> BOOLEAN]
    /\ res \in [Jobs -> Outcomes]
    /\ trefs \in Nat /\ jrefs \in [Jobs -> Nat]
    /\ owned \subseteq Jobs \cup {Slicer}
    /\ pc \in [Actors -> Pcs]
    /\ job \in [Actors -> Jobs \cup {NoJob}]
    /\ seq \in [Actors -> Nat]
    /\ off \in [Actors -> 0..FSize] /\ hashed \in [Actors -> 0..FSize]
    /\ tries \in [Actors -> Nat]
    /\ got \in [Actors -> Seq(Frames)]
    /\ out \in [Actors -> Outcomes]
    /\ starts \in [Jobs -> Nat] /\ results \in [Jobs -> Nat] /\ faults \in 0..MaxFaults

---------------------------------------------------------------------------
(* The slicer's calls *)

\* parse_lan_url accepts a bambu:///local/ url with a host.
ParseLanUrl(url) == url = "local"

\* ft_tunnel_create and ft_job_create.  force_ftps declines the LAN tunnel.
Init ==
    /\ isLan \in {ParseLanUrl(u) /\ ~forceFtps : u \in Urls, forceFtps \in BOOLEAN}
    /\ mu = {}
    /\ up = FALSE /\ hs = "NotStarted" /\ alive = FALSE
    /\ seqNo = 1 /\ dials = 0
    /\ inbox = <<>> /\ wire = <<>> /\ have = 0
    /\ probed = FALSE
    /\ kind \in [Jobs -> Kinds]
    /\ cancelled = [j \in Jobs |-> FALSE] /\ finished = [j \in Jobs |-> FALSE]
    /\ res = [j \in Jobs |-> "none"]
    /\ trefs = 1 /\ jrefs = [j \in Jobs |-> 1]
    /\ owned = Jobs \cup {Slicer}
    /\ pc = [a \in Actors |-> "idle"] /\ job = [a \in Actors |-> NoJob]
    /\ seq = [a \in Actors |-> 0] /\ off = [a \in Actors |-> 0]
    /\ hashed = [a \in Actors |-> 0] /\ tries = [a \in Actors |-> 0]
    /\ got = [a \in Actors |-> <<>>] /\ out = [a \in Actors |-> "none"]
    /\ starts = [j \in Jobs |-> 0] /\ results = [j \in Jobs |-> 0] /\ faults = 0

Goto(a, p) == pc' = [pc EXCEPT ![a] = p]

\* An event of the environment, counted against the bound.
Fault(e) == e \in Events /\ faults < MaxFaults /\ faults' = faults + 1

\* Connection::disconnect
Disconnect ==
    /\ up' = FALSE /\ alive' = FALSE
    /\ hs' = "NotStarted" /\ inbox' = <<>> /\ wire' = <<>>
    /\ UNCHANGED <<seqNo, dials, have>>

\* release(FT_Tunnel*): the last reference deletes the tunnel and its connection.
DropTunnelRef ==
    /\ trefs' = trefs - 1
    /\ IF trefs = 1 THEN Disconnect ELSE UNCHANGED <<connVars, wireVars>>

\* ft_tunnel_start_connect and ft_tunnel_sync_connect on a LAN tunnel; on any
\* other they only report FT_EIO.
StartConnect ==
    /\ isLan /\ Slicer \in owned /\ pc[Slicer] = "idle" /\ dials < MaxDials
    /\ Goto(Slicer, "lock")
    /\ UNCHANGED <<isLan, mu, connVars, wireVars, probed, jobVars, refVars, job,
                   xferVars, histVars>>

\* retain(); a mutant that forgets the reference.
NotRetained(n) == n
Retained(n) == n + 1

\* ft_tunnel_start_job with spawn_job: a detached thread that holds a reference
\* to the tunnel and one to the job.  Nothing refuses a second start.
StartJob(j, t) ==
    /\ {j, Slicer} \subseteq owned /\ pc[Slicer] = "idle"
    /\ starts[j] < (IF "restart" \in Events THEN 2 ELSE 1)
    /\ isLan /\ pc[t] = "idle"
    /\ Goto(t, IF kind[j] = "other" THEN "deliver" ELSE "lock")
    /\ job' = [job EXCEPT ![t] = j]
    /\ out' = [out EXCEPT ![t] = "eio"]
    /\ trefs' = Retained(trefs) /\ jrefs' = [jrefs EXCEPT ![j] = Retained(@)]
    /\ starts' = [starts EXCEPT ![j] = @ + 1]
    /\ UNCHANGED <<isLan, mu, connVars, wireVars, probed, jobVars, owned, seq, off,
                   hashed, tries, got, results, faults>>

\* ft_tunnel_start_job on a tunnel that is not LAN.
StartStub(j) ==
    /\ {j, Slicer} \subseteq owned /\ pc[Slicer] = "idle"
    /\ starts[j] = 0 /\ ~isLan
    /\ finished' = [finished EXCEPT ![j] = TRUE]
    /\ res' = [res EXCEPT ![j] = "eio"]
    /\ starts' = [starts EXCEPT ![j] = 1]
    /\ results' = [results EXCEPT ![j] = 1]
    /\ UNCHANGED <<isLan, mu, connVars, wireVars, probed, kind, cancelled, refVars,
                   pc, job, xferVars, faults>>

\* ft_job_cancel
Cancel(j) ==
    /\ Fault("cancel") /\ j \in owned /\ ~cancelled[j] /\ ~finished[j]
    /\ cancelled' = [cancelled EXCEPT ![j] = TRUE]
    /\ UNCHANGED <<isLan, mu, connVars, wireVars, probed, kind, finished, res,
                   refVars, pc, job, xferVars, starts, results>>

\* ft_job_release
ReleaseJob(j) ==
    /\ j \in owned /\ pc[Slicer] = "idle" /\ starts[j] > 0
    /\ owned' = owned \ {j}
    /\ jrefs' = [jrefs EXCEPT ![j] = @ - 1]
    /\ UNCHANGED <<isLan, mu, connVars, wireVars, probed, jobVars, trefs, pc, job,
                   xferVars, histVars>>

\* ft_tunnel_release
ReleaseTunnel ==
    /\ Slicer \in owned /\ pc[Slicer] = "idle"
    /\ \A j \in Jobs : starts[j] > 0
    /\ owned' = owned \ {Slicer}
    /\ DropTunnelRef
    /\ UNCHANGED <<isLan, mu, probed, jobVars, jrefs, pc, job, xferVars, histVars>>

CallShutdown ==
    /\ Fault("shutdown") /\ Slicer \in owned /\ pc[Slicer] = "idle" /\ up
    /\ Goto(Slicer, "shutdown")
    /\ UNCHANGED <<isLan, mu, connVars, wireVars, probed, jobVars, refVars, job,
                   xferVars, starts, results>>

\* ft_tunnel_shutdown past its wait for lan_mu: from the slicer, or from the
\* result callback on a job's thread.  shut_down itself is never read.
Shutdown(a) ==
    /\ pc[a] = "shutdown" /\ mu = {}
    /\ Disconnect
    /\ Goto(a, IF a = Slicer THEN "idle" ELSE "release")
    /\ UNCHANGED <<isLan, mu, probed, jobVars, refVars, job, xferVars, histVars>>

---------------------------------------------------------------------------
(* Connecting, under lan_mu *)

\* The transfer is over: the outcome is kept and lan_mu released.
End(a, o) ==
    /\ out' = [out EXCEPT ![a] = IF a = Slicer THEN @ ELSE o]
    /\ mu' = {}
    /\ Goto(a, IF a = Slicer THEN "idle" ELSE "deliver")

CachedAbility(a) == a # Slicer /\ kind[job[a]] = "ability" /\ probed

\* The lock is taken and nothing has to be connected: the ability cache answers,
\* or connect_lan_tunnel finds the connection open.
Lock(a) ==
    /\ pc[a] = "lock" /\ mu = {}
    /\ CachedAbility(a) \/ up
    /\ IF CachedAbility(a) \/ a = Slicer
       THEN End(a, "ok")
       ELSE mu' = {a} /\ Goto(a, "send") /\ UNCHANGED out
    /\ UNCHANGED <<isLan, connVars, wireVars, probed, jobVars, refVars, job, seq,
                   off, hashed, tries, got, histVars>>

\* The lock and Connection::connect as far as the TLS dial.
Dial(a) ==
    /\ pc[a] = "lock" /\ mu = {} /\ ~up /\ ~CachedAbility(a) /\ dials < MaxDials
    /\ mu' = {a} /\ Goto(a, "hello")
    /\ up' = FALSE /\ alive' = TRUE /\ hs' = "NotStarted"
    /\ inbox' = <<>> /\ wire' = <<>>
    /\ dials' = dials + 1
    /\ tries' = [tries EXCEPT ![a] = 0]
    /\ UNCHANGED <<isLan, seqNo, have, probed, jobVars, refVars, job, seq, off,
                   hashed, got, out, histVars>>

DialFails(a) ==
    /\ pc[a] = "lock" /\ mu = {} /\ ~up /\ ~CachedAbility(a)
    /\ End(a, "eio")
    /\ Disconnect
    /\ UNCHANGED <<isLan, probed, jobVars, refVars, job, seq, off, hashed, tries,
                   got, histVars>>

\* Session::handshake_step: login, its ack, setup, its answer.  A step that finds
\* nothing useful leaves the phase as it is.
HandshakeStep(a) ==
    /\ pc[a] = "hello" /\ alive /\ tries[a] < MaxSteps
    /\ \E next \in CASE hs = "NotStarted" -> {"LoginSent"}
                      [] hs = "LoginSent"  -> {"LoginSent", "SetupSent"}
                      [] OTHER             -> {"SetupSent", "Ready"} :
         /\ hs' = next
         /\ up' = (next = "Ready")
         /\ IF next # "Ready" THEN UNCHANGED <<mu, pc, out>>
            ELSE IF a = Slicer THEN End(a, "ok")
            ELSE Goto(a, "send") /\ UNCHANGED <<mu, out>>
    /\ tries' = [tries EXCEPT ![a] = IF hs' = "Ready" THEN 0 ELSE @ + 1]
    /\ UNCHANGED <<isLan, alive, seqNo, dials, wireVars, probed, jobVars,
                   refVars, job, seq, off, hashed, got, histVars>>

\* The peer closed, or all attempts of Connection::connect are used up.
HandshakeFails(a) ==
    /\ pc[a] = "hello" /\ (~alive \/ tries[a] = MaxSteps)
    /\ End(a, "eio")
    /\ Disconnect
    /\ tries' = [tries EXCEPT ![a] = 0]
    /\ UNCHANGED <<isLan, probed, jobVars, refVars, job, seq, off, hashed, got,
                   histVars>>

---------------------------------------------------------------------------
(* Transfers, under lan_mu *)

Kind(a) == kind[job[a]]

\* Connection::upload, download and query_media_ability: take a sequence number
\* and send the command.  drain_stale_wire_json finds nothing: recv_payload
\* leaves no complete frame in the buffer.
Send(a) ==
    /\ pc[a] = "send" /\ alive
    /\ seq' = [seq EXCEPT ![a] = seqNo] /\ seqNo' = seqNo + 1
    /\ inbox' = Append(inbox, [seq |-> seqNo, cmd |-> Kind(a), at |-> 0, md5 |-> 0,
                               step |-> "init"])
    /\ got' = [got EXCEPT ![a] = <<>>]
    /\ Goto(a, CASE Kind(a) = "upload"   -> "init"
                 [] Kind(a) = "download" -> "frames"
                 [] OTHER                -> "answer")
    /\ UNCHANGED <<isLan, mu, up, hs, alive, dials, wire, have, probed,
                   jobVars, refVars, job, off, hashed, tries, out, histVars>>

\* The send fails on a closed connection, or the request is incomplete or its
\* file cannot be opened.
SendFails(a) ==
    /\ pc[a] = "send"
    /\ End(a, "eio")
    /\ seqNo' = seqNo + 1
    /\ UNCHANGED <<isLan, up, hs, alive, dials, wireVars, probed, jobVars,
                   refVars, job, seq, off, hashed, tries, got, histVars>>

\* recv_payload: the first frame of the batch one read completed is returned; the
\* others of that batch are consumed with it.
Read(f) ==
    \E n \in 1..(IF "coalesce" \in Events THEN Len(wire) ELSE 1) :
        /\ wire # <<>> /\ f = Head(wire)
        /\ wire' = SubSeq(wire, n + 1, Len(wire))

\* try_accept; a mutant that takes any reply.
AnyReply(a, f) == TRUE
Mine(a, f) == f.cmd = Kind(a) /\ f.seq = seq[a]

\* recv_wire_json meets a reply to another command: it looks further, or gives
\* up with the last of its 32 attempts.
SkipStale(a) ==
    /\ pc[a] \in {"init", "final"} /\ wire # <<>>
    /\ \E f \in {Head(wire)} : Read(f) /\ ~Mine(a, f)
    /\ End(a, "eio") \/ UNCHANGED <<mu, pc, out>>
    /\ UNCHANGED <<isLan, connVars, inbox, have, probed, jobVars, refVars, job, seq,
                   off, hashed, tries, got, histVars>>

\* The chunk loop runs while offset < fsize: no chunk when the printer has it all.
AfterChunk(offset) == IF offset < FSize THEN "chunk" ELSE "final"

\* The prefix the printer has goes into the digest.
PrefixHashed(at) == at

\* run_chunked_upload, the init reply: parse_upload_init_reply wants CONTINUE or
\* FILE_EXIST; the part the printer has is hashed and skipped.
InitReply(a) ==
    /\ pc[a] = "init" /\ wire # <<>>
    /\ \E f \in {Head(wire)} :
         /\ Read(f) /\ Mine(a, f)
         /\ IF f.res \in {"more", "exist"} /\ f.at <= FSize
            THEN /\ off' = [off EXCEPT ![a] = f.at]
                 /\ hashed' = [hashed EXCEPT ![a] = PrefixHashed(f.at)]
                 /\ Goto(a, AfterChunk(f.at))
                 /\ UNCHANGED <<mu, out>>
            ELSE End(a, "eio") /\ UNCHANGED <<off, hashed>>
    /\ UNCHANGED <<isLan, connVars, inbox, have, probed, jobVars, refVars, job, seq,
                   tries, got, histVars>>

\* One turn of the chunk loop: the cancel check, the read, the digest on the last
\* chunk, the frame.
SendChunk(a) ==
    /\ pc[a] = "chunk" /\ ~cancelled[job[a]] /\ alive
    /\ LET last == off[a] + 1 >= FSize
       IN inbox' = Append(inbox, [seq |-> seq[a], cmd |-> "upload", at |-> off[a],
                                  md5 |-> IF last THEN hashed[a] + 1 ELSE 0,
                                  step |-> IF last THEN "last" ELSE "chunk"])
    /\ off' = [off EXCEPT ![a] = @ + 1]
    /\ hashed' = [hashed EXCEPT ![a] = @ + 1]
    /\ Goto(a, AfterChunk(off[a] + 1))
    /\ UNCHANGED <<isLan, mu, connVars, wire, have, probed, jobVars, refVars, job,
                   seq, tries, got, out, histVars>>

\* The cancel checks of the chunk loop and of the download loop.  The connection
\* stays open with the transfer unfinished.
Cancelled(a) ==
    /\ pc[a] \in {"chunk", "frames"} /\ cancelled[job[a]]
    /\ End(a, "cancelled")
    /\ UNCHANGED <<isLan, connVars, wireVars, probed, jobVars, refVars, job, seq,
                   off, hashed, tries, got, histVars>>

\* The final replies: CONTINUE is read over, 32 times at most.
FinalReply(a) ==
    /\ pc[a] = "final" /\ wire # <<>>
    /\ \E f \in {Head(wire)} :
         /\ Read(f) /\ Mine(a, f)
         /\ CASE f.res = "more"           -> End(a, "eio") \/ UNCHANGED <<mu, pc, out>>
              [] f.res \in {"ok", "exist"} -> End(a, "ok")
              [] OTHER                     -> End(a, "eio")
    /\ UNCHANGED <<isLan, connVars, inbox, have, probed, jobVars, refVars, job, seq,
                   off, hashed, tries, got, histVars>>

\* run_download: every frame that arrives is taken for one of this download.
DownloadFrame(a) ==
    /\ pc[a] = "frames" /\ ~cancelled[job[a]] /\ wire # <<>>
    /\ \E f \in {Head(wire)} :
         /\ Read(f)
         /\ got' = [got EXCEPT ![a] = Append(@, f)]
         /\ CASE f.res = "more" -> UNCHANGED <<mu, pc, out>>
              [] f.res = "ok"   -> End(a, "ok")
              [] OTHER          -> End(a, "eio")
    /\ UNCHANGED <<isLan, connVars, inbox, have, probed, jobVars, refVars, job, seq,
                   off, hashed, tries, histVars>>

\* query_media_ability takes the next frame; one without a storage list is an
\* error.  run_ability_job keeps a good answer.
AbilityReply(a) ==
    /\ pc[a] = "answer" /\ wire # <<>>
    /\ \E f \in {Head(wire)} :
         /\ Read(f)
         /\ LET good == f.cmd = "ability" /\ f.res = "ok"
            IN /\ probed' = (probed \/ good)
               /\ End(a, IF good THEN "ok" ELSE "eio")
    /\ UNCHANGED <<isLan, connVars, inbox, have, jobVars, refVars, job, seq, off,
                   hashed, tries, got, histVars>>

\* A read or a chunk's write meets a closed connection.
PeerGone(a) ==
    /\ pc[a] \in {"init", "chunk", "final", "frames", "answer"}
    /\ ~alive /\ (wire = <<>> \/ pc[a] = "chunk")
    /\ End(a, "eio")
    /\ UNCHANGED <<isLan, connVars, wireVars, probed, jobVars, refVars, job, seq,
                   off, hashed, tries, got, histVars>>

---------------------------------------------------------------------------
(* Results *)

\* deliver_result: finished and the result are set, then the callback is called.
Deliver(a) ==
    /\ pc[a] = "deliver"
    /\ finished' = [finished EXCEPT ![job[a]] = TRUE]
    /\ res' = [res EXCEPT ![job[a]] = out[a]]
    /\ results' = [results EXCEPT ![job[a]] = @ + 1]
    /\ Goto(a, "callback")
    /\ UNCHANGED <<isLan, mu, connVars, wireVars, probed, kind, cancelled, refVars,
                   job, xferVars, starts, faults>>

\* The slicer's code in the callback may shut the tunnel down.
CallbackReturns(a) ==
    /\ pc[a] = "callback"
    /\ \/ Goto(a, "release") /\ UNCHANGED faults
       \/ Fault("shutdown") /\ Slicer \in owned /\ Goto(a, "shutdown")
    /\ UNCHANGED <<isLan, mu, connVars, wireVars, probed, jobVars, refVars, job,
                   xferVars, starts, results>>

\* An exception leaves the job's body; unwinding releases lan_mu.
Throw(a) ==
    /\ Fault("throw") /\ a \in Threads
    /\ pc[a] \in {"send", "init", "chunk", "final", "frames", "answer", "callback"}
    /\ Goto(a, "thrown")
    /\ mu' = mu \ {a}
    /\ out' = [out EXCEPT ![a] = "eio"]
    /\ UNCHANGED <<isLan, up, hs, alive, seqNo, dials, wireVars, probed, jobVars,
                   refVars, job, seq, off, hashed, tries, got, starts, results>>

\* After an exception: no second result.
AfterException(a) == IF finished[job[a]] THEN "release" ELSE "deliver"

\* fail_job_after_exception: the connection is dropped under lan_mu, and the job
\* reports FT_EIO unless it already reported.
FailJob(a) ==
    /\ pc[a] = "thrown" /\ mu = {}
    /\ Disconnect
    /\ Goto(a, AfterException(a))
    /\ UNCHANGED <<isLan, mu, probed, jobVars, refVars, job, xferVars, histVars>>

\* The thread drops its references and ends.
Release(a) ==
    /\ pc[a] = "release"
    /\ Goto(a, "idle")
    /\ job' = [job EXCEPT ![a] = NoJob]
    /\ jrefs' = [jrefs EXCEPT ![job[a]] = @ - 1]
    /\ DropTunnelRef
    /\ seq' = [seq EXCEPT ![a] = 0] /\ off' = [off EXCEPT ![a] = 0]
    /\ hashed' = [hashed EXCEPT ![a] = 0] /\ tries' = [tries EXCEPT ![a] = 0]
    /\ got' = [got EXCEPT ![a] = <<>>] /\ out' = [out EXCEPT ![a] = "none"]
    /\ UNCHANGED <<isLan, mu, probed, jobVars, owned, histVars>>

---------------------------------------------------------------------------
(* The printer *)

Reply(r, result, at) == [seq |-> r.seq, cmd |-> r.cmd, res |-> result, at |-> at]

\* What the printer may answer to a request; it sends nothing to some chunks.
Answers(r) ==
    CASE r.cmd = "ability"  -> {<<Reply(r, "ok", 0)>>, <<Reply(r, "err", 0)>>}
      [] r.cmd = "download" ->
            {[i \in 1..FSize |-> Reply(r, IF i = FSize THEN "ok" ELSE "more", i)],
             <<Reply(r, "err", 0)>>}
      [] r.cmd = "upload" /\ r.step = "init" ->
            {<<Reply(r, "err", 0)>>, <<Reply(r, "more", FSize + 1)>>}
            \cup (IF have < FSize THEN {<<Reply(r, "more", have)>>}
                  ELSE {<<Reply(r, "exist", have)>>,
                        <<Reply(r, "exist", have), Reply(r, "ok", have)>>})
      [] r.cmd = "upload" /\ r.step = "chunk" -> {<<>>, <<Reply(r, "more", r.at)>>}
      [] OTHER              ->
            {<<Reply(r, IF r.at = have /\ r.md5 = FSize THEN "ok" ELSE "err", r.at)>>}

\* The printer handles the next request.  A chunk that continues the file extends
\* it; a wrong digest discards it.
PrinterServes ==
    /\ alive /\ inbox # <<>>
    /\ LET r == Head(inbox)
       IN /\ inbox' = Tail(inbox)
          /\ \E fs \in Answers(r) : wire' = wire \o fs
          /\ have' = IF r.step = "init" \/ r.at # have THEN have
                     ELSE IF r.step = "chunk" THEN have + 1
                     ELSE IF r.md5 = FSize THEN FSize ELSE 0
    /\ UNCHANGED <<isLan, mu, connVars, probed, jobVars, refVars, pc, job, xferVars,
                   histVars>>

\* The connection closes; replies under way may or may not still be read.  Closing
\* a silent connection does not count against the bound.
PrinterCloses ==
    /\ alive
    /\ IF inbox = <<>> /\ wire = <<>> /\ mu # {} THEN UNCHANGED faults ELSE Fault("close")
    /\ alive' = FALSE /\ inbox' = <<>> /\ wire' \in {wire, <<>>}
    /\ UNCHANGED <<isLan, mu, up, hs, seqNo, dials, have, probed, jobVars,
                   refVars, pc, job, xferVars, starts, results>>

Work(a) ==
    \/ Lock(a) \/ Dial(a) \/ DialFails(a) \/ HandshakeStep(a) \/ HandshakeFails(a)
    \/ Send(a) \/ SendFails(a) \/ SkipStale(a) \/ InitReply(a) \/ SendChunk(a)
    \/ Cancelled(a) \/ FinalReply(a) \/ DownloadFrame(a) \/ AbilityReply(a)
    \/ PeerGone(a) \/ Deliver(a) \/ CallbackReturns(a) \/ FailJob(a) \/ Release(a)
    \/ Shutdown(a)

\* No call and no thread is under way: the slicer may leave it at that.
Quiet == (\A a \in Actors : pc[a] = "idle") /\ UNCHANGED vars

Next ==
    \/ StartConnect \/ CallShutdown \/ ReleaseTunnel
    \/ \E j \in Jobs : StartStub(j) \/ Cancel(j) \/ ReleaseJob(j)
    \/ \E j \in Jobs, t \in Threads : StartJob(j, t)
    \/ \E a \in Actors : Work(a) \/ Throw(a)
    \/ PrinterServes \/ PrinterCloses \/ Quiet

Spec == Init /\ [][Next]_vars

---------------------------------------------------------------------------
(* Properties *)

\* A job's thread never outlives what it points to: while it runs, neither the
\* job nor the tunnel has been deleted, whatever the slicer released meanwhile
\* (spawn_job's retain, release at its end).
NoUseAfterFree ==
    \A a \in Threads : pc[a] # "idle" => trefs > 0 /\ jrefs[job[a]] > 0

\* And the counts are exact: once all threads ended and the slicer let go, both
\* are deleted.
NoLeak ==
    (\A a \in Threads : pc[a] = "idle") =>
        /\ trefs = (IF Slicer \in owned THEN 1 ELSE 0)
        /\ \A j \in Jobs : jrefs[j] = (IF j \in owned THEN 1 ELSE 0)

\* A start of a job is answered by at most one result callback, also when the body
\* throws after it reported (fail_job_after_exception).
OneResultPerStart == \A j \in Jobs : results[j] <= starts[j]

\* The digest that goes out with the last chunk covers the whole file, the resumed
\* prefix included.
DigestCoversFile ==
    \A i \in 1..Len(inbox) :
        inbox[i].step = "last" => inbox[i].md5 = FSize /\ inbox[i].at + 1 = FSize

\* An upload reports success only when the printer has the whole file: replies of
\* cancelled or abandoned transfers on the shared connection are not taken for it.
UploadOkMeansStored ==
    \A a \in Threads :
        pc[a] = "deliver" /\ out[a] = "ok" /\ Kind(a) = "upload" => have = FSize

\* Handles live exactly as long as somebody uses them, and a start is answered once,
\* whatever the slicer releases and whichever body throws (abi_ft.cpp).
HandlesSound == TypeOK /\ NoUseAfterFree /\ NoLeak /\ OneResultPerStart

\* An upload is whole: success means stored, and the digest covers what was resumed
\* (tunnel_upload.cpp).
UploadIsWhole == DigestCoversFile /\ UploadOkMeansStored
=============================================================================
