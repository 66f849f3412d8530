----------------------------- MODULE SignedSend -----------------------------
(***************************************************************************)
(* Signed print commands: the shared app-cert material on disk and in      *)
(* signing.cpp's cache, the threads that refresh it (update_cert), the     *)
(* app_cert_install handshake with the printer, senders that wait for it,  *)
(* and the rescue of a cloud job the printer rejected as unsigned.         *)
(*                                                                         *)
(* Threads: Senders (send_message / cloud_send_message callers and the     *)
(* rescue's detached threads), Workers (detached update_cert threads of    *)
(* ensure_app_cert_material_), Direct (the slicer's own update_cert) and   *)
(* the MQTT loops, one per leg, whose handlers are single steps.           *)
(***************************************************************************)
EXTENDS Naturals

CONSTANTS
    Devs,        \* printers
    Senders, Workers, Direct,   \* threads
    Tasks,       \* task_id values of cloud jobs
    NoTask,      \* a command without task_id
    Legs,        \* MQTT sessions that deliver the printer's reports
    MaxVersion,  \* bound: different certificates the server issues
    Events       \* which inputs occur, see EventNames

EventNames == {"refresh", "writefail", "loss", "rescue"}

ASSUME SignedAssumption ==
    /\ MaxVersion \in Nat \ {0}
    /\ Events \subseteq EventNames
    /\ NoTask \notin Tasks
    /\ Direct \notin Workers

Fetchers == Workers \cup {Direct}
Versions == 0..MaxVersion     \* 0: no certificate, no key
Cached == Versions \cup {MaxVersion + 1}
NotLoaded == MaxVersion + 1   \* g_key_loaded = false

VARIABLES
    certDisk, keyDisk,   \* slicer_cert.pem (with its CRL), slicer_key.pem
    keyCache,            \* g_cached_key
    inflight, backoff,   \* app_cert_fetch_inflight_; retry_at_ in the future
    fpc, fver,           \* fetchers: position, version fetched, 0: failed
    latch,               \* Agent::app_cert_install_sent_
    flagged,             \* Agent::sec_new_auth_by_dev_
    req, acks,           \* app_cert_install requests and answers under way
    installed,           \* the certificate the printer trusts
    pc, dev, task,       \* senders: position and arguments
    lan,                 \* the attempt over LAN; FALSE: cloud_send_message
    sig,                 \* key version in the envelope, 0: unsigned
    rescued,             \* Agent::rescued_tasks_
    echoes,              \* rejected project_file frames under way
    resends              \* history: rescues started per task

diskVars   == <<certDisk, keyDisk, keyCache>>
fetchVars  == <<inflight, backoff, fpc, fver>>
devVars    == <<latch, flagged, req, acks, installed>>
sendVars   == <<pc, dev, task, lan, sig>>
rescueVars == <<rescued, echoes, resends>>
vars == <<diskVars, fetchVars, devVars, sendVars, rescueVars>>

FetchPcs == {"idle", "get", "cert", "key", "cache", "flag", "latches"}
SendPcs == {"idle", "begin", "poll", "ack", "wait", "sign", "publish"}
Jobs == Tasks \cup {NoTask}

TypeOK ==
    /\ certDisk \in Versions /\ keyDisk \in Versions /\ keyCache \in Cached
    /\ inflight \in BOOLEAN /\ backoff \in BOOLEAN
    /\ fpc \in [Fetchers -> FetchPcs]
    /\ fver \in [Fetchers -> Versions]
    /\ latch \subseteq Devs /\ flagged \subseteq Devs
    /\ req \in [Devs -> SUBSET Versions]
    /\ acks \in [Devs -> SUBSET Versions]
    /\ installed \in [Devs -> Versions]
    /\ pc \in [Senders -> SendPcs]
    /\ dev \in [Senders -> Devs]
    /\ task \in [Senders -> Jobs]
    /\ lan \in [Senders -> BOOLEAN]
    /\ sig \in [Senders -> Versions]
    /\ rescued \subseteq Tasks
    /\ echoes \subseteq Legs \X Devs \X Jobs
    /\ resends \in [Tasks -> 0..2]

\* Either nothing was provisioned yet or a matching pair from an earlier run.
Init ==
    /\ certDisk \in {0, 1} /\ keyDisk = certDisk
    /\ keyCache = NotLoaded
    /\ inflight = FALSE /\ backoff = FALSE
    /\ fpc = [f \in Fetchers |-> "idle"]
    /\ fver = [f \in Fetchers |-> 0]
    /\ latch = {} /\ flagged = {}
    /\ req = [d \in Devs |-> {}]
    /\ acks = [d \in Devs |-> {}]
    /\ installed = [d \in Devs |-> 0]
    /\ pc = [s \in Senders |-> "idle"]
    /\ dev \in [Senders -> Devs]
    /\ task = [s \in Senders |-> NoTask]
    /\ lan = [s \in Senders |-> FALSE]
    /\ sig = [s \in Senders |-> 0]
    /\ rescued = {} /\ echoes = {}
    /\ resends = [k \in Tasks |-> 0]

\* slicer_pkey(): the cached key, loaded on first use; a failed load is cached.
Key == IF keyCache = NotLoaded THEN keyDisk ELSE keyCache

\* slicer_app_cert_usable() and material_consistent() read the files.
Usable == certDisk # 0
Consistent == certDisk = 0 \/ keyDisk = 0 \/ certDisk = keyDisk
MaterialReady == Key # 0 /\ Usable /\ Consistent

---------------------------------------------------------------------------
(* Fetching the material *)

\* ensure_app_cert_material_ as a part of another action: start a worker unless
\* one is in flight or the 60 s backoff runs.
EnsureMaterial ==
    IF inflight \/ backoff
    THEN UNCHANGED fetchVars
    ELSE \E w \in Workers :
            /\ fpc[w] = "idle"
            /\ fpc' = [fpc EXCEPT ![w] = "get"]
            /\ inflight' = TRUE
            /\ backoff' = TRUE
            /\ UNCHANGED fver

\* bambu_network_update_cert on the slicer's thread.
DirectUpdate ==
    /\ "refresh" \in Events /\ fpc[Direct] = "idle"
    /\ fpc' = [fpc EXCEPT ![Direct] = "get"]
    /\ UNCHANGED <<diskVars, inflight, backoff, fver, devVars, sendVars,
                   rescueVars>>

\* The 60 s pass.  By then the worker that set them has ended: its one HTTP
\* request is limited to 30 s (http_client.hpp timeout_s).
BackoffEnds ==
    /\ backoff /\ \A w \in Workers : fpc[w] = "idle"
    /\ backoff' = FALSE
    /\ UNCHANGED <<diskVars, inflight, fpc, fver, devVars, sendVars, rescueVars>>

\* fetch_and_store: the HTTP request, decoded and cross-checked.  The server may
\* have replaced the shared certificate since the last time.
FetchGet(f) ==
    /\ fpc[f] = "get"
    /\ \E v \in Versions \ {0} : fver' = [fver EXCEPT ![f] = v]
    /\ fpc' = [fpc EXCEPT ![f] = "cert"]
    /\ UNCHANGED <<diskVars, inflight, backoff, devVars, sendVars, rescueVars>>

\* Any step of fetch_and_store may fail: network, server, disk.
FetchFails(f) ==
    /\ \/ fpc[f] = "get"
       \/ "writefail" \in Events /\ fpc[f] \in {"cert", "key"}
    /\ fver' = [fver EXCEPT ![f] = 0]
    /\ fpc' = [fpc EXCEPT ![f] = "flag"]
    /\ UNCHANGED <<diskVars, inflight, backoff, devVars, sendVars, rescueVars>>

\* Certificate and CRL first ...
FetchCert(f) ==
    /\ fpc[f] = "cert"
    /\ certDisk' = fver[f]
    /\ fpc' = [fpc EXCEPT ![f] = "key"]
    /\ UNCHANGED <<keyDisk, keyCache, inflight, backoff, fver,
                   devVars, sendVars, rescueVars>>

\* ... the key last ...
FetchKey(f) ==
    /\ fpc[f] = "key"
    /\ keyDisk' = fver[f]
    /\ fpc' = [fpc EXCEPT ![f] = "cache"]
    /\ UNCHANGED <<certDisk, keyCache, inflight, backoff, fver,
                   devVars, sendVars, rescueVars>>

\* ... then signing::invalidate_cache().
FetchCache(f) ==
    /\ fpc[f] = "cache"
    /\ keyCache' = NotLoaded
    /\ fpc' = [fpc EXCEPT ![f] = "flag"]
    /\ UNCHANGED <<certDisk, keyDisk, inflight, backoff, fver,
                   devVars, sendVars, rescueVars>>

\* Mutant: the flag is reset only after a successful fetch.
FetchFlagOnSuccess(f) ==
    /\ fpc[f] = "flag"
    /\ inflight' = (inflight /\ fver[f] = 0)
    /\ fpc' = [fpc EXCEPT ![f] = IF fver[f] # 0 THEN "latches" ELSE "idle"]
    /\ UNCHANGED <<diskVars, backoff, fver, devVars, sendVars, rescueVars>>

\* update_cert after fetch_and_store: app_cert_fetch_inflight_ = false,
\* whoever set it.
FetchFlag(f) ==
    /\ fpc[f] = "flag"
    /\ inflight' = FALSE
    /\ fpc' = [fpc EXCEPT ![f] = IF fver[f] # 0 THEN "latches" ELSE "idle"]
    /\ UNCHANGED <<diskVars, backoff, fver, devVars, sendVars, rescueVars>>

\* After a success app_cert_install_sent_.clear() forces a new install.
FetchLatches(f) ==
    /\ fpc[f] = "latches"
    /\ latch' = {}
    /\ fpc' = [fpc EXCEPT ![f] = "idle"]
    /\ fver' = [fver EXCEPT ![f] = 0]
    /\ UNCHANGED <<diskVars, inflight, backoff, flagged, req, acks,
                   installed, sendVars, rescueVars>>

FetchStep(f) ==
    \/ FetchGet(f) \/ FetchFails(f) \/ FetchCert(f) \/ FetchKey(f)
    \/ FetchCache(f) \/ FetchFlag(f) \/ FetchLatches(f)

---------------------------------------------------------------------------
(* The app_cert_install handshake *)

\* request_app_cert_install publishes the certificate that is on disk; the
\* publish may fail or get lost.
Request(d) ==
    \/ req' = [req EXCEPT ![d] = @ \cup {certDisk}]
    \/ "loss" \in Events /\ UNCHANGED req

\* install_device_cert, the slicer's 1 Hz tick.
InstallTick(d) ==
    /\ d \notin latch
    /\ IF Usable THEN Request(d) /\ UNCHANGED fetchVars
       ELSE EnsureMaterial /\ UNCHANGED req
    /\ UNCHANGED <<diskVars, latch, flagged, acks, installed, sendVars, rescueVars>>

\* The printer installs the certificate and answers SUCCESS with printer_cert.
PrinterInstalls(d, v) ==
    /\ v \in req[d]
    /\ req' = [req EXCEPT ![d] = @ \ {v}]
    /\ installed' = [installed EXCEPT ![d] = v]
    /\ acks' = [acks EXCEPT ![d] = @ \cup {v}]
    /\ UNCHANGED <<diskVars, fetchVars, latch, flagged, sendVars, rescueVars>>

\* The printer answers with a failure, or not at all.
PrinterRefuses(d, v) ==
    /\ v \in req[d]
    /\ req' = [req EXCEPT ![d] = @ \ {v}]
    /\ UNCHANGED <<diskVars, fetchVars, latch, flagged, acks, installed, sendVars,
                   rescueVars>>

\* harvest_security_report of the SUCCESS answer: the device certificate is
\* stored, then app_cert_install_sent_ latched and waiters woken.
Harvest(d, v) ==
    /\ v \in acks[d]
    /\ acks' = [acks EXCEPT ![d] = @ \ {v}]
    /\ latch' = latch \cup {d}
    /\ UNCHANGED <<diskVars, fetchVars, flagged, req, installed, sendVars, rescueVars>>

\* The connection is lost or closed, or the subscription deleted: the device's
\* entry in app_cert_install_sent_ is erased.
Unlatch(d) ==
    /\ "loss" \in Events /\ d \in latch
    /\ latch' = latch \ {d}
    /\ UNCHANGED <<diskVars, fetchVars, flagged, req, acks, installed, sendVars,
                   rescueVars>>

\* harvest_security_flags: the first frame with flag3 bit 16 of a device.
HarvestFlags(d) ==
    /\ d \notin flagged
    /\ flagged' = flagged \cup {d}
    /\ keyCache' = Key
    /\ IF MaterialReady THEN UNCHANGED fetchVars ELSE EnsureMaterial
    /\ UNCHANGED <<certDisk, keyDisk, latch, req, acks, installed,
                   sendVars, rescueVars>>

---------------------------------------------------------------------------
(* send_message_to_printer, cloud_send_message *)

\* A thread enters the send path with a print command; send_message tries the
\* LAN session first when it is connected to that printer.
StartSend(s, d, k) ==
    /\ pc' = [pc EXCEPT ![s] = "begin"]
    /\ dev' = [dev EXCEPT ![s] = d]
    /\ task' = [task EXCEPT ![s] = k]
    /\ \E b \in BOOLEAN : lan' = [lan EXCEPT ![s] = b]
    /\ UNCHANGED sig

\* The slicer sends a print command.
BeginSend(s, d) ==
    /\ pc[s] = "idle"
    /\ StartSend(s, d, NoTask)
    /\ UNCHANGED <<diskVars, fetchVars, devVars, rescueVars>>

\* would_sign: with a key the command waits for the ack.  Only without one
\* does the branch that looks at the material start a fetch.
CheckKey(s) ==
    /\ pc[s] = "begin"
    /\ keyCache' = Key
    /\ IF Key # 0
         THEN /\ pc' = [pc EXCEPT ![s] = "ack"]
              /\ UNCHANGED fetchVars
         ELSE /\ pc' = [pc EXCEPT ![s] = "poll"]
              /\ EnsureMaterial
    /\ UNCHANGED <<certDisk, keyDisk, devVars, dev, task, lan,
                   sig, rescueVars>>

\* The poll ends: material ready, no fetch running, or 50 polls made.
PollEnds(s) ==
    /\ pc[s] = "poll"
    /\ keyCache' = Key
    /\ pc' = [pc EXCEPT ![s] = IF MaterialReady THEN "ack" ELSE "sign"]
    /\ UNCHANGED <<certDisk, keyDisk, fetchVars, devVars, dev, task, lan,
                   sig, rescueVars>>

\* Mutant: the latch is set when the request goes out.
AskAckLatches(s) ==
    /\ pc[s] = "ack"
    /\ LET d == dev[s] IN
       IF d \in latch \/ ~Usable
         THEN /\ pc' = [pc EXCEPT ![s] = "sign"]
              /\ UNCHANGED <<req, latch>>
         ELSE /\ pc' = [pc EXCEPT ![s] = "wait"]
              /\ Request(d)
              /\ latch' = latch \cup {d}
    /\ UNCHANGED <<diskVars, fetchVars, flagged, acks, installed, dev, task,
                   lan, sig, rescueVars>>

\* wait_for_app_cert: latched already, nothing to install, or install and wait.
AskAck(s) ==
    /\ pc[s] = "ack"
    /\ LET d == dev[s] IN
       IF d \in latch \/ ~Usable
         THEN /\ pc' = [pc EXCEPT ![s] = "sign"]
              /\ UNCHANGED req
         ELSE /\ pc' = [pc EXCEPT ![s] = "wait"]
              /\ Request(d)
    /\ UNCHANGED <<diskVars, fetchVars, latch, flagged, acks, installed, dev, task,
                   lan, sig, rescueVars>>

\* app_cert_cv_ wakes the sender with the ack latched.
AckArrives(s) ==
    /\ pc[s] = "wait" /\ dev[s] \in latch
    /\ pc' = [pc EXCEPT ![s] = "sign"]
    /\ UNCHANGED <<diskVars, fetchVars, devVars, dev, task, lan, sig,
                   rescueVars>>

\* Mutant: a wait() without time limit.
AckTimeoutNever(s) == FALSE

\* 8 s passed: "signing anyway".
AckTimeout(s) ==
    /\ pc[s] = "wait" /\ dev[s] \notin latch
    /\ pc' = [pc EXCEPT ![s] = "sign"]
    /\ UNCHANGED <<diskVars, fetchVars, devVars, dev, task, lan, sig, rescueVars>>

\* maybe_sign: signs whenever there is a key, whatever was decided before.
Sign(s) ==
    /\ pc[s] = "sign"
    /\ keyCache' = Key
    /\ sig' = [sig EXCEPT ![s] = Key]
    /\ pc' = [pc EXCEPT ![s] = "publish"]
    /\ UNCHANGED <<certDisk, keyDisk, fetchVars, devVars, dev, task, lan,
                   rescueVars>>

\* The publish: lost, or the printer gets it and rejects an unsigned cloud job
\* again, with one echo per leg.
Publish(s) ==
    /\ pc[s] = "publish"
    /\ pc' = [pc EXCEPT ![s] = "idle"]
    /\ task' = [task EXCEPT ![s] = NoTask]
    /\ lan' = [lan EXCEPT ![s] = FALSE]
    /\ sig' = [sig EXCEPT ![s] = 0]
    /\ \/ echoes' = IF sig[s] = 0 /\ task[s] # NoTask
                    THEN echoes \cup (Legs \X {dev[s]} \X {task[s]}) ELSE echoes
       \/ "loss" \in Events /\ UNCHANGED echoes
    /\ UNCHANGED <<diskVars, fetchVars, devVars, dev, rescued, resends>>

\* The LAN publish failed: send_message starts over with cloud_send_message.
FallBack(s) ==
    /\ "loss" \in Events
    /\ pc[s] = "publish" /\ lan[s]
    /\ pc' = [pc EXCEPT ![s] = "begin"]
    /\ lan' = [lan EXCEPT ![s] = FALSE]
    /\ sig' = [sig EXCEPT ![s] = 0]
    /\ UNCHANGED <<diskVars, fetchVars, devVars, dev, task, rescueVars>>

---------------------------------------------------------------------------
(* The rescue of cloud jobs *)

\* The cloud dispatches a new job unsigned; a secured printer rejects it with
\* 84033543 on every leg.
CloudJob(d, k) ==
    /\ "rescue" \in Events /\ k \notin rescued
    /\ echoes' = echoes \cup (Legs \X {d} \X {k})
    /\ UNCHANGED <<diskVars, fetchVars, devVars, sendVars, rescued, resends>>

\* Mutant: the task is looked up but recorded only by whoever sees it next.
RescueUnlatched(l, d, k) ==
    /\ <<l, d, k>> \in echoes
    /\ echoes' = echoes \ {<<l, d, k>>}
    /\ \E s \in Senders : pc[s] = "idle" /\ StartSend(s, d, k)
    /\ rescued' = rescued
    /\ resends' = [resends EXCEPT ![k] = IF @ = 2 THEN 2 ELSE @ + 1]
    /\ UNCHANGED <<diskVars, fetchVars, devVars>>

\* rescue_cloud_project_file with a task_id: the insert into rescued_tasks_
\* decides, then a detached thread sends the job again.
Rescue(l, d, k) ==
    /\ <<l, d, k>> \in echoes
    /\ echoes' = echoes \ {<<l, d, k>>}
    /\ IF k \in rescued
         THEN UNCHANGED <<rescued, resends, sendVars>>
         ELSE /\ \E s \in Senders : pc[s] = "idle" /\ StartSend(s, d, k)
              /\ rescued' = rescued \cup {k}
              /\ resends' = [resends EXCEPT ![k] = IF @ = 2 THEN 2 ELSE @ + 1]
    /\ UNCHANGED <<diskVars, fetchVars, devVars>>

---------------------------------------------------------------------------

SendStep(s) ==
    \/ CheckKey(s) \/ PollEnds(s) \/ AskAck(s) \/ AckArrives(s) \/ AckTimeout(s)
    \/ Sign(s) \/ Publish(s) \/ FallBack(s)

Environment ==
    \/ DirectUpdate \/ BackoffEnds
    \/ \E d \in Devs :
        \/ InstallTick(d) \/ HarvestFlags(d) \/ Unlatch(d)
        \/ \E v \in req[d] : PrinterInstalls(d, v) \/ PrinterRefuses(d, v)
        \/ \E v \in acks[d] : Harvest(d, v)
        \/ \E s \in Senders : BeginSend(s, d)
        \/ \E k \in Tasks : CloudJob(d, k) \/ \E l \in Legs : Rescue(l, d, k)

Next ==
    \/ Environment
    \/ \E f \in Fetchers : FetchStep(f)
    \/ \E s \in Senders : SendStep(s)

Spec == Init /\ [][Next]_vars

\* The sending threads run; nothing is assumed of fetchers, printers or network.
Fairness == \A s \in Senders : WF_vars(SendStep(s))

FairSpec == Spec /\ Fairness

---------------------------------------------------------------------------
(* Properties *)

\* app_cert_install_sent_ is set only for a printer that installed a
\* certificate of ours: a lost or refused install never looks done.
LatchMeansInstalled == \A d \in latch : installed[d] # 0

\* app_cert_fetch_inflight_ set means that a worker which will reset it is
\* running, although every update_cert resets the flag of the others: no fetch
\* that failed keeps later ones from starting.
InflightHasWorker ==
    inflight => \E w \in Workers : fpc[w] \in FetchPcs \ {"idle", "latches"}

\* rescued_tasks_: a rejected job is sent again once, although its echo comes
\* over LAN and cloud, and although the second attempt may be rejected as well.
RescueOnce == \A k \in Tasks : resends[k] <= 1

\* A send returns: neither an offline machine nor a silent printer blocks it.
SendReturns == \A s \in Senders : (pc[s] # "idle") ~> (pc[s] = "idle")
=============================================================================
