# TLA+ models of open-bamboo-networking

open-bamboo-networking is a network plugin for Bambu Studio and OrcaSlicer. The
slicer loads it as a shared library and calls its C ABI; the plugin keeps MQTT
sessions to a printer (LAN) and to Bambu Cloud, signs print commands, uploads
files, finds printers with SSDP, keeps a login and a few files, and opens camera
streams through a second library (`stubs/`). Much of its state lives in one
`Agent` object that many threads use: the slicer's UI and HTTP threads, one
libmosquitto loop thread per session, timers, a watchdog, detached workers.

This directory models the parts of the program that keep state or run
concurrently, checks them with TLC on small instances, and proves most of the
safety properties with TLAPS for every value of the constants.
Paths are relative to the repository; in `PROJECT.json` they start with `src/`.

## 1. Inventory

| Component | State | Operations | Talks to | Hard part | What makes it correct |
|---|---|---|---|---|---|
| LAN session (`agent.cpp`, `lan_session.cpp`, `mqtt_client.cpp`) | `lan_session_`, `deferred_dc_*`, `lan_autostart_inflight_`, `app_cert_install_sent_` | connect/disconnect_printer, ensure_lan_session, autostart, ~Agent | libmosquitto and slicer callbacks | sessions move between threads outside the lock; joins of threads that call back | one owner per session; the timer closes only what it was armed for; calls return; the selected printer wins |
| Cloud session and LAN priority (`cloud_session.cpp`, `agent.cpp`) | `subscribed_`, `active_`, `connected_`, latches, `lan_report_priority_`, watchdog | connect_cloud, add/del_subscribe, reports, failback | broker, slicer callbacks | the wanted set changes around CONNACKs; latches cleared on another thread | the broker holds the wanted topics; every printer is asked and announced; a silent one is failed back |
| Signed commands (`agent.cpp`, `signing.cpp`, `appcert_fetch.cpp`) | PEM files, key cache, fetch flag and backoff, install latch, `rescued_tasks_` | update_cert, install_device_cert, send_message, rescue | cloud API, printer, both MQTT legs | decision, wait and use of the key are separate; lost and refused installs | no send hangs; latch means installed; rescue once |
| File transfer (`abi_ft.cpp`, `tunnel_local.cpp`, `tunnel_upload.cpp`) | ref-counted tunnels and jobs, the connection to port 6000, `lan_mu` | create, connect, start, cancel, shutdown, release; upload, download, list | printer, slicer callbacks | callbacks re-enter; stale and batched replies; resume | one result per start; no use after release; success means stored |
| Print jobs (`abi_print.cpp`, `print_job.cpp`, `cloud_print.cpp`, `ftps.cpp`) | local to a call, staged covers | five entry points, a dozen stages each | FTPS, LAN session, cloud API | cancel at each stage, late FTPS replies, lost answers | cancel wins; what is printed is there; one task per call |
| TUTK camera (`camera/`) | session, sockets, DTLS keys, FEC groups, frame queue | connect, login, receive, leave | printer over LAN or relay | path race; loss, repetition, reordering | one path stays; no broken picture; keys agree |
| BambuSource (`stubs/BambuSource.cpp`, `rtsp_*.cpp`) | tunnel, control worker and queues, RTSP worker and queue | open, start, read, send, close | TLS, RTSP, TUTK, FTPS | fallbacks; close against a blocked read | whole pictures in order; whole files; close returns |
| Hosts of the picture (`stubs/dshow_filter.cpp`, `BambuPlayer.mm`) | graph state, COM references, reader, pump, queue | Load/Pause/Run/Stop; open/play/close | BambuSource, OS frameworks | threads of the framework | stop is quiet; frames move; references exact |
| Camera address (`abi_camera.cpp`, `agent.cpp`) | probe results, prepare/ready | get_camera_url, liveview rescue | cloud, printer | secured firmware, lost commands | every call answered once; video when there is some |
| Stores (`auth.cpp`, `state.cpp`, `config.cpp`, `lan_tls.cpp`, `cert_store.cpp`) | login, machine, settings, address/serial pairs, keys; their files | set, clear, load, repair, dial | disk, environment, second library | crash while saving, two copies, late answers | file is old or new; copies agree; a logout sticks |
| Covers (`cover_cache.cpp`, `cover_server.cpp`, `tunnel_upload.cpp`) | claims, negative cache, files, id table, title cache | ensure, fetch, stage, serve, search | printer, slicer | two writers, reused names, bounded reads | a cover is whole and of its print; requests are answered |
| Discovery and binding (`ssdp.cpp`, `lan_bind_tcp.cpp`, `bind_cloud.cpp`) | socket, worker, `running_`; ticket, deadline, buffer | start, stop; bind, detect | printers, cloud | who closes the socket; pieces of frames | closed once; one ticket; ends |
| Reports (`agent.cpp` `notify_local_message`) | synthetic ids, firmware table | one handler per report | slicer | names that repeat | an id per print; only what obn.conf asks is changed |
| Cloud calls and presets (`abi_http.cpp`, `abi_makerworld.cpp`, `oss_sign.cpp`, `abi_presets.cpp`, `cloud_presets.cpp`) | preset cache, subscriptions | lists, ratings, pictures, firmware; preset sync | cloud | the user changes meanwhile; the slicer deletes what is not listed | nothing for the wrong account; no preset lost |
| Plugin runner (`tools/plugin_runner/`) | latches on main's stack, scratch directory, plugin cache | some forty actions, download | the plugin | many ways to end while callbacks arrive | ends; directory gone; agent destroyed once |

Not modelled: print queue stubs, JSON, logging, OS shims, the credential cipher, the error
table, packaging and vendored code (`PROJECT.json` has the reasons). `PROJECT.json` lists the
hazards of the code with the properties aimed at each.

## 2. Modules

One module per component. The definitions `PROJECT.json` lists under "mutants" as "as" are
plausible bugs of the definitions they stand before; no specification uses them. `*_proofs.tla` hold
theorems, one module for each specification that a run checks. `MC*.tla` make the instances where constants
need definitions: `MCServices` and `MCHosts` put modules that share no state beside each other,
and an initial choice says which of them a behaviour follows.
Where a module makes several promises that belong together, the property its run checks is
their conjunction, with one named and commented definition per promise: `CoversSound` is
`CoverIsWhole /\ CoverIsNotOlder /\ ClaimHasWorker`.

### The sessions

**LanLifecycle.** Threads: the slicer (`Studio`), an autostart worker per device, the grace
timer and a loop thread per session; a step is one critical section of `mu_` or
`deferred_dc_mu_`, or one blocking call.

| Variable | Code |
|---|---|
| `lan`, `selected`, `armed` | `lan_session_`, `user_selected_machine_`, `deferred_dc_active_` |
| `link`, `tgt`, `ever`, `cb`, `quit` | per session: the MQTT client's state, its target, `ever_connected_`, the callback in progress, the mode of `mosquitto_loop_stop` |
| `pc`, `op`, `want`, `mine` | per thread: position, operation, argument, the session in a local `shared_ptr` |
| `appCert` | `app_cert_install_sent_` |
| `doomed` | history: the session `disconnect_printer` left to the timer |

`connect_printer` is the path `cancel, join, reuse | take, stop, start, install`
(`CancelDeferred` to `InstallSession`); `disconnect_printer`, the timer and `~Agent` share
its parts. CONNACK, refusal, loss and graceful end happen at any time on the loop thread.

**CloudLink.** Threads: `Studio`, `Lan` (the LAN loop), `Watchdog`, `Loop` (the cloud loop).
`subscribed` and `active` are `CloudSession`'s sets, `broker` what the broker holds on this
connection. The steps follow the order of assignments in the loop callbacks; the parts of
`kickstart_cloud_status` and of `cloud_del_subscribe` that lock separately are separate
steps. `asked`, `wanted`, `told` and `reported` are histories.

**SignedSend.** `certDisk`, `keyDisk` are the files, `keyCache` is `g_cached_key`; a
certificate is a version number, 0 for none. Detached workers and the slicer's own `update_cert` run
`fetch_and_store` as get, write certificate, write key, drop the cache, reset the flag,
clear the latches. A sender goes `begin, poll, ack, wait, sign, publish`; a LAN attempt
whose publish fails starts over on the cloud leg.

### Files and prints

**FileTunnel** joins the `ft_*` handles and their job threads, the connection they share
under `lan_mu`, and the framed protocol on it: dial, login, ability, chunked upload with
resume offset and digest, download, cancel, with replies that are stale, batched or never
come. **PrintJobs** runs the five print entry points stage by stage over the FTPS client
(`SIZE`, `CWD`, `STOR` with its early and late replies) and the cloud's REST stages.

### Camera

**TutkSession**: `open_path` (LAN search against master and relay), handshake and login as
steps that may fail, FEC groups, the frame queue, the file browser's requests, `leave`.
**DtlsHandshake**: the PSK handshake and the counters below it; cryptography is symbolic.
**SourceTunnel** composes **RtspStream** and **FtpsBridge** into the `Bambu_*` tunnel with
all its fallbacks; a worker's send, wait and answer are separate steps wherever the wait may not end. The TUTK session inside is abstract there. **DshowFilter**,
**DshowObjects** and **MacPlayer** are its hosts on Windows and macOS. **CameraRoute** is
`bambu_network_get_camera_url` with the printer's side of the liveview command.

### Stores and services

**DurableStore** is an abstract specification: a value in memory, one on disk that only
ever becomes the value in memory as a whole. **SessionStore** (the login, with a login thread, a
logout thread and crashes between the steps of writing the file) implements it:
`DurableSession` is `INSTANCE DurableStore WITH val <- mem, disk <- file, atomic <- ~windows`.
**MachineState** is the remembered printer, **LanRegistry** the address/serial pairs in
plugin, environment and `obn.env`, whose writes may fail, and the dials that use them, **PrinterKeys** the public key of a printer, **ConfFile**
the repair of `obn.conf`. **CoverCache**, **CoverServer** and **ModelThumbnail** get a
picture to the slicer. **SsdpListener**, **LanBind** and **BindFrames** are discovery and
binding, **PrinterReports** the patches of a report, **PresetSync** and **CloudCalls** the
REST side. **PluginRunner** and **PluginDownload** are the tool.

## 3. Runs

| Run | Instance | Properties |
|---|---|---|
| `lan_keep` | 2 printers, 3 sessions, grace timer, no workers | `TimerTakesOnlyDoomed`, `ShutdownClosesLan`, `CallsReturn` |
| `lan_select` | 2 printers, 2 workers, 3 sessions | `SessionOwnership`, `SelectionWins` |
| `cloud_subs` | 1 printer, reconnects, add, del, failback | `SubscriptionsApplied` |
| `cloud_stable` | 1 printer, no drop, no unsubscribe | `AskedAndAnnounced`, `SilenceFailsBack` |
| `signed` | 1 printer, 1 sender, a worker and the slicer's refresh, 1 job, 2 legs | `LatchMeansInstalled`, `InflightHasWorker`, `RescueOnce`, `SendReturns` |
| `tunnel` | 2 jobs of any kind, 2 threads, 1 fault | `HandlesSound`, `UploadIsWhole`, no deadlock |
| `print` | 2 calls in a row, every mode, 2 folders, 2 faults | `CallSound`, `PrintSound` |
| `tutk` | 2 FEC groups (2 data, 1 parity), 3 frames, 2 faults, both kinds of printer, both modes | `PicturesSound`, `SessionSound` |
| `source` | 3 pictures in 6 packets with wrapping numbers, 2 requests, a file of 3 units in chunks of 2 | `StreamSound`, `OkMeansWholeFile`, `TransportSound`, `TunnelLive` |
| `services` | the ten modules `MCServices` extends | `DurableSession`, `LogoutSticks`, `PeersKnown`, `ConfRepaired`, `ReportsSound`, `PresetsSound`, `HandshakeSound`, `CallsSound`, `ModelSound`, `CoversSound` |
| `hosts` | the eleven modules `MCHosts` extends | `DshowSound`, `PlayerSound`, `CameraSound`, `RunnerSound`, `KeptOverRestarts`, `ListenersSound`, `BindSound`, `EveryWaitEnds` |
| `frames_split` | frames cut inside the magic | `FramesSurviveCuts`, violated: section 5 |

What they show: `lan_keep` and `lan_select`, that connects, disconnects, the timer and the
workers hand sessions over without leak or second owner, that no chain of joins closes, and that the
selected printer gets the session. `cloud_*`: the broker ends up with the wanted set around every
CONNACK, and nobody stays unasked, unannounced or muted. `signed`: lost and refused installs
never look done, and one rejection over two legs leads to one re-send. `tunnel`, `print`: what is
reported as done is done, however replies, cancels and faults fall. `tutk`, `source`: a viewer
gets whole pictures in order over a bad network and can always leave. `services`: what is
stored survives crashes and late answers. `hosts`: threads, timers and tools end cleanly.

Bounds. `Sessions` is a pool whose freed objects are used again: three suffice for the
installed session, one being created and one being stopped, and the length of a behaviour is not
bounded. One printer suffices for the cloud properties because no guard
relates two; the proofs cover any number. `MaxVersion` is 1 because the latch and the flag
do not depend on which certificate it is. Faults are counted per behaviour (`MaxFaults`,
`MaxNetFaults`, `MaxCrashes`, ...): two let one hit a call and the other its retry. Two jobs,
two calls and two workers are what a shared lock, claim or leftover reply needs. Two
sessions of the player show what the first leaves to the second, three ids against a
table of two show eviction. A file of three units in chunks of two has a full
and a partial chunk; two FEC groups show a group that ends while the next has begun. Frames of the binding protocol
have payloads and noise of up to 2 bytes, each 0xA5 or 0xA7, the bytes that can be taken for a magic, and arrive
cut into any pieces; `SplitMagic = FALSE` keeps the cuts out of a pair of magic bytes. `ReadBudget = 1`
with three models makes the search stop and go on, and `MaxCandidates = 2` leaves one of them unconsidered;
the initial files (`Shelf`) are fixed, one of them is only another plate of the print, and one file may be written again as
anything. `MaxWriteFaults = 1` lets one write of `obn.env` fail; of the registry's three unusual settings (Windows, a directory the
first search does not find, `lan_tls_skip_verify`) one is on at a time (`OddSettings`), and the picture credentials a behaviour begins with
have both token and region or neither. `MaxWrites = 4` lets another device write twice around the slicer's own upload; time 1
is the oldest, also of a blank preset. `MaxAppData` stays below 65534, where the 16-bit counter of datagrams wraps. The tunnel's threads and jobs are
interchangeable and checked up to symmetry.

Fairness. A thread with a runnable step keeps running (weak fairness of its steps):
operating-system scheduling. Waits with a time limit in the code end. Beyond that:
* `SelectionWins`: the autostart hook recurs (printers announce themselves by SSDP every
  few seconds) and `LanSession::start`, which fails only for local reasons, does not fail each
  time (strong fairness of its success).
* `RequestsAnswered`, `EndIsReported` (in `TunnelLive`): the host polls `ReadSample`, which is its protocol.
  `RequestsAnswered` is about requests served over FTPS, whose reads have limits.
* Reads without a limit get no fairness. The native :6000 worker's (`NativeReceive`), the MJPEG reads of player and filter
  and the listings of the model search may wait for ever, so `CloseReturns`, `PlayerCloseReturns`, `StopReturns` and
  `FoundInTheEnd` have the form `[]<>~Blocked => ...`: the call comes back if the printer is not silent for ever. Where it
  is silent the code does hang (section 5).
* In `EveryWaitEnds`, `FramesMove`: the display layer takes frames again.
  `ServerStarts`: the printer handles what reaches it; one command may be lost.
  `ChoiceReachesDisk`: the slicer's timer asserts its selection again.
* `FoundInTheEnd` (in `ModelSound`): every report asks for the model again, and a read of a title has a time limit; the
  property is about a file among the 64 newest (`Findable`).

Nothing is assumed of when the slicer calls or of the user, and of a printer or network that answers only what is listed here.

Deadlock is checked in `lan_select`, both `cloud_*` runs, `signed`, `tunnel`, `print`, `tutk` and
`source`. In `lan_keep` a circular wait of joins is what `CallsReturn` states. In `services`
and `hosts` behaviours end (a run of the tool, a handshake, a bounded number of calls); what must not
stop has a liveness property there.

## 4. Proofs

The theorems hold for every value of the constants that satisfies the named `ASSUME`s: any sets of
printers, threads, sessions, jobs, users, presets or requests, any file size, any
number of faults. The assumptions say that names differ and null values are not in the sets
(`CloudAssumption`, `RegistryAssumption`, `ConfAssumption`, `BindAssumption`), that bounds are natural numbers and that what
the code divides by or indexes with is not 0 (`BridgeAssumption`: a chunk has at least one unit). Three say
what a correct peer sends: `StreamAssumption` (a camera numbers its frames from 1 in order, and the first is a
keyframe), `RtspAssumption` (timestamps of a video do not go back, and an FU-A end follows its start) and
`FramesAssumption` (elements are bytes, and a frame's length fits the two bytes of its head). Most
properties are not inductive; each proof goes through an inductive invariant, and these are the parts that are needed and
that the code must keep for the property to hold:

* `LanLifecycle_proofs`: `TypeCorrect`, `OwnershipHolds`. A thread at `install` must hold a
  session nobody stopped, so `OwnershipInv` adds that a local pointer is set exactly
  between taking and giving back (`HoldPc`), that a held session is alive and one about to be
  installed has not been told to stop (`HeldIsLive`), that freed objects are clean
  (`FreeIsClean`), and that the timer thread is only assigned when none is left
  (`TimerFreeToArm`). `TimerIsBound` and `ShutdownCloses` follow with `TimerInv`: a
  timer is joined before anything is installed, and what it sees is what it was armed for. Both have the hypothesis
  `AutoDevs = {}`; with autostart workers they are false (section 5).
* `CloudLink_proofs`: `TypeCorrect`, `SubscriptionsHold`. `Containment`: broker topics are active,
  active ones wanted, a dead connection has no topics, and `connected_` is cleared before
  `active_`, the order of assignments in `on_disconnect` that the property depends on.
  `AskedHolds`: for each subscribed printer not asked yet somebody is on the way to ask
  (`SomebodyAsks`); `AnnouncedHolds`: the latch is set by whoever announces. They
  exclude unsubscribing, and the first a drop of the connection: section 5 has what happens otherwise.
* `SignedSend_proofs`: `TypeCorrect`, `LatchHolds`, `InflightHolds`, `RescueHolds`. A request
  carries a certificate, a device with an answer under way has installed one
  (`Handshake`), and a job not in `rescued_tasks_` was not re-sent (`Recorded`).
* `FileTunnel_proofs`: `HandlesHold`, `UploadsAreWhole`. `TunnelInv` has where every thread may be
  (`Positions`), what a count is made of, one per running thread and one for the handle
  (`Counted`), that a start has at most one result delivered or still to come, and what is on the wire
  (`WireInv`): a last chunk ends the file and has the digest of all of it, and a reply that says stored is
  true.
* `PrintJobs_proofs`: `CallsHold`, and `PrintedHolds` for `PrintedFileIsThere` and
  `NoStrayCover`, the safety part of `PrintSound`. `CallInv`: the stage a call is in (`JobAt`), the project in the cloud as far as the stage
  has brought it (`ProjectGrows`), replies of the FTPS channel that match what was sent
  (`ChannelInStep`), the archive once it was stored (`ArchiveThere`).
* `Source_proofs`: `TransportHolds` from `RtspInv`, `ApiInv`, `CtrlInv`, `ReaderInv` and `ClosingInv`
  (which thread may still touch a connection in which phase of Close), and `FilesAreWhole` from
  `BridgeInv`: replies to one request are consecutive pieces of the file (`InOrder`), what
  the host has and what is queued joins without a hole (`RepliesJoin`), and the running job
  goes on where they end (`JobContinues`).
  `StreamHolds` is the whole of `StreamSound`. `ReportsAreExact` has its sequence numbers, for arrivals of any number and
  order, however often they wrap: the receiver's recursive function is shown to exist by taking the least
  prefix on which it would not. For the pictures `PictureInv` names the position up to which packets were assembled:
  what is in the open access unit, in the queue and in the host's hands are the whole pictures before it, each NAL unit still
  waiting has a position behind it, and half a fragment is of the packet before.
  `ShownFramesHold` has the two parts of `PicturesSound` that hold for any stream: what is kept of a frame is what the
  network brought (`HoldsBrought`), what was shown is in order (`ShownInOrder`), and what was given up stays given up (`Settled`).
  `PicturesHold` adds that parity hides loss, from `NetworkInOrder`, `GroupsInOrder` and `NoneSkipped`; its
  hypothesis, that the first frame has more slices than a group has parity packets, is needed (section 5).
  `SessionSafe` is the safety part of `SessionSound`: who still races for a path and which socket is the adopted one (`LinkInv`).
* `Hosts_proofs`: `ListenersHold` (whoever takes `running_` back closes the socket), `DshowHolds`
  (a reference for every holder, a lock for every living object), `RestartsHold`, `CameraHolds`,
  `RunnerHolds` (the guard owns exactly the live agent; which stack frames the
  outstanding callbacks need), `PlayerHolds` (whose session each block on the main queue and each queued
  frame belongs to), `BindingHolds` (the
  ticket kept is the first reported, a session that goes on has not posted it or has the cloud's consent) and
  `BindHolds`, the whole of `BindSound` with the hypothesis `~SplitMagic`, without which it is false (section 5). It rests on
  `PiecesJoin`, a fact about `drain_frames` alone: draining two pieces one after the other gives what draining them at
  once gives, unless the cut parts two magic bytes and nothing before them was kept. `FrameInv` says that buffer and
  output are what draining the received part at once would give.
  `drain_frames` is a recursive function over byte strings; that it exists is shown from its approximations on strings up to
  a length.
* `Services_proofs`:
  * the login: `SessionTypeCorrect`; `SessionIsDurable`, the refinement of DurableStore: every step of
    SessionStore is a step of it or leaves it alone; `LogoutIsFinal`; `RefreshTokenKept`;
    `SessionKeptByServices` has them for the run's own specification. `StoreInv` says that only the
    login thread writes, and that the temporary file it is about to rename holds the session in memory
    (`Writing`). The logout needs `AfterLogout` (where an answer is still awaited there is no token it could
    belong to), the refresh token that the snapshot a renewal writes back is still the session in memory;
  * `CoversHold`: claims and workers correspond one to one, images are not older than their print;
  * `PeersAreKnown`, for any failures of the writes: `RegistryInv` says that environment and memory are always equal, the file
    equals them after a write that reached it, and a process that has read the file has all its pairs. The last part, and with it
    `PairsSurviveRestart`, is for a config dir whose file the first search finds (the variable `dirSearched`), without which it is
    false (section 5);
  * `ReportsHold`, `CallsHold` (what a call captured at its start, whoever logs in meanwhile; `SignedRight` says which requests a store accepts),
    `HandshakeHolds` (both transcripts are the same messages, whatever was repeated, reordered or lost; the counter of datagrams stays below its wrap, `HandshakeAssumption`);
  * `ConfHolds`: for files of any length. A repair changes the value of a line and appends
    lines, nothing else (`Keeps`), and the reader takes the last line of a key;
  * `PresetsHold`: two action properties and an invariant. A listed preset has its turn before it or
    an entry (`ListedIsKept`), and while a sync runs an entry is what the cloud still has, unless another device wrote
    (`FetchedIsNew`);
  * `ModelFound`, the safety part of `ModelSound`, three invariants and an action property: what a fetch listed is true of every
    file that has not changed since (`ListedWell`), of the files it no longer has to try it passed over, without being
    refused, only files that are not the print's (`Tries`), and no time is yet to come (`Dated`), so that a file written again is
    never taken for the one listed.

Only model-checked, and why:
* liveness (`CallsReturn`, `SelectionWins`, `SilenceFailsBack`, `SendReturns`, `TunnelLive`,
  `EveryWaitEnds`, and the liveness parts of `PrintSound`, `SessionSound` and `ModelSound`): fairness
  and `ENABLED` are beyond the prover.

Every safety invariant and action property of a passing run is proved, under the hypotheses named above.

## 5. Where code and documentation disagree, and observations

`frames_split` (lan_bind_tcp.cpp:243): `drain_frames` clears a buffer without a complete pair
of magic bytes, also when it ends with the first of them, so a frame whose magic arrives in two
pieces is lost. lan_bind_tcp.hpp:27-28 says that it "leaves any trailing partial bytes".

The rest was met while modelling. The models show these as reachable states or name them as
exceptions of a property; none is a listed finding.

*LAN session.*
* A graceful close (timer, replacement) reports an Ok status, so `app_cert_install_sent_`,
  "Cleared on LAN disconnect" (agent.hpp:676-678), stays for the next session (agent.cpp:139, 248).
* The slicer and an autostart worker can both pass `joinable()` of `deferred_dc_thread_` and both
  join (agent.cpp:175); LanLifecycle has the state `"dead"` for the second.
* `ShutdownClosesLan` fails with autostart: a detached worker inside `connect_printer` stores a
  session after `~Agent` closed the first (agent.cpp:447; agent.hpp:580-582 promises a DISCONNECT).

*Cloud session.*
* A report between the two halves of `cloud_del_subscribe` sets the notification latch again; the
  next subscription is not announced (agent.cpp:3445; agent.hpp:647, 653).
* STATUS.md:103, 106 and agent.hpp:745 say that LAN priority closes the cloud report leg; the
  code keeps it and drops duplicates (agent.cpp:481).
* With a drop, a thread that copied `active_devices()` before it latches the device after the
  loop thread cleared the latches, and the CONNACK's own kickstart skips it (agent.cpp:3480).
* If the watchdog thread cannot be created nobody tries again for a deferred device (agent.cpp:513).
* A subscription made while there is no `CloudSession` is dropped (agent.cpp:3423), though the comment at
  abi_http.cpp:260-268 says "CloudSession buffers the desired set [...] so ordering doesn't matter". CloudCalls has the drop
  (`cloud_add_subscribe`); no property covers it.

*Signed commands.*
* The key may land after the poll gave up and before `maybe_sign`: the command is signed without
  an install (agent.cpp:1624; comment 1566-1568).
* With a key present a mismatched certificate starts no fetch (agent.cpp:1573; comment 1577-1578).

*Files and prints.*
* Uploads, listings and ability requests wait without limit; a silent printer then holds
  `lan_mu`, and `ft_tunnel_shutdown` blocks. `shut_down` is never read.
* A resume offset equal to the file size sends no chunk and no digest. A body that throws leaves
  its connection to the next job (abi_ft.cpp:503). Batched frames can make a download report
  success early (tunnel_local.cpp:909).
* A failed :6000 upload shows no ERROR; "We never retry" (cloud_print.cpp:689-693) has one
  retry below it; nothing looks at a cancel between the last poll and `create_task`; a lost
  answer of POST /my/task and Studio's fallback can make a second task, one per call.

*Camera.*
* `FrameQueue::flush` delivers a complete later frame when it knows no next frame yet (TutkSession.cpp:347-378). A first
  frame of no more slices than parity can repair may be lost whole at that moment; repaired later, it is dropped as
  old. `FecHidesLoss` is therefore proved for a larger first frame, as a keyframe is.
* `receive()` sets `ready` on a late login reply without looking at the capability block; a
  repeated server flight, or a Finished that overtakes the ticket, fails the handshake, which is retried;
  application records have no replay check; the counter of datagrams is a `uint16_t` that wraps (IotcClient.cpp:389), after which the
  printer may drop what is new; data after the last parity is discarded.
* BambuSource: a cancel queued behind a running download does not interrupt it
  (BambuSource.cpp:595); a failed reconnect after SIZE or DELE leaves a null `t->ftp` that is used
  (1249; the state `crashed`); for a file that is a multiple of the chunk the digest comes in an
  empty reply (1675; comment 1618); `closing` is never reset, so a tunnel cannot be opened again.
* BambuSource: the native control worker waits in `recv_payload` without a time limit (tunnel_local.cpp:884-887; tls_dial.cpp:327
  clears the socket's), and `Bambu_Close` joins it before it shuts the socket (BambuSource.cpp:2034, 2502): a printer that goes silent
  on :6000 hangs Close. The MJPEG reads have no limit either; the comment at BambuSource.cpp:626-632, which relies on an
  `SO_RCVTIMEO` of 5 s, is not true of sockets from `dial_tls`.
* RTSP: the reader's `SSL_read` and the keepalive's `SSL_write` share no lock; an open access
  unit is dropped at the end of a stream.
* DirectShow: a worker that ended by itself leaves `worker_running_` set until Stop; a silent
  MJPEG printer blocks Stop's join; `Connect` takes the media type its caller names without comparing it with the stream's
  (dshow_filter.cpp:931-932), so that type and pictures can differ; a frame larger than the allocator's 256 KiB is dropped
  (1447, MJPEG frames may have 4 MiB), so a paused graph may never get its first sample; a TUTK open that fails in Load announces H.264; a pin kept
  beyond its filter has a dangling `parent_` (`OnlyOrphansDangle` allows just that).
* macOS: `play` while the reader exits returns 0 with nothing playing; `close` joins the reader before it closes the tunnel
  (BambuPlayer.mm:591-597), so a silent MJPEG camera hangs it.
* A stale "enable" may end `wait_tutk_ready`; the 2 s cooldown can swallow a refusal.

*Stores.*
* A login over another user's session whose profile fetch fails keeps the old `user_id` beside
  the new token; on an empty session it returns SUCCESS while `is_user_login` is false.
* On Windows the session file is removed before the rename (auth.cpp:190): the `atomic = FALSE`
  case of DurableStore. A logout ignores a file it cannot remove.
* `registry_set_config_dir` reads the file before it stores the new directory (lan_tls.cpp:353-357): where the search before that
  does not find the file (118-132; macOS, `--datadir`) the pairs in it are erased by the first write, which the comment there means to
  prevent (`dirSearched = FALSE`). A write of `obn.env` that fails is only logged and not tried again while no pair changes
  (lan_tls.cpp:236-282); on Windows the file is removed first. The
  device certificate file is not written atomically. `fix_client_name` looks at the first line only.

*Covers, reports, discovery, binding.*
* `synthetic_subtasks_` evicts the smallest key, possibly the current print's; two slicer
  processes share /tmp/obn-covers and its temporary names; an error ends the accept thread of the
  cover server while `running_` stays set, and so does a thread that cannot be created (cover_server.cpp:264-265).
* The model search looks at the 64 newest sliced files only (tunnel_upload.cpp:809-810), and its listings have no time limit.
* `new_ver_list` only fills empty fields (agent.cpp:2206; comment 2187 says the most recent
  wins); `try_override_net_ip` replaces every later "ip" of the payload.
* A bind returns SUCCESS at its deadline once the cloud took the ticket; both loops spin when the
  peer has closed. `start()` of SSDP returns true while a worker that met an error has
  not yet taken `running_` back (ssdp.cpp:199-203, 344-412), and then nobody listens.

*Cloud calls and presets.*
* A list fetched for one user may be applied after another logged in; two pictures with one
  file name share an object key. The key is signed as it is (abi_makerworld.cpp:356-358, oss_sign.cpp:155), where S3 encodes it, so a
  name with characters a URI encodes is refused; a config without a bucket is accepted (oss_sign.cpp:119) and signed as `//key`,
  which Aliyun refuses.
* An unparsable 200 body is an empty catalogue and SUCCESS, and of a preset a blank one of time 1 (cloud_presets.cpp:235-241,
  349-351); a name in two types shares a cache
  key; `setting` is written over the envelope although the comment says that the envelope wins
  (cloud_presets.cpp:202).

*Plugin runner.*
* On an early return the latches die before the guard destroys the agent, and `ft_job` and
  `mw_probe` keep their state on the stack: the two exceptions `CallbacksFindTheirState` names.
  With `--no-fast-exit` several probes wait for a latch nobody marks and exit with 75.
* The downloader unpacks onto the cached library; a killed extraction leaves a torn one.

## 6. Abstractions, and what is not modelled

Time is abstract: a time limit may pass at any moment the code waits for it, except where
one limit orders two events (`BackoffEnds`: a worker's request is limited to 30 s, the backoff
lasts 60 s). Failures of local system calls appear where the code handles them;
that a thread cannot be created appears in CloudLink only (cover_cache.cpp:374 and cover_server.cpp:265, where it throws, are left out),
and `obn.conf` is read and repaired in one step (a user's edit in between would be overwritten). Payloads, topics,
certificates, images and bodies are names or numbers; encodings appear where a property depends on
them (`BindFrames`, the lines of `ConfFile`, the wrap of RTP numbers, the zero byte of a PSK).

External, modelled from how the code uses them: libmosquitto, the printer, the cloud, the slicer's
callbacks, DirectShow and AVFoundation, the plugin under the runner.

Left out inside modelled components: `disconnect_cloud` (no caller), developer mode, jobs without
`task_id` (not deduplicated), MQTT QoS (always 0, so a publish may be lost), FTPS reply and listing
parsers, Reed-Solomon arithmetic and ciphers (unit tests with vectors exist), ZIP, image and
JSON parsing, `JoinFilterGraph` and registration, filament and tracking calls (stateless wrappers),
the plain getters and setters of the ABI. Not modelled at all: print queue stubs, logging, OS
shims, the credential cipher, the error table (data), packaging, vendored code.

## 7. Plan

1. Abstract specifications: one LAN session slot that LanLifecycle implements, and a register
   of the wanted set that CloudLink implements.
2. Larger instances of the runs in the dimensions the proofs do not cover: liveness with two LAN printers and two workers
   at once, and with more faults.
