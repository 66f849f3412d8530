----------------------------- MODULE CameraRoute -----------------------------
(***************************************************************************)
(* The address Studio plays the camera from (bambu_network_get_camera_url, *)
(* src/src/abi_camera.cpp): on the LAN, or through the cloud, which mints  *)
(* an address and tells the printer to start its server.  A printer with   *)
(* secured firmware refuses the cloud's command, so the plugin sends it    *)
(* again, signed (rescue_cloud_liveview), besides the signed one it sends  *)
(* by itself (remote_camera_url).  Both go out with QoS 0.                 *)
(***************************************************************************)
EXTENDS Naturals, Sequences

CONSTANTS
    MaxCameraCalls,   \* bound: calls of get_camera_url
    MaxPrepareLost    \* bound: commands to the printer that are lost

Nowhere == "none"     \* kNoCamera
NoHint == "no hint"   \* the empty protocol: the printer has not reported one
NoAddress == "empty"  \* the empty address

VARIABLES
    prefer,      \* prefer_lan_over_tutk
    account,     \* cloud_camera_usable
    pair,        \* IP and access code are known
    lvSeen,      \* lan_lv_proto_by_dev_: NoHint, "rtsps" or "off"
    lanOpen,     \* the ports of the printer that a TCP probe finds open
    cam,         \* the call under way
    camCalls, answers,
    secured,     \* the printer refuses unsigned commands
    server,      \* the printer's TUTK server runs
    tutkReady,   \* tutk_server_ready_by_dev_
    toPrinter,   \* commands under way: signed or not
    fromPrinter, \* reports under way, in order
    cooling,     \* a rescue in the last two seconds
    lost

cameraVars == <<prefer, account, pair, lvSeen, lanOpen, cam, camCalls, answers, secured, server,
                tutkReady, toPrinter, fromPrinter, cooling, lost>>

IdleCam == [pc |-> "idle", lan |-> FALSE, lv |-> NoHint, off |-> FALSE, first |-> FALSE, url |-> NoAddress, refused |-> FALSE]

CameraInit ==
    /\ prefer \in BOOLEAN /\ account \in BOOLEAN /\ secured \in BOOLEAN
    /\ pair \in BOOLEAN /\ lanOpen \in SUBSET {322, 6000} /\ lvSeen = NoHint
    /\ cam = IdleCam /\ camCalls = 0 /\ answers = 0
    /\ server = FALSE /\ tutkReady = FALSE
    /\ toPrinter = <<>> /\ fromPrinter = <<>> /\ cooling = FALSE /\ lost = 0

Env == <<prefer, account, pair, lanOpen, secured>>

(***************************************************************************)
(* get_camera_url                                                          *)
(***************************************************************************)
\* The LAN goes first when it is preferred and the printer has video there; the mutant
\* forgets the latter.
LanFirstNot == prefer
LanFirst == prefer /\ lvSeen # "off"

\* Every path ends with the callback.
Deliver(c, url) == cam' = [c EXCEPT !.pc = "done", !.url = url] /\ answers' = answers + 1

\* The UI thread; the work is given to a thread, which may not start.
get_camera_url(spawned) ==
    /\ cam.pc \in {"idle", "done"} /\ camCalls < MaxCameraCalls /\ camCalls' = camCalls + 1
    /\ LET c == [IdleCam EXCEPT !.pc = "route", !.lan = pair, !.lv = lvSeen,
                                !.off = (lvSeen = "off"), !.first = LanFirst]
       IN  IF spawned THEN cam' = c /\ UNCHANGED answers ELSE Deliver(c, NoAddress)
    /\ UNCHANGED <<Env, lvSeen, server, tutkReady, toPrinter, fromPrinter, cooling, lost>>

\* append_lv_hint: without a report of the printer the port of RTSPS is tried.
append_lv_hint(c) == IF c.lv = NoHint /\ 322 \in lanOpen THEN [c EXCEPT !.lv = "rtsps"] ELSE c

\* parse_local_camera_url and the probe of both ports: one that answers is enough.
video_port(c) == IF c.lv = "rtsps" THEN 322 ELSE 6000
lan_camera_reachable(c) == {6000, video_port(c)} \cap lanOpen # {}

\* The LAN address or the mint.
ChooseRoute(c) ==
    IF c.lan /\ (c.first \/ ~account)
    THEN IF lan_camera_reachable(c) THEN Deliver(c, "lan")
         ELSE IF account THEN cam' = [c EXCEPT !.pc = "mint"] /\ UNCHANGED answers
         ELSE Deliver(c, Nowhere)
    ELSE cam' = [c EXCEPT !.pc = "mint"] /\ UNCHANGED answers

Route ==
    /\ cam.pc = "route" /\ ChooseRoute(append_lv_hint(cam))
    /\ UNCHANGED <<Env, lvSeen, camCalls, server, tutkReady, toPrinter, fromPrinter, cooling, lost>>

\* The answers to POST /user/ttcode: the transport it names, if it names a uid at all.
TtcodeAnswers == {"tutk", "untyped", "agora", "no uid", "HTTP error"}
parse_ttcode_response(a) == a \in {"tutk", "untyped"}

\* remote_camera_url: POST /user/ttcode makes the cloud command the printer; then the
\* plugin's own command.
Mint(a) ==
    /\ cam.pc = "mint" /\ account /\ parse_ttcode_response(a)
    /\ toPrinter' = toPrinter \o <<"unsigned", "signed">>
    /\ cam' = [cam EXCEPT !.pc = "wait"]
    /\ UNCHANGED <<Env, lvSeen, camCalls, answers, server, tutkReady, fromPrinter, cooling, lost>>

\* Refused, or not logged in: the LAN again, unless it was tried before.
MintFails(a) ==
    /\ cam.pc = "mint" /\ (account => ~parse_ttcode_response(a))
    /\ Deliver([cam EXCEPT !.refused = TRUE], IF cam.lan /\ ~cam.first /\ lan_camera_reachable(cam) THEN "lan" ELSE Nowhere)
    /\ UNCHANGED <<Env, lvSeen, camCalls, server, tutkReady, toPrinter, fromPrinter, cooling, lost>>

\* wait_tutk_ready: five seconds or the acknowledgement; the address is returned in any case.
WaitReady ==
    /\ cam.pc = "wait" /\ Deliver(cam, "tutk")
    /\ UNCHANGED <<Env, lvSeen, camCalls, server, tutkReady, toPrinter, fromPrinter, cooling, lost>>

(***************************************************************************)
(* The printer.                                                            *)
(***************************************************************************)
PrinterGets(arrives) ==
    /\ toPrinter # <<>> /\ toPrinter' = Tail(toPrinter)
    /\ ~arrives => lost < MaxPrepareLost
    /\ lost' = lost + (IF arrives THEN 0 ELSE 1)
    /\ LET taken == arrives /\ ~(secured /\ Head(toPrinter) = "unsigned") IN
       /\ server' = (server \/ taken)
       /\ fromPrinter' = fromPrinter \o (IF ~arrives THEN <<>>
                                         ELSE IF taken THEN <<"enable">> ELSE <<"rejected">>)
    /\ UNCHANGED <<Env, lvSeen, cam, camCalls, answers, tutkReady, cooling>>

\* The server runs for longer than a rescue's two seconds, and while nobody plays it ends.
ServerEnds ==
    /\ server /\ ~cooling /\ toPrinter = <<>> /\ cam.pc \in {"idle", "done"}
    /\ server' = FALSE /\ fromPrinter' = Append(fromPrinter, "disable")
    /\ UNCHANGED <<Env, lvSeen, cam, camCalls, answers, tutkReady, toPrinter, cooling, lost>>

(***************************************************************************)
(* The reports: harvest_media_caps, harvest_tutk_server_status and         *)
(* rescue_cloud_liveview.                                                  *)
(***************************************************************************)
\* The command is repeated unless the server is known to run or one was sent just now.
Rescues(m) == m = "rejected" /\ ~tutkReady /\ ~cooling

HarvestReport ==
    /\ fromPrinter # <<>> /\ fromPrinter' = Tail(fromPrinter)
    /\ LET m == Head(fromPrinter) IN
       /\ tutkReady' = IF m = "enable" THEN TRUE ELSE IF m = "disable" THEN FALSE ELSE tutkReady
       /\ toPrinter' = IF Rescues(m) THEN Append(toPrinter, "signed") ELSE toPrinter
       /\ cooling' = (cooling \/ Rescues(m))
    /\ UNCHANGED <<Env, lvSeen, cam, camCalls, answers, server, lost>>

\* print.ipcam.rtsp_url: the user flips LAN liveview on the printer.
HarvestMediaCaps(lv) ==
    /\ lv # lvSeen /\ camCalls < MaxCameraCalls /\ lvSeen' = lv
    /\ UNCHANGED <<Env, cam, camCalls, answers, server, tutkReady, toPrinter, fromPrinter, cooling, lost>>

CoolsDown ==
    /\ cooling /\ cooling' = FALSE
    /\ UNCHANGED <<Env, lvSeen, cam, camCalls, answers, server, tutkReady, toPrinter, fromPrinter, lost>>

CameraNext ==
    \/ \E spawned \in BOOLEAN : get_camera_url(spawned)
    \/ Route \/ (\E a \in TtcodeAnswers : Mint(a) \/ MintFails(a)) \/ WaitReady
    \/ \E arrives \in BOOLEAN : PrinterGets(arrives)
    \/ ServerEnds \/ HarvestReport \/ CoolsDown
    \/ \E lv \in {"rtsps", "off"} : HarvestMediaCaps(lv)

-----------------------------------------------------------------------------
\* With LAN liveview known to be off, a LAN address, which has no video, is given only
\* when the cloud could not give one; and one for a printer that streams RTSPS says so.
VideoWhenPossible ==
    cam.pc = "done" /\ cam.url = "lan" =>
        /\ cam.off => ~account \/ cam.refused
        /\ 322 \in lanOpen => cam.lv # NoHint

\* Studio's callback is called once for each call, on every path.
AnsweredOnce == answers = (IF cam.pc \in {"idle", "done"} THEN camCalls ELSE camCalls - 1)

\* Every call is answered.
CameraAnswered == (cam.pc \in {"route", "mint", "wait"}) ~> (cam.pc = "done")

\* After a mint the printer's server runs, also with firmware that refuses the cloud's
\* command and with one command lost.
ServerStarts == (cam.pc = "wait") ~> server

\* Studio gets one answer per call, and one with video where there is any.
CameraSound == VideoWhenPossible /\ AnsweredOnce
===============================================================================
