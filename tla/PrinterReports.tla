---------------------------- MODULE PrinterReports ----------------------------
(***************************************************************************)
(* A report of the printer on its way to Studio (notify_local_message,     *)
(* src/src/agent.cpp): the patches obn.conf may ask for, the ids a LAN     *)
(* print is given so that Studio asks for its cover, and what is kept of   *)
(* the printer's firmware.  All prints have one name, which is the hard    *)
(* case for the ids.  The cover itself is CoverCache and CoverServer.      *)
(***************************************************************************)
EXTENDS Naturals, Sequences, FiniteSets

CONSTANTS
    MaxJobs,      \* bound: prints of the name
    MaxFirmware   \* bound: firmware versions

\* What obn.conf can ask for.
Options == {"home_flag", "ipcam_file", "internal_storage", "lan_ip", "hms_65543"}

\* The ids a firmware reports for a LAN print, or those of a cloud print.
IdKinds == {"task", "start", "cloud"}

\* sd: bits 8 and 9 of home_flag; file: ipcam.file; emmc: bit 17 of fun2; ips: the
\* addresses of net.info; hms: the alerts.  The patches do not depend on each other, so a
\* report differs from AnyFrame in one field.
AnyFrame == [sd |-> 1, file |-> TRUE, emmc |-> "on", ips |-> <<>>, hms |-> {}]

Frames ==
    {[AnyFrame EXCEPT !.sd = n] : n \in 0..3} \cup
    {[AnyFrame EXCEPT !.file = FALSE], [AnyFrame EXCEPT !.ips = <<1, 1>>]} \cup
    {[AnyFrame EXCEPT !.emmc = e] : e \in {"absent", "off"}} \cup
    {[AnyFrame EXCEPT !.hms = h] : h \in {{1}, {1, 65543}}}

VARIABLES
    opts, idKind,   \* the configuration and the printer's firmware
    job,            \* the print under way, 0 before the first
    sentFrame, seenFrame,   \* the last report, as sent and as Studio saw it
    shownIds,       \* history: [job, id, real] of the prints Studio was shown
    fw,             \* device_fw_: the module "ota"
    truth,          \* the printer's own version and the one offered to it
    fresh           \* the last reply to get_version still holds

reportVars == <<opts, idKind, job, sentFrame, seenFrame, shownIds, fw, truth, fresh>>

ReportsInit ==
    /\ opts \in {{}, Options} \cup {{o} : o \in Options} /\ idKind \in IdKinds
    /\ job = 0 /\ sentFrame = AnyFrame /\ seenFrame = AnyFrame /\ shownIds = {}
    /\ fw = [cur |-> 0, new |-> 0] /\ truth = [cur |-> 1, avail |-> 1] /\ fresh = FALSE

(***************************************************************************)
(* The patches.  2 is the address the session dialled.                     *)
(***************************************************************************)
\* Only "no card" becomes "card".
try_rewrite_home_flag(f) == IF f.sd = 0 THEN [f EXCEPT !.sd = 1] ELSE f
try_inject_ipcam_file_local(f) == [f EXCEPT !.file = TRUE]
try_patch_fun2_internal_storage(f) == IF f.emmc = "off" THEN [f EXCEPT !.emmc = "on"] ELSE f
try_override_net_ip(f) == [f EXCEPT !.ips = [i \in DOMAIN @ |-> 2]]
try_filter_hms_code(f) == [f EXCEPT !.hms = @ \ {65543}]

Patched(f) ==
    LET a == IF "home_flag" \in opts THEN try_rewrite_home_flag(f) ELSE f
        b == IF "ipcam_file" \in opts THEN try_inject_ipcam_file_local(a) ELSE a
        c == IF "internal_storage" \in opts THEN try_patch_fun2_internal_storage(b) ELSE b
        d == IF "lan_ip" \in opts THEN try_override_net_ip(c) ELSE c
    IN  IF "hms_65543" \in opts THEN try_filter_hms_code(d) ELSE d

(***************************************************************************)
(* The ids of a print.                                                     *)
(***************************************************************************)
\* The token of the print: task_id, else gcode_start_time; the mutant looks for it only
\* in the fields whose ids are zero.
VersionNot == IF idKind = "start" THEN <<"start", job>> ELSE <<>>
Version == CASE idKind = "task" -> <<"task", job>>
             [] idKind = "start" -> <<"start", job>>
             [] OTHER -> <<"task", job>>

synthetic_subtask_id(version) == <<"lan", version>>

\* try_rewrite_print_ids: only an id that is "0" or empty is replaced.
SubtaskId == IF idKind = "cloud" THEN <<"cloud", job>> ELSE synthetic_subtask_id(Version)

\* A report of the print under way, or, before the first print, one without ids.
NotifyLocalMessage(f) ==
    /\ sentFrame' = f /\ seenFrame' = Patched(f)
    /\ shownIds' = IF job = 0 THEN shownIds
                   ELSE shownIds \cup {[job |-> job, id |-> SubtaskId]}
    /\ UNCHANGED <<opts, idKind, job, fw, truth, fresh>>

PrintStarts ==
    /\ job < MaxJobs /\ job' = job + 1
    /\ UNCHANGED <<opts, idKind, sentFrame, seenFrame, shownIds, fw, truth, fresh>>

(***************************************************************************)
(* update_fw_state and parse_module_into: the reply to get_version always  *)
(* wins, new_ver_list only fills what is empty.                            *)
(***************************************************************************)
FromVersion(cur, new) == [cur |-> cur, new |-> IF new = 0 THEN fw.new ELSE new]
FromList(cur, new) == [cur |-> IF fw.cur = 0 THEN cur ELSE fw.cur, new |-> IF fw.new = 0 THEN new ELSE fw.new]

\* get_version names the new version only sometimes.
GetVersionReply(named) ==
    /\ fw' = FromVersion(truth.cur, IF named /\ truth.avail > truth.cur THEN truth.avail ELSE 0)
    /\ fresh' = TRUE
    /\ UNCHANGED <<opts, idKind, job, sentFrame, seenFrame, shownIds, truth>>

UpgradeState ==
    /\ truth.avail > truth.cur /\ fw' = FromList(truth.cur, truth.avail)
    /\ UNCHANGED <<opts, idKind, job, sentFrame, seenFrame, shownIds, truth, fresh>>

FirmwareReleased ==
    /\ truth.avail < MaxFirmware /\ truth' = [truth EXCEPT !.avail = @ + 1]
    /\ UNCHANGED <<opts, idKind, job, sentFrame, seenFrame, shownIds, fw, fresh>>

FirmwareInstalled ==
    /\ truth.avail > truth.cur /\ truth' = [truth EXCEPT !.cur = truth.avail] /\ fresh' = FALSE
    /\ UNCHANGED <<opts, idKind, job, sentFrame, seenFrame, shownIds, fw>>

\* render_firmware_json: a version is offered when version_compare says that it is
\* newer.
Offered == IF fw.new > fw.cur THEN {fw.new} ELSE {}

ReportsNext ==
    \/ \E f \in Frames : NotifyLocalMessage(f)
    \/ PrintStarts \/ (\E named \in BOOLEAN : GetVersionReply(named))
    \/ UpgradeState \/ FirmwareReleased \/ FirmwareInstalled

-----------------------------------------------------------------------------
\* Studio fetches a cover once per id: each print of a name has an id of its own, which
\* it keeps, and a print of the cloud keeps the cloud's.
IdPerPrint ==
    \A a, b \in shownIds : /\ (a.job = b.job) <=> (a.id = b.id)
                           /\ (idKind = "cloud") <=> (a.id[1] = "cloud")

\* A report reaches Studio as it was sent but for what obn.conf asks for; a card that is
\* damaged or read-only and every other alert are shown in any case.
ReportIsTrue ==
    /\ sentFrame.sd # 0 \/ "home_flag" \notin opts => seenFrame.sd = sentFrame.sd
    /\ seenFrame.hms \in {sentFrame.hms, sentFrame.hms \ {65543}}
    /\ opts = {} => seenFrame = sentFrame

\* No upgrade is offered to a printer that has it: once get_version was answered after an
\* upgrade, what is offered is newer than what runs.
OfferIsNewer == fresh => \A v \in Offered : v > truth.cur

\* A report is passed on as obn.conf asks and no further, each print has its own id, and
\* only newer firmware is offered.
ReportsSound == IdPerPrint /\ ReportIsTrue /\ OfferIsNewer
===============================================================================
