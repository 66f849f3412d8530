------------------------------- MODULE ConfFile -------------------------------
(***************************************************************************)
(* obn.conf (src/src/config.cpp): the plugin creates it from a template    *)
(* and reads it, the installer repairs it, the user edits it.  A line is   *)
(* its key and its value; comments and keys nothing here changes are       *)
(* "other" lines.  The reader takes the last line of a key, the installer  *)
(* looks at the lines in order.                                            *)
(***************************************************************************)
EXTENDS Naturals, Sequences

CONSTANTS
    NoFile,              \* there is no file
    MaxLines, MaxEdits   \* bounds: lines of a user's file, edits

Line == {<<"block_cloud", "1">>, <<"block_cloud", "0">>,
         <<"log_to_file", "0">>, <<"log_to_file", "1">>,
         <<"client_name", "OpenBambooNetworking">>, <<"client_name", "mine">>,
         <<"other", "x">>}

Template == << <<"log_to_file", "0">>, <<"block_cloud", "1">>, <<"client_name", "BambuStudio">> >>

\* The lines a file can hold.
Lines == Line \cup {Template[n] : n \in DOMAIN Template}

ASSUME ConfAssumption == NoFile \notin Seq(Lines)

VARIABLES
    conf,    \* the file, or NoFile
    before,  \* the file the installer's call found
    ipc,     \* where that call is: "idle", "block" or "all" to be fixed
    done,    \* the last call succeeded and the file has not been touched since
    blocked, \* Settings::block_cloud as last loaded
    edits

confVars == <<conf, before, ipc, done, blocked, edits>>

Files == UNION {[1..n -> Line] : n \in 0..MaxLines}

ConfInit ==
    /\ conf \in Files \cup {NoFile} /\ before = NoFile
    /\ ipc = "idle" /\ done = FALSE /\ blocked = TRUE /\ edits = 0

Has(ls, k) == \E n \in DOMAIN ls : ls[n][1] = k

\* parse_file: apply_key overwrites, so the last line of a key counts.
Parsed(ls, k, default) ==
    IF Has(ls, k) THEN ls[CHOOSE n \in DOMAIN ls :
                            ls[n][1] = k /\ \A q \in DOMAIN ls : ls[q][1] = k => q <= n][2]
    ELSE default

\* The first line of a key; find_key_value in a loop that returns.
First(ls, k) == CHOOSE n \in DOMAIN ls : ls[n][1] = k /\ \A q \in 1..n-1 : ls[q][1] # k

\* fix_lines: every truthy block_cloud line becomes 0, or the key is appended.  One mutant
\* is content with the first line, another does not look for the key.
fix_linesFirst(ls) ==
    IF Has(ls, "block_cloud") THEN [ls EXCEPT ![First(ls, "block_cloud")] = <<"block_cloud", "0">>]
    ELSE Append(ls, <<"block_cloud", "0">>)
fix_lines(ls) ==
    IF Has(ls, "block_cloud")
    THEN [n \in DOMAIN ls |-> IF ls[n] = <<"block_cloud", "1">> THEN <<"block_cloud", "0">> ELSE ls[n]]
    ELSE Append(ls, <<"block_cloud", "0">>)

\* fix_log_to_file: a missing key is appended; the template's own 0 becomes 1 in a file
\* this call created.
fix_log_to_file(ls, created) ==
    IF ~Has(ls, "log_to_file") THEN Append(ls, <<"log_to_file", "1">>)
    ELSE IF created THEN [ls EXCEPT ![First(ls, "log_to_file")] = <<"log_to_file", "1">>]
    ELSE ls

\* fix_client_name: only the value old templates shipped is replaced.
fix_client_name(ls) ==
    IF Has(ls, "client_name") /\ ls[First(ls, "client_name")][2] = "OpenBambooNetworking"
    THEN [ls EXCEPT ![First(ls, "client_name")] = <<"client_name", "BambuStudio">>]
    ELSE ls

Fixed(ls, created) == fix_client_name(fix_log_to_file(fix_lines(ls), created))

\* ensure_conf_fixes and ensure_block_cloud_off first write the template if there is no
\* file; that write may fail.
Ensure(what) ==
    /\ ipc = "idle"
    /\ before' = conf /\ done' = FALSE
    /\ \/ ipc' = what /\ conf' = IF conf = NoFile THEN Template ELSE conf
       \/ conf = NoFile /\ UNCHANGED <<ipc, conf>>
    /\ UNCHANGED <<blocked, edits>>

\* The repaired lines replace the file as a whole, or the write fails.
EnsureConfFixes ==
    /\ ipc = "all" /\ ipc' = "idle"
    /\ \/ conf' = Fixed(conf, before = NoFile) /\ done' = TRUE
       \/ Fixed(conf, before = NoFile) # conf /\ UNCHANGED <<conf, done>>
    /\ UNCHANGED <<before, blocked, edits>>

EnsureBlockCloudInFile ==
    /\ ipc = "block" /\ ipc' = "idle"
    /\ \/ conf' = fix_lines(conf) /\ done' = TRUE
       \/ fix_lines(conf) # conf /\ UNCHANGED <<conf, done>>
    /\ UNCHANGED <<before, blocked, edits>>

\* The slicer's process loads the file, creating it when there is none.
load_or_create ==
    /\ conf' \in IF conf = NoFile THEN {Template, NoFile} ELSE {conf}
    /\ blocked' = IF conf' = NoFile THEN TRUE ELSE Parsed(conf', "block_cloud", "1") = "1"
    /\ UNCHANGED <<before, ipc, done, edits>>

UserEdit(l) ==
    /\ ipc = "idle" /\ conf # NoFile /\ edits < MaxEdits /\ Len(conf) <= MaxLines
    /\ conf' = Append(conf, l) /\ done' = FALSE /\ edits' = edits + 1
    /\ before' = NoFile
    /\ UNCHANGED <<ipc, blocked>>

ConfNext ==
    \/ \E what \in {"all", "block"} : Ensure(what)
    \/ EnsureConfFixes \/ EnsureBlockCloudInFile \/ load_or_create
    \/ \E l \in Line : UserEdit(l)

-----------------------------------------------------------------------------
\* After the installer's call the plugin reads a block_cloud that is off, however many
\* lines the file has for the key.
CloudOnAfterInstall == done => Parsed(conf, "block_cloud", "1") = "0"

\* A second pass over a file the installer has repaired finds nothing to repair: it is
\* not rewritten, and grows no line, on every start of the plugin.
SecondPassIsIdle == done => fix_lines(conf) = conf

\* What the user wrote stays: the lines of other keys, each in its place and no new one,
\* the logging he chose, and a client name other than the one old templates shipped.
UserValuesKept ==
    done /\ before # NoFile =>
      /\ {<<n, conf[n]>> : n \in {q \in DOMAIN conf : conf[q][1] = "other"}}
           = {<<n, before[n]>> : n \in {q \in DOMAIN before : before[q][1] = "other"}}
      /\ Has(before, "log_to_file") =>
           Parsed(conf, "log_to_file", "0") = Parsed(before, "log_to_file", "0")
      /\ Parsed(before, "client_name", "none") = "mine" =>
           Parsed(conf, "client_name", "none") = "mine"

\* The repair of obn.conf takes effect, is idempotent and keeps what the user wrote.
ConfRepaired == CloudOnAfterInstall /\ SecondPassIsIdle /\ UserValuesKept
===============================================================================
