---------------------------- MODULE PluginDownload ----------------------------
(***************************************************************************)
(* tools/plugin_runner/plugin_downloader.cpp: fetch_plugin asks the        *)
(* vendor's service for a plugin of an ABI, takes it from the cache        *)
(* directory when it is there, and otherwise downloads an archive beside   *)
(* it and unpacks the library straight onto its place in the cache.  A     *)
(* run may end at any step.                                                *)
(***************************************************************************)
EXTENDS Naturals

CONSTANT MaxFetches         \* runs of the tool with --download-only

ASSUME DownloadConstants == MaxFetches \in Nat \ {0}

VARIABLES
    fetch,      \* where fetch_plugin is: idle, ask, archive, extract
    force,      \* --force of this run
    so,         \* libbambu_networking.so in the cache: none, torn, whole
    zip,        \* plugin.zip.partial is there
    fetches     \* runs so far

downloadVars == <<fetch, force, so, zip, fetches>>

DownloadInit ==
    /\ fetch = "idle" /\ force = FALSE /\ so = "none" /\ zip = FALSE /\ fetches = 0

StartFetch ==
    /\ fetch = "idle" /\ fetches < MaxFetches
    /\ fetches' = fetches + 1
    /\ force' \in BOOLEAN
    /\ fetch' = "ask"
    /\ UNCHANGED <<so, zip>>

Cached == ~force /\ so # "none"

(* The metadata query, its checks, and the look into the cache. *)
fetch_plugin ==
    /\ fetch = "ask"
    /\ \/ fetch' = IF Cached THEN "idle" ELSE "archive"
       \/ fetch' = "idle"
    /\ UNCHANGED <<force, so, zip, fetches>>

http_get_file ==
    /\ fetch = "archive"
    /\ \/ fetch' = "extract" /\ zip' = TRUE
       \/ fetch' = "idle" /\ zip' = FALSE
    /\ UNCHANGED <<force, so, fetches>>

(* fopen truncates the library in its place; the copy goes through or fails, and the archive is removed in both cases. *)
unzip_extract_basename ==
    /\ fetch = "extract"
    /\ \/ so' = "whole" /\ zip' = FALSE
       \/ so' \in {so, "torn"} /\ zip' = FALSE
    /\ fetch' = "idle"
    /\ UNCHANGED <<force, fetches>>

RunKilled ==
    /\ fetch \in {"ask", "archive", "extract"}
    /\ so' \in IF fetch = "extract" THEN {so, "torn"} ELSE {so}
    /\ zip' \in IF fetch = "archive" THEN BOOLEAN ELSE {zip}
    /\ fetch' = "idle"
    /\ UNCHANGED <<force, fetches>>

DownloadNext == StartFetch \/ fetch_plugin \/ http_get_file \/ unzip_extract_basename \/ RunKilled
-------------------------------------------------------------------------------
(* A whole library in the cache is given up only by a run with --force that
   got as far as unpacking: no failed query, failed download, killed run or
   run without --force damages it. *)
CachedPluginKept ==
    [][so = "whole" /\ so' # "whole" => force /\ fetch = "extract"]_downloadVars
===============================================================================
