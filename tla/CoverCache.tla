------------------------------ MODULE CoverCache ------------------------------
(***************************************************************************)
(* The picture of the print that Studio shows: the plugin stages the image *)
(* of the archive it uploads, a worker per cover writes it, or the         *)
(* printer's, to a file (src/src/cover_cache.cpp), Studio is told of it    *)
(* when the printer reports the job (agent.cpp).  All prints here have the *)
(* same name and plate; a print's number stands for its image and for the  *)
(* version (task_id) it is reported with.  Version 0 is the report that    *)
(* still has no task_id.                                                   *)
(***************************************************************************)
EXTENDS Naturals, FiniteSets

CONSTANTS
    Prints,      \* 1..n: the prints of the name
    Fetchers,    \* worker threads
    Torn,        \* what a file shows while it is written
    MaxFetchFaults   \* bound: fetches and writes that fail

Versions == Prints \cup {0}
NoImage == 0

ASSUME CoverAssumption == Prints \subseteq Nat \ {0} /\ Torn \notin Versions

VARIABLES
    print,     \* the last print started
    staged,    \* g_staged: the image for the name
    coverFiles,\* the cover files: an image, NoImage or Torn
    inflight,  \* g_inflight
    negCovers,       \* g_neg_cache
    worker,    \* fetch workers
    fetchFaults

coverVars == <<print, staged, coverFiles, inflight, negCovers, worker, fetchFaults>>

IdleWorker == [pc |-> "idle", ver |-> 0, img |-> NoImage, own |-> FALSE]

CoverInit ==
    /\ print = 0 /\ staged = NoImage
    /\ coverFiles = [v \in Versions |-> NoImage]
    /\ inflight = {} /\ negCovers = {} /\ worker = [w \in Fetchers |-> IdleWorker]
    /\ fetchFaults = 0

(***************************************************************************)
(* A print job stages the plate's image before it uploads the archive.     *)
(***************************************************************************)
\* An archive without the plate's image takes the one staged before away.
StagedBy(k, have) == IF have THEN k ELSE NoImage

stage_from_3mf(have) ==
    /\ print + 1 \in Prints /\ print' = print + 1
    /\ staged' = StagedBy(print', have)
    /\ UNCHANGED <<coverFiles, inflight, negCovers, worker, fetchFaults>>

\* The image is forgotten after three hours, or when the job did not start.
Unstage ==
    /\ staged # NoImage /\ staged' = NoImage
    /\ UNCHANGED <<print, coverFiles, inflight, negCovers, worker, fetchFaults>>

(***************************************************************************)
(* notify_local_message: a report of a LAN print makes sure that its cover *)
(* is there.                                                               *)
(***************************************************************************)
\* claim_inflight: one worker per cover; the mutant starts one for every report.
ClaimNot(v) == TRUE
Claim(v) == v \notin inflight

Report(v, w) ==
    /\ print > 0 /\ v \in {0, print}
    /\ IF coverFiles[v] = NoImage /\ v \notin negCovers /\ Claim(v)
       THEN /\ worker[w].pc = "idle"
            /\ inflight' = inflight \cup {v}
            /\ worker' = [worker EXCEPT ![w] = [IdleWorker EXCEPT !.pc = "staged", !.ver = v]]
       ELSE UNCHANGED <<inflight, worker>>
    /\ UNCHANGED <<print, staged, coverFiles, negCovers, fetchFaults>>

(***************************************************************************)
(* fetch_worker                                                            *)
(***************************************************************************)
Step(w, pc, img) == worker' = [worker EXCEPT ![w].pc = pc, ![w].img = img]

\* No cover for the next 60 seconds.
GiveUp(w) ==
    /\ fetchFaults < MaxFetchFaults /\ fetchFaults' = fetchFaults + 1
    /\ negCovers' = negCovers \cup {worker[w].ver} /\ Step(w, "leave", NoImage)

\* write_staged looks for an image, then the printer is asked over :6000.
FetchStaged(w) ==
    /\ worker[w].pc = "staged"
    /\ worker' = [worker EXCEPT ![w].pc = IF staged = NoImage THEN "fetch" ELSE "write",
                                ![w].img = staged, ![w].own = (staged # NoImage)]
    /\ UNCHANGED <<print, staged, coverFiles, inflight, negCovers, fetchFaults>>

FetchPrinter(w) ==
    /\ worker[w].pc = "fetch"
    /\ \/ Step(w, "write", print) /\ UNCHANGED <<negCovers, fetchFaults>>
       \/ GiveUp(w)
    /\ UNCHANGED <<print, staged, coverFiles, inflight>>

\* write_atomic: the sibling file is truncated and written, then renamed.  A second
\* worker that has opened the same sibling would still be writing the renamed file.
WriteOpen(w) ==
    /\ worker[w].pc = "write"
    /\ Step(w, "rename", worker[w].img)
    /\ UNCHANGED <<print, staged, coverFiles, inflight, negCovers, fetchFaults>>

SharesSibling(w) ==
    \E o \in Fetchers \ {w} : worker[o].pc = "rename" /\ worker[o].ver = worker[w].ver

WriteRename(w) ==
    /\ worker[w].pc = "rename"
    /\ coverFiles' = [coverFiles EXCEPT ![worker[w].ver] =
                            IF SharesSibling(w) THEN Torn ELSE worker[w].img]
    /\ Step(w, "leave", NoImage)
    /\ UNCHANGED <<print, staged, inflight, negCovers, fetchFaults>>

\* A staged image that cannot be written leaves the printer to be asked.
WriteFails(w) ==
    /\ worker[w].pc = "rename"
    /\ IF worker[w].own
       THEN /\ fetchFaults < MaxFetchFaults /\ fetchFaults' = fetchFaults + 1
            /\ worker' = [worker EXCEPT ![w].pc = "fetch", ![w].own = FALSE]
            /\ UNCHANGED negCovers
       ELSE GiveUp(w)
    /\ UNCHANGED <<print, staged, coverFiles, inflight>>

\* ScopeRelease.
Released(w) == inflight \ {worker[w].ver}

FetchLeave(w) ==
    /\ worker[w].pc = "leave"
    /\ inflight' = Released(w)
    /\ worker' = [worker EXCEPT ![w] = IdleWorker]
    /\ UNCHANGED <<print, staged, coverFiles, negCovers, fetchFaults>>

NegCoverExpires ==
    /\ negCovers # {} /\ negCovers' = {}
    /\ UNCHANGED <<print, staged, coverFiles, inflight, worker, fetchFaults>>

FetchStep(w) ==
    \/ FetchStaged(w) \/ FetchPrinter(w) \/ WriteOpen(w)
    \/ WriteRename(w) \/ WriteFails(w) \/ FetchLeave(w)

CoverNext ==
    \/ \E have \in BOOLEAN : stage_from_3mf(have)
    \/ \E v \in Versions, w \in Fetchers : Report(v, w)
    \/ \E w \in Fetchers : FetchStep(w)
    \/ Unstage \/ NegCoverExpires

-----------------------------------------------------------------------------
\* No cover of a print shows an earlier print of the same name, wherever the image came
\* from and however late the worker is.
CoverIsNotOlder == \A v \in Prints : coverFiles[v] \notin 1..v - 1

\* A cover file is a whole image: no two workers write the same sibling file.
CoverIsWhole == \A v \in Versions : coverFiles[v] # Torn

\* A claim is held by a worker that is still under way and gives it back when it ends: a
\* cover that could not be fetched can be fetched again.
ClaimHasWorker ==
    \A v \in inflight : \E w \in Fetchers : worker[w].pc # "idle" /\ worker[w].ver = v

\* A cover is whole and not of an earlier print, and a claim on it is held by somebody.
CoversSound == CoverIsWhole /\ CoverIsNotOlder /\ ClaimHasWorker
===============================================================================
