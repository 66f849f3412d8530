---------------------------- MODULE ModelThumbnail ----------------------------
(***************************************************************************)
(* Finding the file of a running print on the printer, to show its plate's *)
(* picture (fetch_model_tile_thumbnail, src/src/tunnel_upload.cpp): by the *)
(* file's name, else by the title inside the newest sliced files.  What    *)
(* was read is cached for all fetches by path and time.  A fetch may read  *)
(* only so much; what it could not read is left to the next one.           *)
(*                                                                         *)
(* A file is "here" (the print's title, and its plate is sliced in it),    *)
(* "plate" (the title, but another plate) or "other".                      *)
(***************************************************************************)
EXTENDS Integers, Sequences, FiniteSetsExt, Functions

CONSTANTS
    Models,         \* the paths the printer lists
    Names,          \* the paths named as a print is: a set of sets, {} for a print started there
    Inner,          \* those on the internal storage, the others are on USB
    Finders,        \* the fetches followed in detail
    ReadBudget,     \* kMaxTitleReadsPerFetch
    MaxCandidates,  \* kMaxTitleCandidates
    MaxReplaced,    \* bound: files written while fetches run
    MaxRefusals     \* bound: reads, listings and images the printer does not give

ASSUME ThumbAssumption == ReadBudget \in Nat /\ MaxCandidates \in Nat

Contents == {"here", "plate", "other"}

VARIABLES
    now,       \* the printer's clock, counting writes
    sd,        \* the files: [time, what], time 0 when there is none
    titles,    \* g_titles: [path, time, what]
    timedOut,  \* TitleCache.timed_out: <<path, time>>
    find,      \* the fetches; passed: files passed over because they were refused
    refusals   \* faults so far

thumbVars == <<now, sd, titles, timedOut, find, refusals>>

NoFind == [pc |-> "none", todo |-> {}, all |-> {}, left |-> 0, hit |-> 0, passed |-> {},
           byName |-> FALSE, came |-> {}, img |-> 0]

ThumbInit ==
    /\ sd \in [Models -> [time : {1}, what : Contents]]
    /\ now = 1 /\ titles = {} /\ timedOut = {}
    /\ find = [f \in Finders |-> NoFind] /\ refusals = 0

\* A file is sent to the printer, or is removed.
ModelReplaced(p, k) ==
    /\ now <= MaxReplaced /\ now' = now + 1
    /\ sd' = [sd EXCEPT ![p] = IF k = "gone" THEN [time |-> 0, what |-> "here"]
                               ELSE [time |-> now', what |-> k]]
    /\ UNCHANGED <<titles, timedOut, find, refusals>>

(***************************************************************************)
(* The listings and the candidates.                                        *)
(***************************************************************************)
\* model_list_storages: USB, then the internal storage under both its names.
Listed(ok) == {p \in Models : sd[p].time > 0 /\ (p \in Inner => "internal" \in ok)
                                             /\ (p \notin Inner => "usb" \in ok)}

\* merged_candidates: the kept files as listed, each path once.
merged_candidates(S) == {[path |-> p, time |-> sd[p].time, what |-> sd[p].what] : p \in S}

\* They are tried newest first.
Newest(C) == CHOOSE c \in C : \A d \in C : c.time >= d.time

\* The newest sliced files that are considered at all.
NewestOf(C) ==
    IF Cardinality(C) <= MaxCandidates THEN {C}
    ELSE {K \in SUBSET C : /\ Cardinality(K) = MaxCandidates
                           /\ \A c \in K, d \in C \ K : c.time >= d.time}

TitleKey(c) == <<c.path, c.time>>

\* The key has the time of the file.
SameFile(e, c) == e.path = c.path /\ e.time = c.time

\* fetch_model_tile_thumbnail: a fetch asks for the listings.
FetchBegins(f) ==
    /\ find[f].pc \in {"hit", "none"}
    /\ find' = [find EXCEPT ![f] = [NoFind EXCEPT !.pc = "listing"]]
    /\ UNCHANGED <<now, sd, titles, timedOut, refusals>>

\* The listings have come; files of the name go first, and only they.  Otherwise the cache
\* is reduced to the candidates.
FetchLists(f, ok, names) ==
    /\ find[f].pc = "listing"
    /\ ok # {"usb", "internal"} => refusals < MaxRefusals
    /\ refusals' = refusals + (IF ok = {"usb", "internal"} THEN 0 ELSE 1)
    /\ LET named == Listed(ok) \cap names IN
       \E order \in IF named # {} THEN {merged_candidates(named)}
                    ELSE NewestOf(merged_candidates(Listed(ok))) :
       LET begin == [NoFind EXCEPT !.todo = order, !.all = order, !.left = ReadBudget,
                                   !.byName = (named # {})]
       IN  /\ find' = [find EXCEPT ![f] =
                          IF order = {} THEN NoFind
                          ELSE [begin EXCEPT !.pc = IF named # {} THEN "tile" ELSE "title"]]
           /\ IF named # {} \/ ok = {} THEN UNCHANGED <<titles, timedOut>>
              ELSE /\ titles' = {e \in titles : \E c \in order : SameFile(e, c)}
                   /\ timedOut' = timedOut \cap {TitleKey(c) : c \in order}
    /\ UNCHANGED <<now, sd>>

(***************************************************************************)
(* One member of one archive: SUB_FILE under both names of the storage.    *)
(***************************************************************************)
\* A wire result, or a reply that breaks off or does not end within the deadline.
Cut == 100
LateReply == 101
Answers == {0, 5, 10, Cut, LateReply}

\* title_refusal_is_final: the results of a printer that is busy pass.
title_refusal_is_final(r) == r \notin {-1, 3, 4, 5, 6, 17, 20, 25}

\* read_member: the second label is tried when the first was refused.
read_member(a, b) ==
    LET last == IF a \in {0, Cut, LateReply} THEN a ELSE b IN
    CASE last = 0 -> "data"
      [] last = LateReply -> "late"
      [] last = Cut -> "failed"
      [] OTHER -> IF title_refusal_is_final(a) /\ title_refusal_is_final(b)
                  THEN "refused" ELSE "failed"

\* Refusals are bounded; the silences of a title end by themselves.
Answered(f, r) ==
    /\ IF r = "data" \/ (r = "late" /\ find[f].pc = "asked") THEN UNCHANGED refusals
       ELSE refusals < MaxRefusals /\ refusals' = refusals + 1
    /\ find[f].left > 0

\* The file may have been written again since it was listed.
Content(c) == IF sd[c.path].time = 0 THEN "other" ELSE sd[c.path].what

(***************************************************************************)
(* match_model_by_title                                                    *)
(***************************************************************************)
KnownTitles(c) == {e \in titles : SameFile(e, c)}
CachedTitle(c) == (CHOOSE e \in KnownTitles(c) : TRUE).what

Candidate(f) == Newest(find[f].todo)

\* The next older candidate, if there is one.
Skip(f, spent, refused) ==
    LET c == Candidate(f) IN
    IF find[f].todo = {c} THEN NoFind
    ELSE [find[f] EXCEPT !.todo = @ \ {c}, !.left = @ - spent,
                         !.pc = IF find[f].byName THEN "tile" ELSE "title",
                         !.passed = @ \cup (IF refused THEN {c} ELSE {})]

\* The next candidate is looked up; "titled" is the print's title with the plates unknown.
\* The budget ends the pass at the first unknown file, so that the cache never picks.
LookUp(f) ==
    /\ find[f].pc = "title"
    /\ LET c == Candidate(f) IN
       find' = [find EXCEPT ![f] =
           CASE KnownTitles(c) = {} -> IF @.left = 0 THEN NoFind ELSE [@ EXCEPT !.pc = "asked"]
             [] KnownTitles(c) # {} /\ CachedTitle(c) = "titled" ->
                    IF @.left = 0 THEN NoFind ELSE [@ EXCEPT !.pc = "plates"]
             [] KnownTitles(c) # {} /\ CachedTitle(c) = "here" -> [@ EXCEPT !.pc = "tile"]
             [] OTHER -> Skip(f, 0, CachedTitle(c) # "other")]
    /\ UNCHANGED <<now, sd, titles, timedOut, refusals>>

\* The entry of a file; the mutant writes none, as if a fetch kept them to itself.
RememberedNot(c, what) == titles
Remembered(c, what) ==
    {e \in titles : TitleKey(e) # TitleKey(c)} \cup {[path |-> c.path, time |-> c.time, what |-> what]}

\* What is known of a file once its title was read.
TitleEntry(c, r) ==
    IF r = "refused" THEN "untitled" ELSE IF Content(c) = "other" THEN "other" ELSE "titled"

TitleAnswer(f, r) ==
    /\ find[f].pc = "asked" /\ r \in {"data", "refused"} /\ Answered(f, r)
    /\ LET c == Candidate(f)
           w == TitleEntry(c, r)
       IN  /\ titles' = Remembered(c, w)
           /\ find' = [find EXCEPT ![f] =
                 CASE w # "titled" -> Skip(f, 1, r = "refused")
                   [] w = "titled" /\ @.left = 1 -> NoFind
                   [] OTHER -> [@ EXCEPT !.pc = "plates", !.left = find[f].left - 1]]
    /\ UNCHANGED <<now, sd, timedOut>>

\* A second silence makes the file untitled, unless another fetch has read its title
\* meanwhile.
ReadMeanwhile(c) == KnownTitles(c) # {}

TitleUnanswered(f, r) ==
    /\ find[f].pc = "asked" /\ r \in {"failed", "late"} /\ Answered(f, r)
    /\ find' = [find EXCEPT ![f] = NoFind]
    /\ LET c == Candidate(f) IN
       CASE r = "failed" \/ ReadMeanwhile(c) -> UNCHANGED <<titles, timedOut>>
         [] r = "late" /\ ~ReadMeanwhile(c) /\ TitleKey(c) \in timedOut ->
                titles' = Remembered(c, "untitled") /\ timedOut' = timedOut \ {TitleKey(c)}
         [] OTHER -> timedOut' = timedOut \cup {TitleKey(c)} /\ UNCHANGED titles
    /\ UNCHANGED <<now, sd>>

\* slice_info.config; a final refusal lists no plate.
PlatesAnswer(f, r) ==
    /\ find[f].pc = "plates" /\ Answered(f, r)
    /\ LET c == Candidate(f)
           w == IF r = "data" /\ Content(c) = "here" THEN "here" ELSE "elsewhere"
       IN  IF r \in {"data", "refused"}
           THEN /\ titles' = Remembered(c, w)
                /\ find' = [find EXCEPT ![f] =
                      IF w = "here" THEN [@ EXCEPT !.pc = "tile", !.left = find[f].left - 1]
                      ELSE Skip(f, 1, r = "refused")]
           ELSE find' = [find EXCEPT ![f] = NoFind] /\ UNCHANGED titles
    /\ UNCHANGED <<now, sd, timedOut>>

\* run_sub_file: the images of both sub-paths come in any order, and the one listed
\* first is kept.
BestImage(frames) == Min(Range(frames))

TileAnswer(f, frames) ==
    /\ find[f].pc = "tile"
    /\ LET c == Candidate(f) IN
       IF frames # <<>>
       THEN /\ find' = [find EXCEPT ![f].pc = "hit", ![f].hit = c.path, ![f].todo = {}, ![f].left = 0,
                                    ![f].came = Range(frames), ![f].img = BestImage(frames)]
            /\ UNCHANGED refusals
       ELSE /\ refusals < MaxRefusals /\ refusals' = refusals + 1
            /\ find' = [find EXCEPT ![f] = Skip(f, 0, TRUE)]
    /\ UNCHANGED <<now, sd, titles, timedOut>>

\* A fetch of another cover fills the cache meanwhile; a title it asks for may be late.
OtherFetch(p) ==
    /\ sd[p].time > 0
    /\ LET c == [path |-> p, time |-> sd[p].time] IN
       /\ KnownTitles(c) = {}
       /\ \/ titles' = Remembered(c, IF sd[p].what = "other" THEN "other" ELSE "titled")
             /\ UNCHANGED <<timedOut, refusals>>
          \/ timedOut' = timedOut \cup {TitleKey(c)} /\ UNCHANGED titles
             /\ refusals < MaxRefusals /\ refusals' = refusals + 1
    /\ UNCHANGED <<now, sd, find>>

ThumbReads == {read_member(a, b) : a \in Answers, b \in Answers}

\* A title is read with a deadline.
TitleStep(f) ==
    \/ LookUp(f)
    \/ \E r \in ThumbReads : TitleAnswer(f, r) \/ TitleUnanswered(f, r) \/ PlatesAnswer(f, r)

\* A listing and a picture are waited for as long as the printer keeps the connection.
AwaitsPrinter(f) == find[f].pc \in {"listing", "tile"}

FilesAnswered(f) ==
    \/ \E ok \in SUBSET {"usb", "internal"}, names \in Names : FetchLists(f, ok, names)
    \/ \E frames \in {<<>>, <<2>>, <<1, 2>>, <<2, 1>>} : TileAnswer(f, frames)

ThumbNext ==
    \/ \E p \in Models, k \in Contents \cup {"gone"} : ModelReplaced(p, k)
    \/ \E f \in Finders : FetchBegins(f) \/ TitleStep(f) \/ FilesAnswered(f)
    \/ \E p \in Models : OtherFetch(p)

-----------------------------------------------------------------------------
Unchanged(c) == sd[c.path].time = c.time
Hit(f) == CHOOSE c \in find[f].all : c.path = find[f].hit

\* The cover comes from the newest file, of those considered, with the print's title and
\* plate that the printer lets be read, whatever the cache knew before and whatever was written meanwhile.
NewestMatchWins ==
    \A f \in Finders : find[f].pc = "hit" /\ ~find[f].byName =>
        /\ Unchanged(Hit(f)) => Hit(f).what = "here"
        /\ \A c \in find[f].all :
               c.time > Hit(f).time /\ Unchanged(c) /\ c.what = "here" => c \in find[f].passed

\* What the cache says of a file that has not changed is true of it, but for the files the
\* printer did not let be read.
CacheIsTrue ==
    \A e \in titles : Unchanged(e) =>
        CASE e.what = "here" -> sd[e.path].what = "here"
          [] e.what = "titled" -> sd[e.path].what # "other"
          [] e.what = "other" -> sd[e.path].what = "other"
          [] OTHER -> TRUE

\* A title that was read is never lost to a silence of another fetch.
TitleKept ==
    [][\A e \in titles : e.what # "untitled" /\ timedOut' # timedOut =>
          ~\E n \in titles' : TitleKey(n) = TitleKey(e) /\ n.what = "untitled"]_thumbVars

\* The picture kept is the best of those that came, whatever order they came in.
BestPicture == \A f \in Finders : find[f].pc = "hit" => find[f].img = Min(find[f].came)

\* However little one fetch may read, a file of the print that stays on the printer, is
\* readable and among the newest MaxCandidates is found again and again, unless the printer
\* leaves a listing or a picture without an answer.
Findable ==
    /\ \E p \in Models :
          /\ sd[p].time > 0 /\ sd[p].what = "here"
          /\ Cardinality({q \in Models : sd[q].time >= sd[p].time}) <= MaxCandidates
    /\ \A e \in titles : e.what \notin {"untitled", "elsewhere"} \/ sd[e.path].what # "here"

FoundInTheEnd ==
    \A f \in Finders : <>[]Findable /\ []<>~AwaitsPrinter(f) => []<>(find[f].pc = "hit")

\* The search: the right file, the best picture, a cache that is true and forgets no title,
\* and a file that can be found is found.
ModelSound ==
    /\ []NewestMatchWins /\ []BestPicture
    /\ []CacheIsTrue /\ TitleKept
    /\ FoundInTheEnd
===============================================================================
