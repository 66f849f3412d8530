------------------------------ MODULE PresetSync ------------------------------
(***************************************************************************)
(* User presets kept in the cloud (abi_presets.cpp, cloud_presets.cpp).    *)
(* get_setting_list2 lists the catalogue, asks the slicer preset by preset *)
(* whether it wants the body, and fills a cache in the agent;              *)
(* get_user_presets hands the cache over.  The slicer deletes every        *)
(* uploaded preset whose name is not among the keys it is given, so a name *)
(* lost on the way is a preset lost on disk.  The slicer also uploads,     *)
(* updates and deletes presets, and so does another device of the same     *)
(* account.                                                                *)
(*                                                                         *)
(* A version of a preset is its time, 0 when there is none; what is in it  *)
(* is left out.  Time 1 is that of a preset never uploaded and of one      *)
(* whose body did not parse.  One thread of the slicer syncs and uploads,  *)
(* in turn.                                                                *)
(***************************************************************************)
EXTENDS Naturals, FiniteSets

CONSTANTS
    PresetNames,    \* names of presets
    MaxWrites       \* the time of the last version written to the cloud

ASSUME PresetConstants == MaxWrites \in Nat \ {0}

VARIABLES
    catalogue,  \* the cloud: name -> time of its version, 0 if none
    writer,     \* who wrote it last: us, another device, us with the answer lost
    clock,      \* time of the last version written so far
    local,      \* the slicer: name -> updated_time, 0 if none
    uploaded,   \* local presets that have a setting_id
    cached,     \* preset_cache_: name -> none, thin, blank, or the time of a full entry
    syncing,    \* idle, fetch, done
    listed,     \* what list() returned: name -> time
    todo        \* names of it still to be handled

presetVars == <<catalogue, writer, clock, local, uploaded, cached, syncing, listed, todo>>
cloudVars == <<catalogue, writer, clock>>
syncVars == <<cached, syncing, listed, todo>>

NamesIn(f) == {n \in PresetNames : f[n] # 0}
NoEntry == 0
Thin == MaxWrites + 1
Blank == MaxWrites + 2
Oldest == 1

PresetInit ==
    /\ catalogue = [n \in PresetNames |-> 0] /\ clock = Oldest
    /\ writer = [n \in PresetNames |-> "us"]
    /\ local = [n \in PresetNames |-> 0] /\ uploaded = {}
    /\ cached = [n \in PresetNames |-> NoEntry]
    /\ syncing = "idle" /\ listed = [n \in PresetNames |-> 0] /\ todo = {}
-------------------------------------------------------------------------------
preset_cache_reset == [n \in PresetNames |-> NoEntry]

(* The sync.  A failed list changes nothing, the cache included. *)
list ==
    /\ syncing = "idle"
    /\ listed' = catalogue
    /\ todo' = NamesIn(catalogue)
    /\ cached' = preset_cache_reset
    /\ syncing' = "fetch"
    /\ UNCHANGED <<cloudVars, local, uploaded>>

(* CheckFn: the slicer wants what is newer than its own. *)
chk_fn(n) == local[n] < listed[n]

(* The entry put for a preset, by what get_full brought. *)
EntryNot(n, fetched) == IF chk_fn(n) THEN fetched ELSE NoEntry
Entry(n, fetched) == IF chk_fn(n) /\ fetched # 0 THEN fetched ELSE Thin

(* get_full brings the version of now, which is not older than the listed
   one, or fails; the preset may be gone by now, which is a failure too.  A
   body that does not parse is a success without settings, of time 1. *)
fill_values_from_full(n) == catalogue[n]
get_full(n) == {0, fill_values_from_full(n), Blank}

sync_user_presets(n) ==
    /\ syncing = "fetch" /\ n \in todo
    /\ todo' = todo \ {n}
    /\ \E fetched \in get_full(n) : cached' = [cached EXCEPT ![n] = Entry(n, fetched)]
    /\ UNCHANGED <<cloudVars, local, uploaded, syncing, listed>>

CancelSync ==
    /\ syncing = "fetch" /\ todo # {}
    /\ syncing' = "idle" /\ todo' = {}
    /\ UNCHANGED <<cloudVars, local, uploaded, cached, listed>>

SyncDone ==
    /\ syncing = "fetch" /\ todo = {}
    /\ syncing' = "done"
    /\ UNCHANGED <<cloudVars, local, uploaded, cached, listed, todo>>

(* The slicer loads what it was given; a blank entry, older than all others,
   replaces none. *)
Loaded(n) == IF cached[n] # Blank THEN cached[n]
             ELSE IF local[n] = 0 THEN Oldest ELSE local[n]

(* Drained by the slicer, which then removes and loads presets by it. *)
get_user_presets ==
    /\ syncing = "done"
    /\ LET keys == NamesIn(cached)
           full == {n \in keys : cached[n] # Thin}
       IN /\ local' = [n \in PresetNames |-> IF n \in full THEN Loaded(n)
                                             ELSE IF n \in uploaded \ keys THEN 0 ELSE local[n]]
          /\ uploaded' = (uploaded \cap keys) \cup full
    /\ cached' = [n \in PresetNames |-> NoEntry]
    /\ syncing' = "idle"
    /\ UNCHANGED <<cloudVars, listed, todo>>
-------------------------------------------------------------------------------
(* Uploads of the slicer.  The answer may be lost after the write. *)
SaveLocal(n) ==
    /\ local[n] = 0 /\ clock < MaxWrites
    /\ local' = [local EXCEPT ![n] = Oldest]
    /\ UNCHANGED <<cloudVars, uploaded, syncVars>>

CloudHas(n, who) ==
    /\ clock < MaxWrites
    /\ clock' = clock + 1
    /\ catalogue' = [catalogue EXCEPT ![n] = clock + 1]
    /\ writer' = [writer EXCEPT ![n] = who]

Refreshed(n, t) == [local EXCEPT ![n] = t]

create(n) ==
    /\ syncing = "idle" /\ local[n] # 0 /\ n \notin uploaded
    /\ \/ /\ CloudHas(n, "us")
          /\ local' = Refreshed(n, clock + 1) /\ uploaded' = uploaded \cup {n}
       \/ CloudHas(n, "lost") /\ UNCHANGED <<local, uploaded>>
    /\ UNCHANGED syncVars

update(n) ==
    /\ syncing = "idle" /\ n \in uploaded /\ catalogue[n] # 0
    /\ \/ CloudHas(n, "us") /\ local' = Refreshed(n, clock + 1)
       \/ CloudHas(n, "lost") /\ UNCHANGED local
    /\ UNCHANGED <<uploaded, syncVars>>

del(n) ==
    /\ syncing = "idle" /\ n \in uploaded
    /\ local' = [local EXCEPT ![n] = 0] /\ uploaded' = uploaded \ {n}
    /\ \/ catalogue' = [catalogue EXCEPT ![n] = 0]
       \/ UNCHANGED catalogue
    /\ UNCHANGED <<writer, clock, syncVars>>

OtherDevice(n) ==
    /\ \/ CloudHas(n, "other")
       \/ catalogue[n] # 0 /\ catalogue' = [catalogue EXCEPT ![n] = 0] /\ UNCHANGED <<writer, clock>>
    /\ UNCHANGED <<local, uploaded, syncVars>>

PresetNext ==
    \/ list \/ CancelSync \/ SyncDone \/ get_user_presets
    \/ \E n \in PresetNames : \/ sync_user_presets(n) \/ SaveLocal(n) \/ create(n) \/ update(n)
                              \/ del(n) \/ OtherDevice(n)
-------------------------------------------------------------------------------
(* A preset of the slicer is removed by a sync only if the catalogue that
   the sync listed did not have it: not because its body could not be
   fetched, was not wanted, or vanished meanwhile (the comment above
   meta_to_minimal_values_map). *)
ListedPresetsKept ==
    [][syncing = "done" /\ syncing' = "idle"
         => \A n \in PresetNames : local[n] # 0 /\ local'[n] = 0 => listed[n] = 0]_presetVars

(* A sync never takes a preset back: what it loads is at least as new as
   what the slicer had, however the cloud changed between list and fetch. *)
NeverOlder ==
    [][syncing = "done" /\ syncing' = "idle"
         => \A n \in PresetNames : local'[n] # 0 => local'[n] >= local[n]]_presetVars

(* After an upload that was answered the slicer has the cloud's time, so the
   next sync does not fetch the slicer's own preset back; or it has a blank
   one instead, which every sync fetches again. *)
OwnUploadIsKnown ==
    \A n \in uploaded :
        writer[n] = "us" /\ catalogue[n] # 0 => local[n] \in {catalogue[n], Oldest}

\* A sync loses no preset, takes none back and does not fetch the slicer's own.
PresetsSound == ListedPresetsKept /\ NeverOlder /\ []OwnUploadIsKnown
===============================================================================
