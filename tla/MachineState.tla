----------------------------- MODULE MachineState -----------------------------
(***************************************************************************)
(* The remembered printer: Agent::set_config_dir and                       *)
(* set_user_selected_machine (src/src/agent.cpp) over the small store of   *)
(* src/src/state.cpp.  The slicer's main thread makes the calls; a write   *)
(* of the file may fail, and the process may end between two calls.        *)
(***************************************************************************)
EXTENDS Naturals

CONSTANTS Devs, NoMachine, MaxWriteFaults, MaxRestarts

VARIABLES
    slicerRuns,    \* the process runs
    live,       \* Agent::user_selected_machine_
    remembered, \* Agent::remembered_machine_
    store,      \* Store::remembered_machine_, or "no store" before set_config_dir
    persisted,  \* Store::persisted_
    stateFile,  \* obn.state.json
    faults, restarts

machineVars == <<slicerRuns, live, remembered, store, persisted, stateFile, faults, restarts>>

NoStore == "no store"

MachineInit ==
    /\ slicerRuns = FALSE /\ live = NoMachine /\ remembered = NoMachine
    /\ store = NoStore /\ persisted = TRUE
    /\ stateFile \in Devs \cup {NoMachine} /\ faults = 0 /\ restarts = 0

\* remember_machine needs no write for a deselection, nor for the machine it already
\* holds when that one is on disk.
Held(d) == d = NoMachine \/ (d = store /\ persisted)

\* The file takes the machine, unless the write fails.
Persist(d) ==
    /\ store' = d
    /\ \/ persisted' = TRUE /\ stateFile' = d /\ faults' = faults
       \/ /\ faults < MaxWriteFaults /\ faults' = faults + 1
          /\ persisted' = FALSE /\ UNCHANGED stateFile

RememberMachine(d) ==
    IF store = NoStore \/ Held(d)
    THEN UNCHANGED <<store, persisted, stateFile, faults>>
    ELSE Persist(d)

set_user_selected_machine(d) ==
    /\ slicerRuns
    /\ live' = d
    /\ remembered' = IF d = NoMachine THEN remembered ELSE d
    /\ RememberMachine(d)
    /\ UNCHANGED <<slicerRuns, restarts>>

\* What a restored id fills: the remembered machine, unless Studio chose one before.
\* The mutant lets the file win.
RestoredNot == stateFile
Restored == IF remembered = NoMachine THEN stateFile ELSE remembered

\* The store is loaded once per directory; then the live choice is remembered.
set_config_dir ==
    /\ slicerRuns
    /\ IF store # NoStore
       THEN RememberMachine(live) /\ UNCHANGED remembered
       ELSE /\ remembered' = Restored
            /\ IF live \in {NoMachine, stateFile}
               THEN store' = stateFile /\ persisted' = TRUE /\ UNCHANGED <<stateFile, faults>>
               ELSE Persist(live)
    /\ UNCHANGED <<slicerRuns, live, restarts>>

LaunchSlicer ==
    /\ ~slicerRuns /\ slicerRuns' = TRUE
    /\ UNCHANGED <<live, remembered, store, persisted, stateFile, faults, restarts>>

EndSlicer ==
    /\ slicerRuns /\ restarts < MaxRestarts
    /\ slicerRuns' = FALSE /\ restarts' = restarts + 1
    /\ live' = NoMachine /\ remembered' = NoMachine /\ store' = NoStore /\ persisted' = TRUE
    /\ UNCHANGED <<stateFile, faults>>

SelectMachine == \E d \in Devs \cup {NoMachine} : set_user_selected_machine(d)

MachineNext == SelectMachine \/ set_config_dir \/ LaunchSlicer \/ EndSlicer

\* The slicer asserts its selection again on every cloud reconnect.
Reassert == live # NoMachine /\ set_user_selected_machine(live)

user_selected_machine == IF live = NoMachine THEN remembered ELSE live

-----------------------------------------------------------------------------
\* What the store believes to be on disk is on disk.
BeliefIsTrue == store # NoStore /\ persisted => stateFile = store

\* The machine the slicer is told of is the last one it chose in this process, even if
\* the file of the session before names another and was read after the choice.
LiveChoiceWins ==
    [][slicerRuns /\ slicerRuns' /\ user_selected_machine # NoMachine =>
         user_selected_machine' \in {user_selected_machine, live'}]_machineVars

\* A choice the slicer sticks to reaches the file, although writes of it failed before.
ChoiceReachesDisk ==
    \A d \in Devs : (slicerRuns /\ live = d) ~> (stateFile = d \/ live # d)
===============================================================================
