----------------------------- MODULE DurableStore -----------------------------
(***************************************************************************)
(* What a store of one value kept in memory and on disk promises.  The     *)
(* value in memory is set by callers; the one on disk only ever becomes    *)
(* the value in memory, as a whole, or is erased together with it; a       *)
(* process that starts finds what is on disk.  Where files cannot be       *)
(* replaced in one step (atomic is FALSE) the disk may also lose its       *)
(* value, but never shows a part of one.                                   *)
(***************************************************************************)
CONSTANTS Value, Empty

VARIABLES val, disk, up, atomic

dvars == <<val, disk, up, atomic>>

Init == val = Empty /\ disk \in Value /\ up = FALSE /\ atomic \in BOOLEAN

Start == ~up /\ up' = TRUE /\ val' = disk /\ UNCHANGED <<disk, atomic>>

Stop == up /\ up' = FALSE /\ val' = Empty /\ UNCHANGED <<disk, atomic>>

Set == up /\ val' \in Value /\ UNCHANGED <<disk, up, atomic>>

Sync == up /\ disk' = val /\ UNCHANGED <<val, up, atomic>>

Erase == up /\ val' = Empty /\ disk' = Empty /\ UNCHANGED <<up, atomic>>

Lose == ~atomic /\ up /\ disk' = Empty /\ UNCHANGED <<val, up, atomic>>

Next == Start \/ Stop \/ Set \/ Sync \/ Erase \/ Lose

Spec == Init /\ [][Next]_dvars
===============================================================================
