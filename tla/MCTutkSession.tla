--------------------------- MODULE MCTutkSession ---------------------------
(* Instances of TutkSession for TLC. *)
EXTENDS TutkSession

\* Frames 1 to 3; 1 and 3 are keyframes, 1 has two slices.
MCFrameOf == <<1, 1, 2, 3>>
=============================================================================
