---------------------------- MODULE MCFileTunnel ----------------------------
(* Instances of FileTunnel for TLC. *)
EXTENDS FileTunnel, TLC

Symmetry == Permutations(Threads) \cup Permutations(Jobs)
=============================================================================
