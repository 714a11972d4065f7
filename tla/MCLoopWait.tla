----------------------------- MODULE MCLoopWait -----------------------------
(* Instances of LoopWait for TLC. *)
EXTENDS LoopWait, TLC

CONSTANTS f1, f2, f3

Symmetry == Permutations(Fds)
=============================================================================
