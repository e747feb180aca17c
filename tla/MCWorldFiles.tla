---------------------------- MODULE MCWorldFiles ----------------------------
(* Two jobs at a time over two worlds, for TLC. *)
EXTENDS WorldFiles, TLC

\* Nothing tells one job from another, or one world from another.
Symmetry == Permutations(Jobs) \cup Permutations(Worlds)
=============================================================================
