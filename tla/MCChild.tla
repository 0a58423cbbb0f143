------------------------------ MODULE MCChild ------------------------------
(***************************************************************************)
(* Instances of Child for TLC.                                             *)
(***************************************************************************)
EXTENDS Child, TLC

CONSTANTS root, kid, grandkid, t1, t2

ThreadSymmetry == Permutations(Threads)

=============================================================================
