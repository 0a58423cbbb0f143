------------------------------ MODULE MCWorld ------------------------------
(***************************************************************************)
(* Instances of World for TLC.                                             *)
(***************************************************************************)
EXTENDS World, TLC

CONSTANTS t1, t2, t3, p1

OneThread == {t1}
TwoThreads == {t1, t2}
ThreeThreads == {t1, t2, t3}
OnePauser == {p1}
NoPausers == {}

ThreadSymmetry == Permutations(Threads)

=============================================================================
