------------------------------ MODULE MCStream ------------------------------
(***************************************************************************)
(* Instances of Stream for TLC.                                            *)
(***************************************************************************)
EXTENDS Stream

CONSTANTS t1, t2

TwoThreads == {t1, t2}

=============================================================================
