------------------------------- MODULE MCFork -------------------------------
(***************************************************************************)
(* Instances of Fork for TLC.                                              *)
(***************************************************************************)
EXTENDS Fork

CONSTANTS f1, f2, a1, a2

TwoForkers == {f1, f2}
TwoAnswerers == {a1, a2}

=============================================================================
