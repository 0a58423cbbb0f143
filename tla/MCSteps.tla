------------------------------ MODULE MCSteps ------------------------------
(***************************************************************************)
(* Instances of Steps for TLC.                                             *)
(***************************************************************************)
EXTENDS Steps

CONSTANTS t1, t2, main, fn, lib

OneThread  == {t1}
TwoThreads == {t1, t2}
AllMain    == [t \in Threads |-> main]
Deep       == [t \in Threads |-> IF t = t1 THEN 3 ELSE 1]
Deeper     == [t \in Threads |-> IF t = t1 THEN 3 ELSE 2]
TwoCodes   == {main, fn}
ThreeCodes == {main, fn, lib}
JustLib    == {lib}
BreakInFn   == {<<fn, 1>>}
NoCodes    == {}

=============================================================================
