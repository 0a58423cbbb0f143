----------------------------- MODULE MCStaging -----------------------------
(***************************************************************************)
(* Instances of Staging.                                                   *)
(***************************************************************************)
EXTENDS Staging, TLC

CONSTANTS old, new, dev, l1, l2, c1, c2

\* A published build for one interpreter, shadowing an older one farther off,
\* and a development build that the other interpreter falls back to.
MCRoots == << [published |-> ("3.14" :> new), development |-> {}],
              [published |-> ("3.14" :> old), development |-> {dev}] >>
MCTags == {"3.13", "3.14"}
DevAndTagged == (l1 :> "3.13") @@ (l2 :> "3.14")
AllDev == (l1 :> "3.13") @@ (l2 :> "3.13")
=============================================================================
