----------------------------- MODULE MCAdapter -----------------------------
(***************************************************************************)
(* Instances of Adapter: what the client sends, and what of it while       *)
(* another request is outstanding.                                         *)
(***************************************************************************)
EXTENDS Adapter, TLC

CONSTANTS app, lib, main, other

NoLinks == {}
Links == {<<lib, app>>}

\* Starting, configuring, running and ending a program, out of step.
Lifecycle == {"launch", "attach", "configurationDone", "setBreakpoints",
              "bpd/setSuspendPolicies", "setExceptionBreakpoints",
              "bpd/setExceptionClasses", "continue", "pause", "disconnect", "eof"}
Busy == {"configurationDone", "setBreakpoints", "disconnect", "pause"}
IdSymmetry == Permutations(Ids)

\* Every other request, one at a time, of a program that was launched.
Inspection == OfThread \cup OfReference \cup OfProgram \cup
  {"launch", "configurationDone", "initialize", "bpd/understands",
   "bpd/watchRecompositions", "threads", "gotoTargets"}
None == {}
=============================================================================
