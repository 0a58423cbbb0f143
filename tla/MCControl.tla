----------------------------- MODULE MCControl -----------------------------
(***************************************************************************)
(* Instances of Control for TLC.                                           *)
(*                                                                         *)
(* One run has two programs.  With a thread that is alone the client asks  *)
(* everything but a pause and the program may finish.  With two threads,   *)
(* the client asks by name and the program does not finish: what goes      *)
(* wrong otherwise is in the README.                                       *)
(***************************************************************************)
EXTENDS Control, TLC

CONSTANTS t1, t2

TwoThreads == {t1, t2}

NamedAsks  == {"census", "stack", "restart", "resume", "step", "pause"}
EveryAsk   == NamedAsks \cup {"setBreakpoints", "resumeAll"}
TableAsks  == {"setBreakpoints", "resume"}
RunAsks    == {"stack", "resumeAll"}

VARIABLE alone   \* whether Main is all of the program

Asking(kinds) == engine' = "asking" => asked'.kind \in kinds

AloneOrNamed ==
    \/ /\ alone
       /\ \A t \in Threads \ {Main} : at'[t] = "running"
       /\ announced' = announced /\ Asking(EveryAsk \ {"pause"})
    \/ /\ ~alone
       /\ at'[Main] # "finished" /\ interrupts' = interrupts /\ Asking(NamedAsks)

BothSpec == /\ alone \in BOOLEAN /\ Init
            /\ [][Next /\ AloneOrNamed /\ UNCHANGED alone]_<<vars, alone>>
            /\ Fairness

=============================================================================
