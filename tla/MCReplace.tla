----------------------------- MODULE MCReplace -----------------------------
(***************************************************************************)
(* Instances of Replace: a method that makes functions, and is moved or no *)
(* longer makes them, and a file with nothing in it.  They share a run     *)
(* with Breakpoints; a behaviour is of one of them.                        *)
(***************************************************************************)
EXTENDS MCBreakpoints, Replace

CONSTANTS edited, plain

Node(name, kind, parts, does, line) ==
    [name |-> name, kind |-> kind, parts |-> parts, does |-> does, params |-> 0,
     free |-> {}, literals |-> 0, line |-> line]

(* The module, its class, a method of it that makes functions, and those. *)
Class(made, does, line, functions) ==
    <<Node("module", "module", <<2>>, 0, 1), Node("C", "class", <<3>>, 0, line),
      Node("C.f", "function", made, does, line)>> \o functions

Inner(line) == <<Node("C.f.g", "function", <<>>, 0, line)>>

MCTree == [nested  |-> Class(<<4>>, 0, 1, Inner(1)),
           moved   |-> Class(<<4>>, 0, 2, Inner(2)),
           dropped |-> Class(<<>>, 2, 1, <<>>),
           empty   |-> <<Node("module", "module", <<>>, 0, 1)>>]

MCTexts    == [f \in Sources |->
                 IF f = edited THEN {"nested", "moved", "dropped"} ELSE {"empty"}]
MCOriginal == [f \in Sources |-> IF f = edited THEN "nested" ELSE "empty"]

VARIABLE part   \* what a behaviour is of: "breakpoints" or "replacement"

PartsInit == BreakpointsInit /\ ReplaceInit /\ part \in {"breakpoints", "replacement"}

PartsNext ==
    \/ part = "breakpoints" /\ BreakpointsNext /\ UNCHANGED <<rvars, part>>
    \/ part = "replacement" /\ ReplaceNext /\ UNCHANGED <<bvars, part>>

PartsSpec == PartsInit /\ [][PartsNext]_<<bvars, rvars, part>>

=============================================================================
