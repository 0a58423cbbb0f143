---- MODULE MCBreakpoints ----
(***************************************************************************)
(* Two files: app holds a function fn, lib a function g.  app can be       *)
(* replaced by a tree in which fn differs, or in which it does not.      *)
(***************************************************************************)
EXTENDS Breakpoints, TLC

CONSTANTS t1, t2, app, fn, app2, fn2, lib, g

ThreadSym == Permutations(Runners)

MCCodes == {app, fn, app2, fn2, lib, g}
MCShape ==
    app  :> [file |-> "app", module |-> TRUE,  first |-> 1, lines |-> {1}, holds |-> {app, fn}]
 @@ fn   :> [file |-> "app", module |-> FALSE, first |-> 1, lines |-> {2, 3}, holds |-> {fn}]
 @@ app2 :> [file |-> "app", module |-> TRUE,  first |-> 1, lines |-> {1}, holds |-> {app2, fn2}]
 @@ fn2  :> [file |-> "app", module |-> FALSE, first |-> 1, lines |-> {2, 3}, holds |-> {fn2}]
 @@ lib  :> [file |-> "lib", module |-> TRUE,  first |-> 1, lines |-> {1},    holds |-> {lib, g}]
 @@ g    :> [file |-> "lib", module |-> FALSE, first |-> 1, lines |-> {2},    holds |-> {g}]

Put(differs) ==
    [module |-> app2,
     becomes |-> app :> [new |-> app2, differs |-> TRUE] @@ fn :> [new |-> fn2, differs |-> differs]]

MCTrees   == {Put(TRUE)}
SameTrees == {Put(FALSE)}

At(id, file, line, after, hits, condition) ==
    [id |-> id, file |-> file, line |-> line, after |-> after, hits |-> hits,
     condition |-> condition]

First  == At(1, "app", 2, 0, 0, TRUE)
Second == At(2, "lib", 2, 0, 1, FALSE)
InTurn == At(3, "app", 3, 1, 0, FALSE)

MCSets == {{First, Second}, {First, Second, InTurn}}
OneSet == {{At(1, "app", 2, 0, 0, FALSE)}}
====
