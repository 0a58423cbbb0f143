------------------------------ MODULE Holding ------------------------------
(***************************************************************************)
(* What the control connection promises about held threads, with no        *)
(* messages in it.  A thread stops; the client comes to know of the stop;  *)
(* stops the client knows of are let go together; the client forgets them. *)
(* A stop is never let go before it was known, and none is learned of      *)
(* after it ended.                                                         *)
(***************************************************************************)
EXTENDS Naturals

CONSTANTS Threads, MaxStops

VARIABLES
    stopped,  \* the stops in force
    known,    \* the stops the client takes to be in force
    last      \* the number of the last stop

vars == <<stopped, known, last>>

Init == stopped = {} /\ known = {} /\ last = 0

Stop(t) ==
    /\ last < MaxStops
    /\ \A e \in stopped : e.thread # t
    /\ last' = last + 1
    /\ stopped' = stopped \cup {[stop |-> last', thread |-> t]}
    /\ UNCHANGED known

Learn(e) ==
    /\ e \in stopped \ known
    /\ known' = known \cup {e}
    /\ UNCHANGED <<stopped, last>>

LetGo(S) ==
    /\ S # {} /\ S \subseteq stopped \cap known
    /\ stopped' = stopped \ S
    /\ UNCHANGED <<known, last>>

\* Only a stop that is over is forgotten, and all of those let go together are.
Forget ==
    /\ known \ stopped # {}
    /\ known' = known \cap stopped
    /\ UNCHANGED <<stopped, last>>

Next ==
    \/ \E t \in Threads : Stop(t)
    \/ \E e \in stopped : Learn(e)
    \/ \E S \in SUBSET stopped : LetGo(S)
    \/ Forget

Spec == Init /\ [][Next]_vars

=============================================================================
