------------------------------- MODULE Script -------------------------------
(***************************************************************************)
(* Walking a debug script against a debuggee:                              *)
(* crates/bpd_engine/src/launch/script.rs, with the scripts, records and   *)
(* outcomes of crates/bpd_core/src/script.rs.  The engine drives one       *)
(* thread, the one that the stop it was started at holds, while the rest   *)
(* of the program runs, stops and ends as it likes.                        *)
(*                                                                         *)
(* A request and its answer are one step, taken when the agent answers:    *)
(* what is on the connection by then is read aside first.  What a step     *)
(* reads is abstracted to whether it answered.                             *)
(***************************************************************************)
EXTENDS Integers, Sequences, FiniteSets, SequencesExt

CONSTANTS
    Threads,    \* of the program
    Mine,       \* the one that the script drives
    Scripts,    \* the scripts that are submitted
    MaxSteps,   \* their budget of steps
    MaxBytes,   \* their budget of bytes, of which a record is one
    MaxStops    \* bound: how often the program stops

ASSUME MineAssumption == Mine \in Threads
ASSUME BudgetAssumption == {MaxSteps, MaxBytes, MaxStops} \subseteq Nat \ {0}

VARIABLES
    at,        \* where each thread is: a stop, or AtLarge or AtEnd
    history,   \* the stops the program has made, in order
    stepping,  \* whether a step of the script's thread is in flight
    own,       \* whether the script's own breakpoint is in the agent's table
    finishing, \* whether the program has said that it is held at its end
    wire,      \* what the agent has said and the engine has not read
    held,      \* the stops that the engine holds
    script,    \* the script that was submitted
    cursor,    \* the stop it is at
    todo,      \* the steps it has before it
    doing,     \* what the step being run waits for, or Idle
    spent,     \* the steps it has been charged for
    records,   \* its transcript
    outcome,   \* how it ended, or Underway
    late       \* whether its clock has run out

program == <<at, history, stepping, own, finishing, wire>>
run     == <<held, script, cursor, todo, doing, spent, records, outcome>>
svars   == <<program, run, late>>

AtLarge  == 0
AtEnd    == -1
Underway == "under way"

Waits(what, from, landed) == [for |-> what, from |-> from, landed |-> landed]
Idle == Waits("nothing", 0, "none")

-----------------------------------------------------------------------------
(***************************************************************************)
(* Scripts.                                                                *)
(***************************************************************************)

Leaf(do) == [do |-> do, limit |-> 0, pass |-> 0, then |-> <<>>, otherwise |-> <<>>]

Branch(then, otherwise) ==
    [do |-> "if", limit |-> 0, pass |-> 0, then |-> then, otherwise |-> otherwise]

Repeat(limit, body) ==
    [do |-> "while", limit |-> limit, pass |-> 1, then |-> body, otherwise |-> <<>>]

(* How many records a script can make. *)
RECURSIVE AtMost(_)
AtMost(steps) ==
    LET of(step) ==
            CASE step.do = "if" ->
                    1 + (IF AtMost(step.then) > AtMost(step.otherwise)
                         THEN AtMost(step.then) ELSE AtMost(step.otherwise))
              [] step.do = "while" -> step.limit * (1 + AtMost(step.then)) + 1
              [] OTHER -> 1
    IN  FoldLeft(LAMBDA n, step : n + of(step), 0, steps)

-----------------------------------------------------------------------------
(***************************************************************************)
(* The program.                                                            *)
(***************************************************************************)

IsOver == \A t \in Threads : at[t] = AtEnd

(* A breakpoint is the process's: any thread may come to the script's own. *)
Hit(t, why) ==
    /\ at[t] = AtLarge /\ Len(history) < MaxStops
    /\ why = "own" => own
    /\ why = "stepped" => t = Mine /\ stepping
    /\ LET stop == [says |-> "stopped", stop |-> Len(history) + 1, thread |-> t, why |-> why] IN
       /\ history' = Append(history, stop)
       /\ at' = [at EXCEPT ![t] = stop.stop]
       /\ wire' = Append(wire, stop)
    /\ stepping' = (stepping /\ t # Mine)
    /\ UNCHANGED <<own, finishing, run, late>>

(* The thread that is driven runs the program to its end, and another is   *)
(* held there.                                                             *)
Finish ==
    /\ at[Mine] = AtLarge /\ ~finishing
    /\ \E t \in Threads : at[t] > 0
    /\ finishing' = TRUE
    /\ wire' = Append(wire, [says |-> "finishing"])
    /\ UNCHANGED <<at, history, stepping, own, run, late>>

Exit ==
    /\ ~IsOver
    /\ at' = [t \in Threads |-> AtEnd]
    /\ UNCHANGED <<history, stepping, own, finishing, wire, run, late>>

-----------------------------------------------------------------------------
(***************************************************************************)
(* Beginning a step, and what the executor does with what one did.         *)
(***************************************************************************)

Ready == outcome = Underway /\ doing = Idle

(* The next step, when there is budget for it. *)
Begin(do) ==
    /\ Ready
    /\ todo # <<>> /\ Head(todo).do = do
    /\ spent < MaxSteps /\ ~late
    /\ spent' = spent + 1
    /\ UNCHANGED <<script, late>>

Ends(how) ==
    /\ outcome' = how /\ doing' = Idle
    /\ UNCHANGED <<program, held, script, cursor, todo, spent, records, late>>

RanOut == Ready /\ todo = <<>> /\ Ends("ran")

Exhausted == Ready /\ todo # <<>> /\ (spent >= MaxSteps \/ late) /\ Ends("exhausted")

(* A step's own ending is reported ahead of the byte budget. *)
Record(what, from, landed, disarmed, ending) ==
    /\ records' = Append(records, [did |-> what, from |-> from, landed |-> landed,
                                   to |-> cursor', disarmed |-> disarmed])
    /\ doing' = Idle
    /\ outcome' = IF ending # "none" THEN ending
                  ELSE IF Len(records) + 1 > MaxBytes THEN "exhausted"
                  ELSE outcome

Did(what, ending) == cursor' = cursor /\ Record(what, cursor, "none", "none", ending)

(* What a request comes to: a program that is known to be over is asked    *)
(* nothing, an agent that is gone is a failure of the machinery, and so is *)
(* what is taken for an answer and is none.                                *)
AskIs ==
    IF held = {} /\ IsOver THEN "ended"
    ELSE IF IsOver \/ \E k \in DOMAIN wire : wire[k].says = "finishing" THEN "lost"
    ELSE "answered"

(* The stops that are read aside on the way to the answer. *)
Aside == held \cup {[stop |-> wire[k].stop, thread |-> wire[k].thread] : k \in DOMAIN wire}

Unanswered(what) ==
    /\ UNCHANGED <<program, held, todo, cursor>>
    /\ \/ AskIs = "ended" /\ Record(what, cursor, "none", "none", "halted")
       \/ AskIs = "lost" /\ outcome' = "lost" /\ doing' = Idle /\ UNCHANGED records

Answered ==
    /\ AskIs = "answered"
    /\ held' = Aside /\ wire' = <<>>
    /\ UNCHANGED <<at, history, stepping, finishing>>

-----------------------------------------------------------------------------
(***************************************************************************)
(* The steps that leave the thread where it is.                            *)
(***************************************************************************)

(* The session may refuse it, and an expression may raise. *)
Eval ==
    /\ Begin("eval")
    /\ \/ Unanswered("eval")
       \/ /\ Answered /\ UNCHANGED own /\ todo' = Tail(todo)
          /\ \E ending \in {"none", "halted"} : Did("eval", ending)

Stack ==
    /\ Begin("stack")
    /\ \/ Unanswered("stack")
       \/ Answered /\ UNCHANGED own /\ todo' = Tail(todo) /\ Did("stack", "none")

Log ==
    /\ Begin("log") /\ Did("log", "none")
    /\ todo' = Tail(todo)
    /\ UNCHANGED <<program, held>>

Finished ==
    /\ Begin("finish")
    /\ Did("finish", IF Len(records) + 1 > MaxBytes THEN "exhausted" ELSE "finished")
    /\ UNCHANGED <<program, held, todo>>

(* A predicate is a bool, or it ends the script. *)
Decided(what, whenTrue, whenFalse) ==
    \/ Unanswered(what)
    \/ /\ Answered /\ UNCHANGED own
       /\ \/ todo' \in {whenTrue, whenFalse} /\ Did(what, "none")
          \/ todo' = todo /\ Did(what, "halted")

If ==
    /\ Begin("if")
    /\ Decided("if", Head(todo).then \o Tail(todo), Head(todo).otherwise \o Tail(todo))

While ==
    /\ Begin("while")
    /\ LET step  == Head(todo)
           again == <<[step EXCEPT !.pass = @ + 1]>>
       IN  /\ step.pass <= step.limit
           /\ Decided("while", step.then \o again \o Tail(todo), Tail(todo))

(* The allowance is spent, and the predicate was true on the last pass. *)
Bounded ==
    /\ Begin("while")
    /\ Head(todo).pass > Head(todo).limit
    /\ Did("bounded", "halted")
    /\ UNCHANGED <<program, held, todo>>

-----------------------------------------------------------------------------
(***************************************************************************)
(* The steps that let the thread go.                                       *)
(***************************************************************************)

(* Every control step resumes the script's thread by name and no other. *)
LetGo(what, step) ==
    /\ AskIs = "answered"
    /\ at' = [at EXCEPT ![Mine] = AtLarge]
    /\ held' = {h \in Aside : h.thread # Mine} /\ wire' = <<>>
    /\ stepping' = (stepping \/ step)
    /\ doing' = Waits(what, cursor, "none")
    /\ UNCHANGED <<history, own, finishing, cursor, records, outcome>>

StepThread ==
    /\ Begin("step")
    /\ \/ Unanswered("step")
       \/ LetGo("step", TRUE) /\ todo' = Tail(todo)

CarryOn ==
    /\ Begin("continue")
    /\ \/ Unanswered("continue")
       \/ LetGo("continue", FALSE) /\ todo' = Tail(todo)

(* The script's own breakpoint is in the set that was sent, whether or not *)
(* it bound to anything.                                                   *)
Arm ==
    /\ Begin("runTo")
    /\ \/ Unanswered("runTo")
       \/ /\ Answered /\ own' = TRUE /\ todo' = Tail(todo)
          /\ doing' \in {Waits("letting go", cursor, "none"), Waits("disarming", cursor, "unbound")}
          /\ UNCHANGED <<cursor, records, outcome>>

RunTo ==
    /\ doing.for = "letting go"
    /\ \/ Unanswered("runTo")
       \/ LetGo("runTo", FALSE) /\ UNCHANGED todo
    /\ UNCHANGED <<script, spent, late>>

Waiting == doing.for \in {"step", "continue", "runTo"}

Ending(landed) ==
    CASE landed = "stopped" -> "none"
      [] landed = "still running" -> "exhausted"
      [] OTHER -> "halted"

(* What the wait came to, and where the script is then. *)
Lands(landed, where) ==
    /\ cursor' = where
    /\ IF doing.for = "runTo"
       THEN doing' = Waits("disarming", doing.from, landed) /\ UNCHANGED <<records, outcome>>
       ELSE Record(doing.for, doing.from, landed, "none", Ending(landed))
    /\ UNCHANGED <<at, history, stepping, own, finishing, script, todo, spent, late>>

Matches(why) ==
    CASE doing.for = "step" -> why = "stepped"
      [] doing.for = "runTo" -> why = "own"
      [] OTHER -> TRUE

(* Mutant: a stop of another thread is taken for the landing. *)
FollowsAnyThread(said) == TRUE

IsMine(said) == said.thread = Mine

HearStop ==
    /\ Waiting /\ wire # <<>> /\ Head(wire).says = "stopped"
    /\ LET said == Head(wire) IN
       /\ held' = held \cup {[stop |-> said.stop, thread |-> said.thread]}
       /\ IF IsMine(said)
          THEN Lands(IF Matches(said.why) THEN "stopped" ELSE "elsewhere", said.stop)
          ELSE Lands("other thread", cursor)
    /\ wire' = Tail(wire)

HearFinishing ==
    /\ Waiting /\ wire # <<>> /\ Head(wire).says = "finishing"
    /\ wire' = Tail(wire) /\ UNCHANGED held
    /\ Lands("finishing", cursor)

HearEnd ==
    /\ Waiting /\ wire = <<>> /\ IsOver
    /\ UNCHANGED <<wire, held>>
    /\ Lands("exited", cursor)

(* Mutant: a run_to waits for as long as it takes. *)
TimesOutOfSteps ==
    /\ Waiting /\ wire = <<>> /\ ~IsOver /\ late /\ doing.for # "runTo"
    /\ UNCHANGED <<wire, held>>
    /\ Lands("still running", cursor)

TimesOut ==
    /\ Waiting /\ wire = <<>> /\ ~IsOver /\ late
    /\ UNCHANGED <<wire, held>>
    /\ Lands("still running", cursor)

(* Mutant: the set goes back when the script's thread is held, and is left *)
(* as it is when the program runs.                                         *)
DisarmWhenHeld ==
    /\ doing.for = "disarming"
    /\ cursor' = cursor
    /\ LET record(disarmed) == Record("runTo", doing.from, doing.landed, disarmed, Ending(doing.landed)) IN
       \/ /\ at[Mine] <= 0 /\ UNCHANGED <<program, held>> /\ record("program ended")
       \/ at[Mine] > 0 /\ Answered /\ own' = FALSE /\ record("removed")
    /\ UNCHANGED <<script, todo, spent, late>>

(* The set goes back to what the client asked for, unless there is nothing *)
(* left to take a breakpoint off.                                          *)
Disarm ==
    /\ doing.for = "disarming"
    /\ LET record(disarmed) == Record("runTo", doing.from, doing.landed, disarmed, Ending(doing.landed)) IN
       \/ /\ doing.landed = "exited"
          /\ UNCHANGED <<program, held, cursor>> /\ record("program ended")
       \/ /\ doing.landed # "exited" /\ UNCHANGED cursor
          /\ \/ /\ Answered /\ own' = FALSE
                /\ record(IF doing.landed = "unbound" THEN "nothing armed" ELSE "removed")
             \/ AskIs = "ended" /\ UNCHANGED <<program, held>> /\ record("still armed")
             \/ /\ AskIs = "lost" /\ UNCHANGED <<program, held, records>>
                /\ outcome' = "lost" /\ doing' = Idle
    /\ UNCHANGED <<script, todo, spent, late>>

-----------------------------------------------------------------------------

(* What a script is begun from, or is not. *)
Begun ==
    /\ at = [t \in Threads |-> IF t = Mine THEN 1 ELSE AtLarge]
    /\ history = <<[says |-> "stopped", stop |-> 1, thread |-> Mine, why |-> "client"]>>
    /\ stepping = FALSE /\ own = FALSE /\ finishing = FALSE /\ wire = <<>>
    /\ held = {[stop |-> 1, thread |-> Mine]}
    /\ script \in Scripts /\ todo = script
    /\ cursor = 1 /\ doing = Idle /\ spent = 0 /\ records = <<>> /\ late = FALSE

ScriptInit == Begun /\ outcome = Underway

Clock == ~late /\ late' = TRUE /\ UNCHANGED <<program, run>>

Program == Finish \/ Exit \/ \E t \in Threads, why \in {"client", "own", "stepped"} : Hit(t, why)

Leaves == Eval \/ Stack \/ Log \/ Finished \/ If \/ While \/ Bounded

Engine ==
    \/ RanOut \/ Exhausted \/ Leaves
    \/ StepThread \/ CarryOn \/ Arm \/ RunTo
    \/ HearStop \/ HearFinishing \/ HearEnd \/ TimesOut \/ Disarm

ScriptNext == Program \/ Engine \/ Clock

(* The engine is a process of its own, and time passes. *)
ScriptSpec == ScriptInit /\ [][ScriptNext]_svars /\ WF_svars(Engine) /\ WF_svars(Clock)

-----------------------------------------------------------------------------
(***************************************************************************)
(* Properties.                                                             *)
(***************************************************************************)

ScriptTypeOK ==
    /\ at \in [Threads -> AtEnd..MaxStops]
    /\ {stepping, own, finishing, late} \subseteq BOOLEAN
    /\ held \subseteq [stop : 1..MaxStops, thread : Threads]
    /\ cursor \in 1..MaxStops /\ spent \in 0..MaxSteps
    /\ outcome \in {Underway, "ran", "finished", "halted", "exhausted", "lost"}

(* No step of a script is run from anywhere but the stop that its thread   *)
(* is held at, and no record says otherwise: each begins where the one     *)
(* before it landed, a landing is a stop that this thread made and for the *)
(* reason the step was run for, nothing is run after a step that landed    *)
(* elsewhere, and there are no more of them than was said beforehand.      *)
(* (script.rs:8-15 and 133-142, and bpd_core/src/script.rs:374)            *)
TranscriptIsTrue ==
    /\ Ready => at[Mine] \in {cursor, AtEnd}
    /\ Len(records) <= AtMost(script) /\ Len(records) <= MaxSteps
    /\ \A k \in DOMAIN records :
          LET r == records[k] IN
          /\ history[r.from].thread = Mine
          /\ k > 1 => r.from = records[k - 1].to
          /\ k < Len(records) => r.landed \in {"none", "stopped"}
          /\ r.landed = "none" => r.to = r.from
          /\ r.landed = "stopped" =>
                /\ r.to > r.from /\ history[r.to].thread = Mine
                /\ r.did = "step" => history[r.to].why = "stepped"
                /\ r.did = "runTo" => history[r.to].why = "own"

(* The breakpoint that a run_to arms is in the table for the length of     *)
(* that step: a program that goes on, whatever it does, goes on with the   *)
(* breakpoints its client asked for, unless the engine lost the agent.     *)
(* (script.rs:477-484)                                                     *)
OwnIsTakenOff ==
    own => doing.for \in {"letting go", "runTo", "disarming"} \/ IsOver \/ outcome = "lost"

(* A script comes to an end, of a program that never stops as of any other *)
(* (script.rs:678).                                                        *)
ScriptEnds == outcome = Underway ~> outcome # Underway

=============================================================================
