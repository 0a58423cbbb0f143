------------------------------- MODULE World -------------------------------
(***************************************************************************)
(* Catching a running thread: the stop-the-world monitor of the agent      *)
(* (crates/bpd_agent/src/world.rs), the pause (pause.rs), and the part of  *)
(* a stop that ends both (session::stop, session::stop_the_world and the   *)
(* LINE bit of session::refresh_events).                                   *)
(*                                                                         *)
(* Every program thread is a process.  What it does inside a callback is   *)
(* cut into steps at every place where another thread can get in: at a     *)
(* lock, at a wait, at the store of an atomic, and between the reading of  *)
(* the flags and the set_events call they decide.  On a build with a GIL   *)
(* a callback keeps the interpreter from one wait to the next, which is    *)
(* what Interpreter(p) says; on a free-threaded one nothing does.          *)
(***************************************************************************)
EXTENDS Naturals, FiniteSets

CONSTANTS
    Threads,      \* the program's threads
    Pausers,      \* the threads `pause::request` spawns, one per pause under way
    LocalLines,   \* the threads running a code object that holds a breakpoint
    FreeThreaded, \* whether the build has no GIL
    MaxAsks,      \* how often one stop may be asked to stop the world
    Restarts,     \* whether a stop may end by restarting a frame
    Fails         \* whether `sys.monitoring.set_events` may raise

ASSUME WorldAssumption ==
    /\ Threads \cap Pausers = {}
    /\ LocalLines \subseteq Threads
    /\ {FreeThreaded, Restarts, Fails} \subseteq BOOLEAN
    /\ MaxAsks \in Nat
    /\ "nobody" \notin Threads

Procs == Threads \cup Pausers

VARIABLES
    parking,     \* PARKING: a thread that reaches a line parks
    pausing,     \* PAUSING: the first thread to reach a line is held
    line,        \* LINE is in the global event mask of the interpreter
    asked,       \* STATE.requesters, by the thread whose stop each entry names
    orphaned,    \* an entry of STATE.requesters names a stop that has ended
    native,      \* STATE.native
    parked,      \* STATE.parked
    lock,        \* who holds the mutex around STATE, or "nobody"
    waiting,     \* the threads asleep on the condition variable RELEASED
    registered,  \* the threads the registry of stops.rs holds
    targets,     \* the threads the stop of the world under way waits for
    arrived,     \* those of them its wait found parked
    pc,          \* where each process is
    mask,        \* the LINE bit a refresh has read and not yet armed
    after,       \* where a process goes when its refresh is done
    ending,      \* why the stop of a thread is ending
    letGo        \* the threads let run since the world was stopped, until they park

state == <<asked, orphaned, native, parked, lock, waiting>>
world == <<targets, arrived, letGo>>
vars  == <<parking, pausing, line, state, registered, world, pc, mask, after,
           ending>>

-----------------------------------------------------------------------------

\* Inside a callback (or an arming thread) with the interpreter attached.
Interpreting == {"store", "refresh", "set", "giveUp", "leave",
                 "leaving", "letGo", "notify", "enter"}

\* On a build with a GIL one process at a time is between two waits.
Interpreter(p) == \/ FreeThreaded
                  \/ \A q \in Procs \ {p} : pc[q] \notin Interpreting

\* The agent answers one request of the engine at a time: a registered thread
\* that is not waiting for a command is answering one.
EngineIdle == \A t \in registered : pc[t] = "held"

\* STATE.requesters is not empty.
Asked == orphaned \/ \E t \in Threads : asked[t] > 0

Goto(p, there) == pc' = [pc EXCEPT ![p] = there]

\* Call session::refresh_events and go on at `then`.
RefreshThen(p, then) == /\ Goto(p, "refresh")
                        /\ after' = [after EXCEPT ![p] = then]

-----------------------------------------------------------------------------
(***************************************************************************)
(* The program.                                                            *)
(***************************************************************************)

\* A call into C that releases the interpreter, and the return from it.
EnterC(t) ==
    /\ pc[t] = "python" /\ Interpreter(t)
    /\ Goto(t, "native")
    /\ UNCHANGED <<parking, pausing, line, state, registered, world, mask, after, ending>>

LeaveC(t) ==
    /\ pc[t] = "native" /\ Interpreter(t)
    /\ Goto(t, "python")
    /\ UNCHANGED <<parking, pausing, line, state, registered, world, mask, after, ending>>

\* A line that holds a breakpoint.  It is decided before the world and the
\* pause are looked at, so it holds the thread whatever those say.
Hit(t) ==
    /\ t \in LocalLines
    /\ pc[t] = "python" /\ Interpreter(t)
    /\ registered' = registered \cup {t}
    /\ letGo' = letGo \ {t}
    /\ Goto(t, "held")
    /\ UNCHANGED <<parking, pausing, line, state, targets, arrived, mask, after, ending>>

\* Any other line the interpreter offers: the world is looked at first, and
\* then the pause, which one thread takes.
OffersLine(t) == line \/ t \in LocalLines

LineParks(t) ==
    /\ pc[t] = "python" /\ Interpreter(t) /\ OffersLine(t)
    /\ parking
    /\ Goto(t, "park")
    /\ UNCHANGED <<parking, pausing, line, state, registered, world, mask, after, ending>>

LineClaimsPause(t) ==
    /\ pc[t] = "python" /\ Interpreter(t) /\ OffersLine(t)
    /\ ~parking
    /\ pausing
    /\ pausing' = FALSE
    /\ RefreshThen(t, "enter")
    /\ UNCHANGED <<parking, line, state, registered, world, mask, ending>>

\* The stop a claimed pause makes.
EnterPaused(t) ==
    /\ pc[t] = "enter" /\ Interpreter(t)
    /\ registered' = registered \cup {t}
    /\ letGo' = letGo \ {t}
    /\ Goto(t, "held")
    /\ UNCHANGED <<parking, pausing, line, state, targets, arrived, mask, after, ending>>

-----------------------------------------------------------------------------
(***************************************************************************)
(* Parking: world::park, without the interpreter.  The mutex is held from  *)
(* the push to the wait, and across the check of PARKING.                  *)
(***************************************************************************)

ParkPush(t) ==
    /\ pc[t] = "park" /\ lock = "nobody"
    /\ lock' = t
    /\ parked' = parked \cup {t}
    /\ letGo' = letGo \ {t}
    /\ Goto(t, "check")
    /\ UNCHANGED <<parking, pausing, line, asked, orphaned, native, waiting, registered,
                   targets, arrived, mask, after, ending>>

ParkCheck(t) ==
    /\ pc[t] = "check"
    /\ IF parking
         THEN /\ Goto(t, "sleep")
              /\ UNCHANGED <<lock, parked>>
         ELSE /\ parked' = parked \ {t}
              /\ lock' = "nobody"
              /\ Goto(t, "python")
    /\ UNCHANGED <<parking, pausing, line, asked, orphaned, native, waiting, registered,
                   world, mask, after, ending>>

\* RELEASED.wait gives the mutex up and joins the wait set at once.
ParkSleep(t) ==
    /\ pc[t] = "sleep"
    /\ lock' = "nobody"
    /\ waiting' = waiting \cup {t}
    /\ Goto(t, "asleep")
    /\ UNCHANGED <<parking, pausing, line, asked, orphaned, native, parked, registered,
                   world, mask, after, ending>>

\* A mutant: the wait is not in a loop, so a thread that wakes does not look at
\* PARKING again.
ParkWakeWithoutLoop(t) ==
    /\ pc[t] = "asleep" /\ t \notin waiting /\ lock = "nobody"
    /\ parked' = parked \ {t}
    /\ Goto(t, "python")
    /\ UNCHANGED <<parking, pausing, line, asked, orphaned, native, lock, waiting,
                   registered, world, mask, after, ending>>

ParkWake(t) ==
    /\ pc[t] = "asleep" /\ t \notin waiting /\ lock = "nobody"
    /\ lock' = t
    /\ Goto(t, "check")
    /\ UNCHANGED <<parking, pausing, line, asked, orphaned, native, parked, waiting,
                   registered, world, mask, after, ending>>

-----------------------------------------------------------------------------
(***************************************************************************)
(* session::refresh_events: the flags are read, and then set_events        *)
(* replaces the mask with what they said.                                  *)
(***************************************************************************)

\* A mutant: the refresh forgets the pause.
RefreshReadWithoutPause(p) ==
    /\ pc[p] = "refresh" /\ Interpreter(p)
    /\ mask' = [mask EXCEPT ![p] = parking]
    /\ Goto(p, "set")
    /\ UNCHANGED <<parking, pausing, line, state, registered, world, after, ending>>

RefreshRead(p) ==
    /\ pc[p] = "refresh" /\ Interpreter(p)
    /\ mask' = [mask EXCEPT ![p] = parking \/ pausing]
    /\ Goto(p, "set")
    /\ UNCHANGED <<parking, pausing, line, state, registered, world, after, ending>>

RefreshSet(p) ==
    /\ pc[p] = "set" /\ Interpreter(p)
    /\ line' = mask[p]
    /\ mask' = [mask EXCEPT ![p] = FALSE]
    /\ Goto(p, after[p])
    /\ after' = [after EXCEPT ![p] = "python"]
    /\ UNCHANGED <<parking, pausing, state, registered, world, ending>>

\* A mutant: a disarm that fails returns before the world is let go.
RefreshFailsAndReturns(t) ==
    /\ Fails
    /\ pc[t] = "set" /\ Interpreter(t)
    /\ mask' = [mask EXCEPT ![t] = FALSE]
    /\ Goto(t, CASE after[t] = "arrivals" -> "giveUp"
                 [] after[t] = "leave"    -> "held"
                 [] OTHER                 -> "python")
    /\ after' = [after EXCEPT ![t] = "python"]
    /\ ending' = [ending EXCEPT ![t] = "resume"]
    /\ UNCHANGED <<parking, pausing, line, state, registered, world>>

\* set_events raised.  A stop of the world takes its request back; a restart is
\* refused; a release lets the world go all the same and hands the error out
\* of the stop; anything else leaves the callback with the error.
RefreshFails(t) ==
    /\ Fails
    /\ pc[t] = "set" /\ Interpreter(t)
    /\ mask' = [mask EXCEPT ![t] = FALSE]
    /\ Goto(t, CASE after[t] = "arrivals" -> "giveUp"
                 [] after[t] = "leave"    -> "held"
                 [] after[t] = "letGo"    -> "letGo"
                 [] OTHER                 -> "python")
    /\ after' = [after EXCEPT ![t] = "python"]
    /\ ending' = [ending EXCEPT ![t] = IF after[t] = "letGo" THEN "failed" ELSE "resume"]
    /\ UNCHANGED <<parking, pausing, line, state, registered, world>>

-----------------------------------------------------------------------------
(***************************************************************************)
(* Stopping the world, on the held thread that was asked to.               *)
(***************************************************************************)

\* The threads the interpreter runs that no stop holds, and the requester
\* listed.
AskWorld(t) ==
    /\ pc[t] = "held" /\ t \in registered /\ EngineIdle /\ Interpreter(t)
    /\ lock = "nobody"
    /\ asked[t] < MaxAsks
    /\ targets' = Threads \ (registered \cup {t})
    /\ asked' = [asked EXCEPT ![t] = @ + 1]
    /\ Goto(t, "store")
    /\ UNCHANGED <<parking, pausing, line, orphaned, native, parked, lock, waiting,
                   registered, arrived, letGo, mask, after, ending>>

\* PARKING goes up before LINE is armed.
StoreParking(t) ==
    /\ pc[t] = "store" /\ Interpreter(t)
    /\ parking' = TRUE
    /\ RefreshThen(t, "arrivals")
    /\ UNCHANGED <<pausing, line, state, registered, world, mask, ending>>

\* The wait ends when every target has parked, or at its deadline.
Arrivals(t) ==
    /\ pc[t] = "arrivals" /\ lock = "nobody"
    /\ arrived' = targets \cap parked
    /\ Goto(t, "record")
    /\ UNCHANGED <<parking, pausing, line, state, registered, targets, letGo, mask, after,
                   ending>>

\* What did not park is recorded as native, and WorldStopped is sent.
Record(t) ==
    /\ pc[t] = "record" /\ Interpreter(t) /\ lock = "nobody"
    /\ native' = targets \ arrived
    /\ letGo' = {}
    /\ targets' = {}
    /\ arrived' = {}
    /\ Goto(t, "held")
    /\ UNCHANGED <<parking, pausing, line, asked, orphaned, parked, lock, waiting,
                   registered, mask, after, ending>>

-----------------------------------------------------------------------------
(***************************************************************************)
(* The end of a stop.                                                      *)
(***************************************************************************)

\* The connection's reader takes entries out of the registry and then wakes
\* the threads they belong to, for a resume or for a step.  Both refresh the
\* mask before the callback returns, a step in steps::arm.
LetThreadsGo(S) ==
    /\ S # {} /\ S \subseteq registered /\ EngineIdle
    /\ registered' = registered \ S
    /\ UNCHANGED <<parking, pausing, line, state, world, pc, mask, after, ending>>

Woken(t) ==
    /\ pc[t] = "held" /\ t \notin registered /\ Interpreter(t)
    /\ Goto(t, "leaving")
    /\ UNCHANGED <<parking, pausing, line, state, registered, world, mask, after, ending>>

\* A restart arms itself, which refreshes the mask, and then takes its own
\* entry out.
Restart(t) ==
    /\ Restarts
    /\ pc[t] = "held" /\ t \in registered /\ EngineIdle /\ Interpreter(t)
    /\ ending' = [ending EXCEPT ![t] = "restart"]
    /\ RefreshThen(t, "leave")
    /\ UNCHANGED <<parking, pausing, line, state, registered, world, mask>>

LeaveRegistry(t) ==
    /\ pc[t] = "leave" /\ Interpreter(t)
    /\ registered' = registered \ {t}
    /\ Goto(t, "leaving")
    /\ UNCHANGED <<parking, pausing, line, state, world, mask, after, ending>>

\* A stop that is over goes back to the program, refreshing the mask on the way
\* unless it is a restart or the release failed.
Return(t) ==
    /\ letGo' = {u \in letGo \cup {t} : Asked'}
    /\ ending' = [ending EXCEPT ![t] = "resume"]
    /\ IF ending[t] = "resume"
         THEN RefreshThen(t, "python")
         ELSE Goto(t, "python") /\ UNCHANGED after

\* world::last_to_leave removes one entry of this stop, and says whether it
\* was the last one of all.
Others(t) == orphaned \/ asked[t] > 1 \/ \E u \in Threads \ {t} : asked[u] > 0

\* A mutant: the first stop to end takes the world from the others.
LastToLeaveAlways(t) == asked[t] > 0

LastToLeave(t) == asked[t] > 0 /\ ~Others(t)

Remove(t) ==
    /\ asked' = [asked EXCEPT ![t] = 0]
    /\ orphaned' = (orphaned \/ asked[t] > 1)
    /\ native' = IF LastToLeave(t) THEN {} ELSE native

\* world::release.
Release(t) ==
    /\ pc[t] = "leaving" /\ Interpreter(t) /\ lock = "nobody"
    /\ Remove(t)
    /\ IF LastToLeave(t)
         THEN RefreshThen(t, "letGo") /\ UNCHANGED <<letGo, ending>>
         ELSE Return(t)
    /\ UNCHANGED <<parking, pausing, line, parked, lock, waiting, registered, targets,
                   arrived, mask>>

\* The arming failed: the entry just pushed comes out again, and the stop
\* answers with a refusal and goes on.
GiveUp(t) ==
    /\ pc[t] = "giveUp" /\ Interpreter(t) /\ lock = "nobody"
    /\ asked' = [asked EXCEPT ![t] = @ - 1]
    /\ native' = IF LastToLeave(t) THEN {} ELSE native
    /\ targets' = {}
    /\ IF LastToLeave(t)
         THEN Goto(t, "letGo") /\ ending' = [ending EXCEPT ![t] = "refused"]
         ELSE Goto(t, "held") /\ UNCHANGED ending
    /\ UNCHANGED <<parking, pausing, line, orphaned, parked, lock, waiting, registered,
                   arrived, letGo, mask, after>>

\* world::let_go: the flag goes down, and the wait set is woken once the mutex
\* has been taken and dropped.
LetGoStore(t) ==
    /\ pc[t] = "letGo" /\ Interpreter(t)
    /\ parking' = FALSE
    /\ Goto(t, "notify")
    /\ UNCHANGED <<pausing, line, state, registered, world, mask, after, ending>>

\* A mutant: the mutex is not taken before the wait set is woken.
LetGoNotifyWithoutLock(t) ==
    /\ pc[t] = "notify" /\ Interpreter(t)
    /\ waiting' = {}
    /\ UNCHANGED <<parking, pausing, line, asked, orphaned, native, parked, lock,
                   registered, targets, arrived, mask>>
    /\ IF ending[t] = "refused"
         THEN /\ Goto(t, "held")
              /\ ending' = [ending EXCEPT ![t] = "resume"]
              /\ UNCHANGED <<after, letGo>>
         ELSE Return(t)

\* A mutant: one thread of the wait set is woken.
LetGoNotifyOne(t) ==
    /\ pc[t] = "notify" /\ Interpreter(t) /\ lock = "nobody"
    /\ \E u \in Threads : waiting' = waiting \ {u} /\ (waiting = {} \/ u \in waiting)
    /\ UNCHANGED <<parking, pausing, line, asked, orphaned, native, parked, lock,
                   registered, targets, arrived, mask>>
    /\ IF ending[t] = "refused"
         THEN /\ Goto(t, "held")
              /\ ending' = [ending EXCEPT ![t] = "resume"]
              /\ UNCHANGED <<after, letGo>>
         ELSE Return(t)

LetGoNotify(t) ==
    /\ pc[t] = "notify" /\ Interpreter(t) /\ lock = "nobody"
    /\ waiting' = {}
    /\ UNCHANGED <<parking, pausing, line, asked, orphaned, native, parked, lock,
                   registered, targets, arrived, mask>>
    /\ IF ending[t] = "refused"
         THEN /\ Goto(t, "held")
              /\ ending' = [ending EXCEPT ![t] = "resume"]
              /\ UNCHANGED <<after, letGo>>
         ELSE Return(t)

-----------------------------------------------------------------------------
(***************************************************************************)
(* A pause: a thread of the agent's own, which attaches, sends Pausing,    *)
(* raises the flag and arms LINE.                                          *)
(***************************************************************************)

PauseArm(p) ==
    /\ pc[p] = "idle" /\ Interpreter(p)
    /\ pausing' = TRUE
    /\ RefreshThen(p, "idle")
    /\ UNCHANGED <<parking, line, state, registered, world, mask, ending>>

-----------------------------------------------------------------------------

Init ==
    /\ parking = FALSE /\ pausing = FALSE /\ line = FALSE
    /\ asked = [t \in Threads |-> 0] /\ orphaned = FALSE
    /\ native = {} /\ parked = {} /\ lock = "nobody" /\ waiting = {}
    /\ registered = {}
    /\ targets = {} /\ arrived = {} /\ letGo = {}
    /\ pc = [p \in Procs |-> IF p \in Threads THEN "python" ELSE "idle"]
    /\ mask = [p \in Procs |-> FALSE]
    /\ after = [p \in Procs |-> "python"]
    /\ ending = [p \in Procs |-> "resume"]

\* What a thread does by itself once it is where it is.
Parks(t)  == LineParks(t) \/ ParkPush(t) \/ ParkCheck(t) \/ ParkSleep(t) \/ ParkWake(t)
Stops(t)  == StoreParking(t) \/ Arrivals(t) \/ Record(t) \/ GiveUp(t)
Leaves(t) == Woken(t) \/ LeaveRegistry(t) \/ Release(t) \/ LetGoStore(t) \/ LetGoNotify(t)
Claims(t) == LineClaimsPause(t) \/ EnterPaused(t)
Refresh(p) == RefreshRead(p) \/ RefreshSet(p)
GoesOn(t) == Parks(t) \/ Claims(t) \/ Stops(t) \/ Leaves(t) \/ Refresh(t)

Next ==
    \/ \E t \in Threads :
          \/ EnterC(t) \/ LeaveC(t) \/ Hit(t)
          \/ Parks(t) \/ Claims(t)
          \/ AskWorld(t) \/ Stops(t)
          \/ Restart(t) \/ Leaves(t)
          \/ Refresh(t) \/ RefreshFails(t)
    \/ \E S \in SUBSET Threads : LetThreadsGo(S)
    \/ \E p \in Pausers : PauseArm(p) \/ Refresh(p)

Spec == Init /\ [][Next]_vars

\* The operating system schedules every thread.  Taking the interpreter or the
\* mutex needs strong fairness: both are free again and again, but not for
\* ever.  The deadline of the wait makes Arrivals happen; a thread that runs
\* python goes on reaching lines.  Nothing makes a C call return, a breakpoint
\* be hit or the client ask for anything.
Fairness ==
    /\ \A t \in Threads : SF_vars(GoesOn(t))
    /\ \A p \in Pausers : WF_vars(Refresh(p))

FairSpec == Spec /\ Fairness

-----------------------------------------------------------------------------
(***************************************************************************)
(* Properties.                                                             *)
(***************************************************************************)

PythonPlaces == {"python", "native", "park", "check", "sleep", "asleep", "held",
                 "store", "refresh", "set", "arrivals", "record", "giveUp", "leave",
                 "leaving", "letGo", "notify", "enter"}

\* The types; the count of requests a stop has listed is never taken below zero.
TypeOK ==
    /\ {parking, pausing, line, orphaned} \subseteq BOOLEAN
    /\ asked \in [Threads -> Nat]
    /\ native \subseteq Threads /\ parked \subseteq Threads /\ waiting \subseteq Threads
    /\ registered \subseteq Threads /\ letGo \subseteq Threads
    /\ targets \subseteq Threads /\ arrived \subseteq Threads
    /\ lock \in Threads \cup {"nobody"}
    /\ pc \in [Procs -> PythonPlaces \cup {"idle"}]
    /\ mask \in [Procs -> BOOLEAN]
    /\ after \in [Procs -> {"python", "arrivals", "letGo", "leave", "enter", "idle"}]
    /\ ending \in [Procs -> {"resume", "restart", "refused", "failed"}]

\* A thread asleep on RELEASED is woken: while one is asleep, or has decided to
\* sleep and still holds the mutex, PARKING is up or a let_go has not notified
\* yet.  This is what let_go takes the mutex for.
NoLostWakeup ==
    (waiting # {} \/ \E t \in Threads : pc[t] = "sleep")
        => parking \/ \E t \in Threads : pc[t] = "notify"

\* The world is released with the stops that asked for it: PARKING up means
\* that a stop which is not over asked, or that the thread which took the last
\* entry out is on its way to let_go.
WorldIsReleased ==
    parking =>
        \E t \in Threads : \/ asked[t] > 0
                           \/ pc[t] = "letGo"
                           \/ pc[t] \in {"refresh", "set"} /\ after[t] = "letGo"

\* The first of two stops to end must not take the world from the other: while
\* a stop that was told the world is stopped is held, PARKING is up.
WorldIsKept ==
    \A t \in Threads : pc[t] = "held" /\ asked[t] > 0 => parking

\* A stop that was answered WorldStopped is held, and a thread runs.
WorldStopped == \E t \in Threads : pc[t] = "held" /\ asked[t] > 0
Running(t) == pc[t] \in {"python", "native"}

\* What the answers taken while the world is stopped say of it: a thread that
\* runs is one the last stop of the world listed as native, or one the client
\* let go since.
NoThreadEscapes ==
    WorldStopped => \A t \in Threads : Running(t) => t \in native \cup letGo

\* Nothing in the middle of a refresh of the mask or on its way to one.
Quiet == \A p \in Procs : pc[p] \notin Interpreting

\* A stopped world and a pause have LINE armed for as long as they last.
LineWhileWanted == Quiet /\ (parking \/ pausing) => line

\* Both: a pause, or a request for the world, reaches every thread that runs
\* python, through the line that its callback is offered.
NoneIsPassedBy == NoThreadEscapes /\ LineWhileWanted

\* And nothing else has: the mask goes back to what the session needs.
LineOnlyWhileWanted == Quiet /\ line => parking \/ pausing

\* No thread is counted both as held and as running in native code by one
\* WorldStopped answer.
HeldIsNotNative ==
    [][\A t \in Threads : pc[t] = "record" /\ pc'[t] = "held"
                             => native' \cap registered' = {}]_vars

\* A parked thread runs again once nothing asks for the world any more, or the
\* world is asked for again.
ParkedRunsAgain ==
    \A t \in Threads : (pc[t] = "asleep" /\ ~Asked) ~> (pc[t] = "python" \/ Asked)

\* A stop asked to stop the world answers, whatever the threads it waits for do.
StopIsAnswered ==
    \A t \in Threads : (pc[t] = "store") ~> (pc[t] = "held")

=============================================================================
