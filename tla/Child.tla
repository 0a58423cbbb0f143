------------------------------- MODULE Child -------------------------------
(***************************************************************************)
(* What a fork and an exec make of a debugged process: the child's handler *)
(* of forks.rs, detach, reattach and connect of attach.rs, the cells of    *)
(* cells.rs and the entry of an exec'd child in children.rs.               *)
(*                                                                         *)
(* A fork copies the memory, the descriptors and one thread.  Whatever the *)
(* other threads were doing stays as it was in the copy: half way through  *)
(* a stop, holding the writing end, the stop registry or the world.  No    *)
(* interpreter lock keeps them from it here, as on a free-threaded build.  *)
(* The child closes what it inherited, gives the cells up, and is either   *)
(* as it would be without bpd or a session of its own.                     *)
(*                                                                         *)
(* A connection is named for the process that opened it, and its two ends  *)
(* of the wakeup pair go with it.  Taking the agent's own threads off the  *)
(* parent while it forks is the subject of Fork.                           *)
(***************************************************************************)
EXTENDS Naturals, FiniteSets

CONSTANTS
    Root,      \* the process bpd launched
    Kids,      \* the processes made from it, and from each other
    Threads,   \* names for the threads of each of them
    None,
    Worlds,    \* whether a stop may hold the rest of its process
    SpawnFails \* whether the reader's thread may fail to start

Processes == {Root} \cup Kids
Cells     == {"writer", "registry"}

ASSUME ChildAssumption ==
    /\ Root \notin Kids /\ None \notin Processes \cup Threads /\ Threads # {}
    /\ {Worlds, SpawnFails} \subseteq BOOLEAN

VARIABLES
    place,     \* where each thread of each process is, or "no"
    handlers,  \* whether the fork handlers are installed
    armed,     \* whether the tool is claimed and its events are on
    detached,  \* DETACHED
    descs,     \* the connections a process has descriptors of
    listed,    \* the one whose numbers DESCRIPTORS has
    writer,    \* the connection in the WRITER cell
    listens,   \* whether a thread reads the control connection
    registry,  \* the threads the stop registry says are held
    lock,      \* who holds each cell's lock
    debugs,    \* DEBUGGING_CHILDREN and OPEN
    world,     \* the threads whose stops hold the process: STATE.requesters
    wrote,     \* who ever wrote on each connection
    joined,    \* the sessions the engine has
    ended      \* those it has read to their end

memory    == <<handlers, armed, detached, listed, writer, registry, lock, debugs, world>>
sessions  == <<joined, ended>>
childVars == <<place, memory, descs, listens, wrote, sessions>>

GoesTo(p, t, there) == place' = [place EXCEPT ![p][t] = there]
Exists(p) == \E t \in Threads : place[p][t] # "no"
Gone(p)   == p \in joined /\ ~Exists(p)
Unlocked  == [c \in Cells |-> None]

Locks(p, c, t) == lock[p][c] = None /\ lock' = [lock EXCEPT ![p][c] = t]
Unlocks(p, c)  == lock' = [lock EXCEPT ![p][c] = None]

-----------------------------------------------------------------------------
(***************************************************************************)
(* A thread stops: stops::enter and attach::send.                          *)
(***************************************************************************)

\* A breakpoint, or the place where a child is held before it runs on.
Enter(p, t) ==
    /\ (place[p][t] = "python" /\ armed[p]) \/ place[p][t] = "hold"
    /\ Locks(p, "registry", t)
    /\ GoesTo(p, t, "entering")
    /\ UNCHANGED <<handlers, armed, detached, listed, writer, registry, debugs, world,
                   descs, listens, wrote, sessions>>

Register(p, t) ==
    /\ place[p][t] = "entering"
    /\ registry' = [registry EXCEPT ![p] = @ \cup {t}]
    /\ Unlocks(p, "registry")
    /\ GoesTo(p, t, "telling")
    /\ UNCHANGED <<handlers, armed, detached, listed, writer, debugs, world,
                   descs, listens, wrote, sessions>>

\* send: a detached process writes nothing.
Report(p, t) ==
    /\ place[p][t] = "telling"
    /\ IF detached[p] THEN GoesTo(p, t, "held") /\ UNCHANGED lock
                      ELSE GoesTo(p, t, "sending") /\ Locks(p, "writer", t)
    /\ UNCHANGED <<handlers, armed, detached, listed, writer, registry, debugs, world,
                   descs, listens, wrote, sessions>>

Sent(p, t) ==
    /\ place[p][t] = "sending"
    /\ wrote' = [wrote EXCEPT ![writer[p]] = @ \cup {p}]
    /\ Unlocks(p, "writer")
    /\ GoesTo(p, t, "held")
    /\ UNCHANGED <<handlers, armed, detached, listed, writer, registry, debugs, world,
                   descs, listens, sessions>>

-----------------------------------------------------------------------------
(***************************************************************************)
(* What the engine asks of a process that reads.                           *)
(***************************************************************************)

\* A stop is resumed: the reader routes it, and what it held is let go with it.
Resume(p, t) ==
    /\ p \in joined /\ listens[p] /\ lock[p]["registry"] = None
    /\ place[p][t] = "held" /\ t \in registry[p]
    /\ registry' = [registry EXCEPT ![p] = @ \ {t}]
    /\ world'    = [world EXCEPT ![p] = @ \ {t}]
    /\ GoesTo(p, t, "python")
    /\ UNCHANGED <<handlers, armed, detached, listed, writer, lock, debugs,
                   descs, listens, wrote, sessions>>

\* A stop holds the rest of its process, which parks where it reaches a line.
StopTheWorld(p, t) ==
    /\ Worlds /\ p \in joined /\ listens[p] /\ place[p][t] = "held"
    /\ world' = [world EXCEPT ![p] = @ \cup {t}]
    /\ UNCHANGED <<place, handlers, armed, detached, listed, writer, registry, lock, debugs,
                   descs, listens, wrote, sessions>>

Park(p, t) ==
    /\ place[p][t] = "python" /\ armed[p] /\ world[p] # {}
    /\ GoesTo(p, t, "parked")
    /\ UNCHANGED <<memory, descs, listens, wrote, sessions>>

Unpark(p, t) ==
    /\ place[p][t] = "parked" /\ world[p] = {}
    /\ GoesTo(p, t, "python")
    /\ UNCHANGED <<memory, descs, listens, wrote, sessions>>

\* Asked at a held thread, or of the thread that answers a running program.
DebugChildren(p) ==
    /\ p \in joined /\ listens[p]
    /\ debugs' = [debugs EXCEPT ![p] = ~@]
    /\ UNCHANGED <<place, handlers, armed, detached, listed, writer, registry, lock, world,
                   descs, listens, wrote, sessions>>

\* The engine reads a connection to its end once nothing holds it open.
EndIsRead(c) ==
    /\ c \in joined \ ended /\ \A p \in Processes : c \notin descs[p]
    /\ ended' = ended \cup {c}
    /\ UNCHANGED <<place, memory, descs, listens, wrote, joined>>

-----------------------------------------------------------------------------
(***************************************************************************)
(* A process is made from another, and ends.                               *)
(***************************************************************************)

\* The first thread of q is where t goes on.
Makes(q, t, there) ==
    /\ q \in Kids \ joined /\ ~Exists(q)
    /\ place' = [place EXCEPT ![q] = [u \in Threads |-> IF u = t THEN there ELSE "no"]]

\* os.fork(): everything is copied but the other threads and the reader.
MakeCopy(p, t, q) ==
    /\ place[p][t] = "python"
    /\ Makes(q, t, IF handlers[p] THEN "forked" ELSE "python")
    /\ handlers' = [handlers EXCEPT ![q] = handlers[p]]
    /\ armed'    = [armed    EXCEPT ![q] = armed[p]]
    /\ detached' = [detached EXCEPT ![q] = detached[p]]
    /\ descs'    = [descs    EXCEPT ![q] = descs[p]]
    /\ listed'   = [listed   EXCEPT ![q] = listed[p]]
    /\ writer'   = [writer   EXCEPT ![q] = writer[p]]
    /\ registry' = [registry EXCEPT ![q] = registry[p]]
    /\ lock'     = [lock     EXCEPT ![q] = lock[p]]
    /\ debugs'   = [debugs   EXCEPT ![q] = debugs[p]]
    /\ world'    = [world    EXCEPT ![q] = world[p]]
    /\ UNCHANGED <<listens, wrote, sessions>>

\* An interpreter is started: what it knows is in the environment.
Exec(p, t, q) ==
    /\ place[p][t] = "python"
    /\ Makes(q, t, IF debugs[p] THEN "entered" ELSE "python")
    /\ UNCHANGED <<memory, descs, listens, wrote, sessions>>

\* Its memory goes with it.
Die(p) ==
    /\ Exists(p)
    /\ place'    = [place    EXCEPT ![p] = [t \in Threads |-> "no"]]
    /\ handlers' = [handlers EXCEPT ![p] = FALSE]
    /\ armed'    = [armed    EXCEPT ![p] = FALSE]
    /\ detached' = [detached EXCEPT ![p] = FALSE]
    /\ descs'    = [descs    EXCEPT ![p] = {}]
    /\ listed'   = [listed   EXCEPT ![p] = None]
    /\ writer'   = [writer   EXCEPT ![p] = None]
    /\ listens'  = [listens  EXCEPT ![p] = FALSE]
    /\ registry' = [registry EXCEPT ![p] = {}]
    /\ lock'     = [lock     EXCEPT ![p] = Unlocked]
    /\ debugs'   = [debugs   EXCEPT ![p] = FALSE]
    /\ world'    = [world    EXCEPT ![p] = {}]
    /\ UNCHANGED <<wrote, sessions>>

-----------------------------------------------------------------------------
(***************************************************************************)
(* The child: forks::gave_up_the_session.                                  *)
(***************************************************************************)

\* A mutant: the locks of the cells stay as they were copied.
DetachKeepingLocks(q, t) ==
    /\ place[q][t] = "forked"
    /\ IF detached[q]
         THEN GoesTo(q, t, "python") /\ UNCHANGED <<detached, descs, listed, writer, registry>>
         ELSE /\ detached' = [detached EXCEPT ![q] = TRUE]
              /\ descs'    = [descs EXCEPT ![q] = @ \ {listed[q]}]
              /\ listed'   = [listed EXCEPT ![q] = None]
              /\ writer'   = [writer EXCEPT ![q] = None]
              /\ registry' = [registry EXCEPT ![q] = {}]
              /\ GoesTo(q, t, IF debugs[q] THEN "connect" ELSE "disarm")
    /\ UNCHANGED <<handlers, armed, lock, debugs, world, listens, wrote, sessions>>

\* A mutant: the registry is left as it was.
DetachKeepingStops(q, t) ==
    /\ place[q][t] = "forked"
    /\ IF detached[q]
         THEN GoesTo(q, t, "python") /\ UNCHANGED <<detached, descs, listed, writer, lock>>
         ELSE /\ detached' = [detached EXCEPT ![q] = TRUE]
              /\ descs'    = [descs EXCEPT ![q] = @ \ {listed[q]}]
              /\ listed'   = [listed EXCEPT ![q] = None]
              /\ writer'   = [writer EXCEPT ![q] = None]
              /\ lock'     = [lock EXCEPT ![q] = Unlocked]
              /\ GoesTo(q, t, IF debugs[q] THEN "connect" ELSE "disarm")
    /\ UNCHANGED <<handlers, armed, registry, debugs, world, listens, wrote, sessions>>

\* detach: once in a line of processes, and no lock is taken.
Detach(q, t) ==
    /\ place[q][t] = "forked"
    /\ IF detached[q]
         THEN GoesTo(q, t, "python") /\ UNCHANGED <<detached, descs, listed, writer, registry, lock>>
         ELSE /\ detached' = [detached EXCEPT ![q] = TRUE]
              /\ descs'    = [descs EXCEPT ![q] = @ \ {listed[q]}]
              /\ listed'   = [listed EXCEPT ![q] = None]
              /\ writer'   = [writer EXCEPT ![q] = None]
              /\ registry' = [registry EXCEPT ![q] = {}]
              /\ lock'     = [lock EXCEPT ![q] = Unlocked]
              /\ GoesTo(q, t, IF debugs[q] THEN "connect" ELSE "disarm")
    /\ UNCHANGED <<handlers, armed, debugs, world, listens, wrote, sessions>>

\* reattach, or attach for an exec'd child: the engine is there or is not.
Connect(q, t) ==
    /\ place[q][t] \in {"connect", "entered"}
    /\ \/ /\ descs' = [descs EXCEPT ![q] = @ \cup {q}]
          /\ detached' = [detached EXCEPT ![q] = FALSE]
          /\ GoesTo(q, t, IF place[q][t] = "connect" THEN "shaking" ELSE "greeting")
       \/ /\ GoesTo(q, t, IF place[q][t] = "connect" THEN "disarm" ELSE "python")
          /\ UNCHANGED <<descs, detached>>
    /\ UNCHANGED <<handlers, armed, listed, writer, registry, lock, debugs, world,
                   listens, wrote, sessions>>

\* The handshake, the two cells and the reader: a session, whose process says
\* nothing more until it is held.
Shake(q, t) ==
    /\ place[q][t] \in {"shaking", "greeting"} /\ lock[q]["writer"] = None
    /\ joined' = joined \cup {q}
    /\ writer' = [writer EXCEPT ![q] = q]
    /\ listed' = [listed EXCEPT ![q] = q]
    /\ \/ /\ listens' = [listens EXCEPT ![q] = TRUE]
          /\ GoesTo(q, t, IF place[q][t] = "shaking" THEN "hold" ELSE "arm")
          /\ UNCHANGED detached
       \/ /\ SpawnFails /\ place[q][t] = "shaking"
          /\ detached' = [detached EXCEPT ![q] = TRUE]
          /\ GoesTo(q, t, "disarm")
          /\ UNCHANGED listens
    /\ UNCHANGED <<handlers, armed, registry, lock, debugs, world, descs, wrote, ended>>

\* A mutant: a child that could not connect goes on as if it had.
ShakeFailsQuietly(q, t) ==
    /\ place[q][t] \in {"shaking", "greeting"}
    /\ descs' = [descs EXCEPT ![q] = @ \ {q}]
    /\ GoesTo(q, t, IF place[q][t] = "shaking" THEN "disarm" ELSE "python")
    /\ UNCHANGED <<memory, listens, wrote, sessions>>

\* The engine refuses, or goes: back to a process that is not debugged.
ShakeFails(q, t) ==
    /\ place[q][t] \in {"shaking", "greeting"}
    /\ descs' = [descs EXCEPT ![q] = @ \ {q}]
    /\ detached' = [detached EXCEPT ![q] = place[q][t] = "shaking"]
    /\ GoesTo(q, t, IF place[q][t] = "shaking" THEN "disarm" ELSE "python")
    /\ UNCHANGED <<handlers, armed, listed, writer, registry, lock, debugs, world,
                   listens, wrote, sessions>>

\* events::disarm, off the published snapshot.
Disarm(q, t) ==
    /\ place[q][t] = "disarm"
    /\ armed' = [armed EXCEPT ![q] = FALSE]
    /\ GoesTo(q, t, "python")
    /\ UNCHANGED <<handlers, detached, listed, writer, registry, lock, debugs, world,
                   descs, listens, wrote, sessions>>

\* arm_as_a_debuggee.
Arm(q, t) ==
    /\ place[q][t] = "arm"
    /\ armed'    = [armed EXCEPT ![q] = TRUE]
    /\ handlers' = [handlers EXCEPT ![q] = TRUE]
    /\ debugs'   = [debugs EXCEPT ![q] = TRUE]
    /\ GoesTo(q, t, "hold")
    /\ UNCHANGED <<detached, listed, writer, registry, lock, world, descs, listens, wrote, sessions>>

-----------------------------------------------------------------------------

ChildInit ==
    /\ place = [p \in Processes |-> [t \in Threads |-> IF p = Root THEN "python" ELSE "no"]]
    /\ handlers = [p \in Processes |-> p = Root]
    /\ armed = handlers /\ listens = handlers
    /\ detached = [p \in Processes |-> FALSE]
    /\ descs = [p \in Processes |-> IF p = Root THEN {Root} ELSE {}]
    /\ listed = [p \in Processes |-> IF p = Root THEN Root ELSE None]
    /\ writer = listed
    /\ registry = [p \in Processes |-> {}]
    /\ lock = [p \in Processes |-> Unlocked]
    /\ debugs = [p \in Processes |-> FALSE]
    /\ world = [p \in Processes |-> {}]
    /\ wrote = [p \in Processes |-> {}]
    /\ joined = {Root} /\ ended = {}

Stops(p, t)   == Enter(p, t) \/ Register(p, t) \/ Report(p, t) \/ Sent(p, t)
Handles(q, t) == \/ Detach(q, t) \/ Connect(q, t) \/ Shake(q, t) \/ ShakeFails(q, t)
                 \/ Disarm(q, t) \/ Arm(q, t)
Asked(p, t)   == Resume(p, t) \/ StopTheWorld(p, t)
Parks(p, t)   == Park(p, t) \/ Unpark(p, t)
Begins(p, t)  == \E q \in Kids : MakeCopy(p, t, q) \/ Exec(p, t, q)

ChildNext ==
    \E p \in Processes :
        \/ \E t \in Threads : \/ Stops(p, t) \/ Handles(p, t) \/ Asked(p, t)
                              \/ Parks(p, t) \/ Begins(p, t)
        \/ DebugChildren(p) \/ Die(p) \/ EndIsRead(p)

ChildSpec == ChildInit /\ [][ChildNext]_childVars

\* The one thread of a child is scheduled while it is in its handler or half way
\* through a stop, and the engine reads.  Nothing makes a program stop, fork or end.
ChildFairness ==
    /\ \A p \in Processes : WF_childVars(EndIsRead(p))
    /\ \A q \in Kids :
          WF_childVars(\E t \in Threads : Handles(q, t) \/ (place[q][t] # "python" /\ Stops(q, t)))

ChildFairSpec == ChildSpec /\ ChildFairness

-----------------------------------------------------------------------------
(***************************************************************************)
(* Properties.                                                             *)
(***************************************************************************)

\* Two processes never write on one connection: their frames would interleave,
\* and the engine would read neither.
OneWriter == \A c \in Processes : wrote[c] \subseteq {c}

\* A session of its own: the handle it writes on, the descriptors it lists and
\* the thread that reads are there, and whoever its registry names is held here.
Whole(p) ==
    /\ ~detached[p] /\ armed[p] /\ handlers[p] /\ listens[p]
    /\ writer[p] = p /\ listed[p] = p /\ descs[p] = {p} /\ p \in joined
    /\ \A t \in registry[p] : place[p][t] \in {"telling", "sending", "held"}
    /\ \A c \in Cells : lock[p][c] # None => place[p][lock[p][c]] \in {"entering", "sending"}

\* As it would be without bpd: no event is on and nothing of a session is open.
Bare(p) == ~armed[p] /\ ~listens[p] /\ descs[p] = {}

\* A process that runs its program is one or the other, however many processes
\* it was made through and whatever the other threads were doing.
WholeOrBare ==
    \A p \in Processes : (\E t \in Threads : place[p][t] \in {"python", "held"})
                            => Whole(p) \/ Bare(p)

\* Both: what a fork may not leave behind in either process.
ForksCleanly == OneWriter /\ WholeOrBare

\* The locks that the next step of a thread takes: of the handler, of a stop.
Wanted(q, t) ==
    CASE place[q][t] = "hold" -> {"registry"}
      [] place[q][t] = "telling" /\ ~detached[q] -> {"writer"}
      [] place[q][t] \in {"shaking", "greeting"} -> {"writer"}
      [] OTHER -> {}

\* The one thread of a child never waits, in its handler or on the way to its
\* first stop, for a thread that the fork did not keep; and no process but one
\* that has yet to run its handler keeps the connection of one that has ended.
ChildIsFree ==
    /\ \A q \in Kids, t \in Threads : \A c \in Wanted(q, t) : lock[q][c] = None
    /\ \A p, q \in Processes : Gone(p) /\ p \in descs[q] =>
          \E t \in Threads : place[q][t] = "forked"

\* Both: what is forked is on its own, in what it holds and what it waits for.
ChildIsItsOwn == ForksCleanly /\ ChildIsFree

\* So a child gets to its program or is held, and a session that is over is read
\* to its end, whatever was made from its process and goes on.
ChildGoesOn ==
    /\ \A q \in Kids : (\E t \in Threads : place[q][t] \in {"forked", "entered"})
                          ~> (\A t \in Threads : place[q][t] \in {"python", "held", "no"})
    /\ \A p \in Processes : Gone(p) ~> (p \in ended)

\* What holds a process is a stop of it that can be resumed.
WorldHasAHolder ==
    \A p \in Processes : \A t \in world[p] : Exists(p) => place[p][t] # "no"

=============================================================================
