------------------------------- MODULE Stream -------------------------------
(***************************************************************************)
(* The stream of trace records (crates/bpd_agent/src/stream.rs): the       *)
(* bounded queue the audit hook pushes onto, the thread that writes it,    *)
(* the flush a stop waits for, the stand-down around a fork and the end of *)
(* the program.                                                            *)
(*                                                                         *)
(* A record is the number of its push.  What is modelled of a stop is the  *)
(* flush before it and the report after it; what is modelled of the engine *)
(* is that it reads.                                                       *)
(***************************************************************************)
EXTENDS Naturals, Sequences, FiniteSets

CONSTANTS
    Threads,      \* the program's threads
    Main,         \* the one that runs the program's end
    Capacity,     \* CAPACITY
    FreeThreaded, \* whether the build has no GIL
    MaxRecords,   \* bound: how many records are pushed
    MaxStops,     \* bound: how many stops are begun
    MaxForks      \* bound: how many forks are begun

ASSUME StreamAssumption ==
    /\ Main \in Threads /\ IsFiniteSet(Threads)
    /\ Capacity \in Nat \ {0}
    /\ FreeThreaded \in BOOLEAN
    /\ {MaxRecords, MaxStops, MaxForks} \subseteq Nat
    /\ "nobody" \notin Threads

VARIABLES
    watching,   \* WATCHING
    queue,      \* Outbound.queue
    dropped,    \* Outbound.dropped
    pushed,     \* Outbound.pushed
    delivered,  \* Outbound.delivered
    stopping,   \* Outbound.stopping
    wanted,     \* Writer.wanted
    running,    \* Writer.running is there
    forking,    \* Writer.forking
    writerLock, \* the thread that holds the mutex around WRITER, or "nobody"
    wakeup,     \* the bytes in the wakeup pair
    writer,     \* the writing thread
    inHand,     \* the record taken and not yet accounted for, with its count
    written,    \* the last record on the connection
    pc,         \* where each thread is
    target,     \* what the flush of each thread waits for
    begun       \* how many stops and forks were begun

outbound == <<queue, dropped, pushed, delivered>>
thread   == <<wanted, running, forking, writerLock, wakeup>>
vars == <<watching, outbound, stopping, thread, writer, inHand, written, pc, target,
          begun>>

-----------------------------------------------------------------------------

\* Attached for the whole of what it does there.
Interpreting == {"announcing", "join", "fork", "finish", "finishJoin", "drain", "drainSend",
                 "drainSent"}

Interpreter(t) == \/ FreeThreaded
                  \/ \A u \in Threads \ {t} : pc[u] \notin Interpreting

Goto(t, there) == pc' = [pc EXCEPT ![t] = there]

\* Everyone asleep in a flush looks again, and t goes on.
DrainedThen(t, there) ==
    pc' = [u \in Threads |-> CASE u = t            -> there
                               [] pc[u] = "asleep" -> "check"
                               [] OTHER            -> pc[u]]
Drained == pc' = [u \in Threads |-> IF pc[u] = "asleep" THEN "check" ELSE pc[u]]

-----------------------------------------------------------------------------
(***************************************************************************)
(* Watching, and the audit hook.                                           *)
(***************************************************************************)

\* watch(true): the writer is wanted, and started unless it runs or a fork is
\* under way.  Bound: nobody asks once the program is over.
WatchOn ==
    /\ ~watching /\ writerLock = "nobody" /\ pc[Main] # "over"
    /\ FreeThreaded \/ \A u \in Threads : pc[u] \notin Interpreting
    /\ watching' = TRUE
    /\ wanted' = TRUE
    /\ IF running \/ forking > 0
         THEN UNCHANGED <<running, writer>>
         ELSE running' = TRUE /\ writer' = "look"
    /\ UNCHANGED <<outbound, stopping, forking, writerLock, wakeup, inHand, written, pc,
                   target, begun>>

\* watch(false) leaves the writer where it is.
WatchOff ==
    /\ watching /\ pc[Main] # "over"
    /\ FreeThreaded \/ \A u \in Threads : pc[u] \notin Interpreting
    /\ watching' = FALSE
    /\ UNCHANGED <<outbound, stopping, thread, writer, inHand, written, pc, target, begun>>

\* The hook reads the flag and renders the record ...
Announce(t) ==
    /\ pc[t] = "python" /\ Interpreter(t)
    /\ watching
    /\ Goto(t, "announcing")
    /\ UNCHANGED <<watching, outbound, stopping, thread, writer, inHand, written, target, begun>>

\* A mutant: a record that is dropped is not counted as delivered.
PushUncounted(t) ==
    /\ pc[t] = "announcing" /\ pushed < MaxRecords
    /\ pushed' = pushed + 1
    /\ IF Len(queue) >= Capacity
         THEN /\ queue' = Append(Tail(queue), pushed + 1)
              /\ dropped' = dropped + 1
              /\ UNCHANGED delivered
              /\ DrainedThen(t, "python")
         ELSE /\ queue' = Append(queue, pushed + 1)
              /\ UNCHANGED <<dropped, delivered>>
              /\ Goto(t, "python")
    /\ writer' = IF writer = "asleep" THEN "look" ELSE writer
    /\ UNCHANGED <<watching, stopping, thread, inHand, written, target, begun>>

\* ... and pushes it: onto a full queue, the oldest is dropped and counted.
Push(t) ==
    /\ pc[t] = "announcing" /\ pushed < MaxRecords
    /\ pushed' = pushed + 1
    /\ IF Len(queue) >= Capacity
         THEN /\ queue' = Append(Tail(queue), pushed + 1)
              /\ dropped' = dropped + 1
              /\ delivered' = delivered + 1
              /\ DrainedThen(t, "python")
         ELSE /\ queue' = Append(queue, pushed + 1)
              /\ UNCHANGED <<dropped, delivered>>
              /\ Goto(t, "python")
    /\ writer' = IF writer = "asleep" THEN "look" ELSE writer
    /\ UNCHANGED <<watching, stopping, thread, inHand, written, target, begun>>

\* A record that is not one of the runtime's is not rendered.
NotARecord(t) ==
    /\ pc[t] = "announcing"
    /\ Goto(t, "python")
    /\ UNCHANGED <<watching, outbound, stopping, thread, writer, inHand, written, target, begun>>

-----------------------------------------------------------------------------
(***************************************************************************)
(* The writer: write_records.                                              *)
(***************************************************************************)

WriterLook ==
    /\ writer = "look"
    /\ writer' = IF stopping THEN "gone" ELSE IF queue = <<>> THEN "asleep" ELSE "room"
    /\ UNCHANGED <<watching, outbound, stopping, thread, inHand, written, pc, target, begun>>

\* Standing down wins over room on the connection.
WriterRoom ==
    /\ writer = "room"
    /\ writer' = IF wakeup > 0 THEN "gone" ELSE "take"
    /\ UNCHANGED <<watching, outbound, stopping, thread, inHand, written, pc, target, begun>>

\* A mutant: the count stays for the records after the next one.
TakeKeepsCount ==
    /\ inHand' = <<[record |-> Head(queue), before |-> dropped]>>
    /\ queue' = Tail(queue)
    /\ UNCHANGED <<dropped, pushed, delivered>>

\* Outbound::take: the oldest, with what was dropped before it.
Take ==
    /\ inHand' = <<[record |-> Head(queue), before |-> dropped]>>
    /\ queue' = Tail(queue)
    /\ dropped' = 0
    /\ UNCHANGED <<pushed, delivered>>

WriterTake ==
    /\ writer = "take" /\ queue # <<>>
    /\ Take
    /\ writer' = "send"
    /\ UNCHANGED <<watching, stopping, thread, written, pc, target, begun>>

WriterSend ==
    /\ writer = "send"
    /\ written' = inHand[1].record
    /\ inHand' = <<>>
    /\ writer' = "sent"
    /\ UNCHANGED <<watching, outbound, stopping, thread, pc, target, begun>>

WriterWritten ==
    /\ writer = "sent"
    /\ delivered' = delivered + 1
    /\ Drained
    /\ writer' = "look"
    /\ UNCHANGED <<watching, queue, dropped, pushed, stopping, thread, inHand, written, target,
                   begun>>

-----------------------------------------------------------------------------
(***************************************************************************)
(* A stop: flush without the interpreter, and then the report.             *)
(***************************************************************************)

BeginStop(t) ==
    /\ pc[t] = "python" /\ Interpreter(t)
    /\ begun.stops < MaxStops
    /\ begun' = [begun EXCEPT !.stops = @ + 1]
    /\ Goto(t, "flush")
    /\ UNCHANGED <<watching, outbound, stopping, thread, writer, inHand, written, target>>

\* Nothing is waited for when no writer is wanted.
FlushWanted(t) ==
    /\ pc[t] = "flush" /\ writerLock = "nobody"
    /\ Goto(t, IF wanted THEN "aim" ELSE "report")
    /\ UNCHANGED <<watching, outbound, stopping, thread, writer, inHand, written, target, begun>>

FlushAim(t) ==
    /\ pc[t] = "aim"
    /\ target' = [target EXCEPT ![t] = pushed]
    /\ Goto(t, IF delivered < pushed THEN "asleep" ELSE "report")
    /\ UNCHANGED <<watching, outbound, stopping, thread, writer, inHand, written, begun>>

\* A mutant: the wait is not in a loop.
FlushWithoutLoop(t) ==
    /\ pc[t] = "check"
    /\ Goto(t, "report")
    /\ UNCHANGED <<watching, outbound, stopping, thread, writer, inHand, written, target, begun>>

FlushCheck(t) ==
    /\ pc[t] = "check"
    /\ Goto(t, IF delivered < target[t] THEN "asleep" ELSE "report")
    /\ UNCHANGED <<watching, outbound, stopping, thread, writer, inHand, written, target, begun>>

\* Stopped is sent; what the thread does while it is held is not modelled.
Report(t) ==
    /\ pc[t] = "report" /\ Interpreter(t)
    /\ target' = [target EXCEPT ![t] = 0]
    /\ Goto(t, "python")
    /\ UNCHANGED <<watching, outbound, stopping, thread, writer, inHand, written, begun>>

-----------------------------------------------------------------------------
(***************************************************************************)
(* A fork, and the end of the program.                                     *)
(***************************************************************************)

\* stop(): the writer is told on both of the things it may be waiting for, and
\* joined with the lock held.
Tell(t) ==
    /\ running' = FALSE
    /\ writerLock' = t
    /\ stopping' = TRUE
    /\ wakeup' = wakeup + 1
    /\ writer' = IF writer = "asleep" THEN "look" ELSE writer

Alone == UNCHANGED <<running, writerLock, stopping, wakeup, writer>>

\* The next handler takes the answering thread off the process, and gives the
\* interpreter back for it if an answer is in flight.
OnToFork(t) == Goto(t, "fork") \/ Goto(t, "standing")

Stood(t) ==
    /\ pc[t] = "standing" /\ Interpreter(t)
    /\ Goto(t, "fork")
    /\ UNCHANGED <<watching, outbound, stopping, thread, writer, inHand, written, target, begun>>

StandDown(t) ==
    /\ pc[t] = "python" /\ Interpreter(t) /\ writerLock = "nobody"
    /\ begun.forks < MaxForks
    /\ begun' = [begun EXCEPT !.forks = @ + 1]
    /\ forking' = forking + 1
    /\ IF running THEN Tell(t) /\ Goto(t, "join") ELSE Alone /\ OnToFork(t)
    /\ UNCHANGED <<watching, outbound, wanted, inHand, written, target>>

Joined(t) ==
    /\ pc[t] \in {"join", "finishJoin"} /\ writer = "gone"
    /\ writer' = "off"
    /\ wakeup' = 0
    /\ stopping' = FALSE
    /\ writerLock' = "nobody"
    /\ IF pc[t] = "join" THEN OnToFork(t) ELSE Goto(t, "drain")
    /\ UNCHANGED <<watching, outbound, wanted, running, forking, inHand, written, target, begun>>

\* A mutant: the first fork to be over puts the writer back.
ResumeAtOnce(t) ==
    /\ pc[t] = "fork" /\ writerLock = "nobody"
    /\ forking' = forking - 1
    /\ IF wanted /\ ~running
         THEN running' = TRUE /\ writer' = "look"
         ELSE UNCHANGED <<running, writer>>
    /\ Goto(t, "python")
    /\ UNCHANGED <<watching, outbound, stopping, wanted, writerLock, wakeup, inHand, written,
                   target, begun>>

\* The fork is over: the last of those under way puts a wanted writer back.
Resume(t) ==
    /\ pc[t] = "fork" /\ writerLock = "nobody"
    /\ forking' = forking - 1
    /\ IF forking' = 0 /\ wanted
         THEN running' = TRUE /\ writer' = "look"
         ELSE UNCHANGED <<running, writer>>
    /\ Goto(t, "python")
    /\ UNCHANGED <<watching, outbound, stopping, wanted, writerLock, wakeup, inHand, written,
                   target, begun>>

\* finish(): the watch goes off ...
Finish ==
    /\ pc[Main] = "python" /\ Interpreter(Main)
    /\ watching' = FALSE
    /\ Goto(Main, "finish")
    /\ UNCHANGED <<outbound, stopping, thread, writer, inHand, written, target, begun>>

\* ... the writer is stopped for good ...
FinishStops ==
    /\ pc[Main] = "finish" /\ writerLock = "nobody"
    /\ wanted' = FALSE
    /\ IF running THEN Tell(Main) /\ Goto(Main, "finishJoin") ELSE Alone /\ Goto(Main, "drain")
    /\ UNCHANGED <<watching, outbound, forking, inHand, written, target, begun>>

\* A mutant: what is left in the queue is not written.
DrainNothing ==
    /\ pc[Main] = "drain"
    /\ Goto(Main, "over")
    /\ UNCHANGED <<outbound, inHand, watching, stopping, thread, writer, written, target, begun>>

\* ... and this thread writes the rest.
Drain ==
    /\ pc[Main] = "drain"
    /\ IF queue = <<>>
         THEN Goto(Main, "over") /\ UNCHANGED <<outbound, inHand>>
         ELSE Take /\ Goto(Main, "drainSend")
    /\ UNCHANGED <<watching, stopping, thread, writer, written, target, begun>>

DrainSend ==
    /\ pc[Main] = "drainSend"
    /\ written' = inHand[1].record
    /\ inHand' = <<>>
    /\ Goto(Main, "drainSent")
    /\ UNCHANGED <<watching, outbound, stopping, thread, writer, target, begun>>

DrainWritten ==
    /\ pc[Main] = "drainSent"
    /\ delivered' = delivered + 1
    /\ DrainedThen(Main, "drain")
    /\ UNCHANGED <<watching, queue, dropped, pushed, stopping, thread, writer, inHand, written,
                   target, begun>>

-----------------------------------------------------------------------------

Init ==
    /\ watching = FALSE
    /\ queue = <<>> /\ dropped = 0 /\ pushed = 0 /\ delivered = 0 /\ stopping = FALSE
    /\ wanted = FALSE /\ running = FALSE /\ forking = 0 /\ writerLock = "nobody" /\ wakeup = 0
    /\ writer = "off" /\ inHand = <<>> /\ written = 0
    /\ pc = [t \in Threads |-> "python"]
    /\ target = [t \in Threads |-> 0]
    /\ begun = [stops |-> 0, forks |-> 0]

Writes == WriterLook \/ WriterRoom \/ WriterTake \/ WriterSend \/ WriterWritten
Flushes(t) == FlushWanted(t) \/ FlushAim(t) \/ FlushCheck(t)
Forks(t) == Joined(t) \/ Stood(t) \/ Resume(t)
Ends == FinishStops \/ Drain \/ DrainSend \/ DrainWritten

Next ==
    \/ WatchOn \/ WatchOff \/ Finish \/ Ends
    \/ Writes
    \/ \E t \in Threads : \/ Announce(t) \/ Push(t) \/ NotARecord(t)
                          \/ BeginStop(t) \/ Flushes(t) \/ Report(t)
                          \/ StandDown(t) \/ Forks(t)

Spec == Init /\ [][Next]_vars

\* The operating system schedules every thread, and the engine reads: without
\* that a write, and all that waits for one, may wait for ever.
Fairness == /\ WF_vars(Writes) /\ WF_vars(Ends)
            /\ \A t \in Threads : SF_vars(Flushes(t)) /\ SF_vars(Forks(t))
                                  /\ WF_vars(Push(t) \/ NotARecord(t))

FairSpec == Spec /\ Fairness

-----------------------------------------------------------------------------
(***************************************************************************)
(* Properties.                                                             *)
(***************************************************************************)

Places == Interpreting \cup {"python", "flush", "aim", "asleep", "check", "report", "standing", "over"}

\* The types, with what the code keeps small: the queue never passes CAPACITY,
\* no more is delivered than pushed, and one byte at most is in the wakeup.
TypeOK ==
    /\ {watching, stopping, wanted, running} \subseteq BOOLEAN
    /\ queue \in Seq(1..MaxRecords) /\ Len(queue) <= Capacity
    /\ dropped \in Nat /\ pushed \in 0..MaxRecords /\ delivered \in 0..pushed
    /\ forking \in 0..Cardinality(Threads) /\ writerLock \in Threads \cup {"nobody"}
    /\ wakeup \in 0..1
    /\ writer \in {"off", "look", "asleep", "room", "take", "send", "sent", "gone"}
    /\ inHand \in Seq([record : 1..MaxRecords, before : Nat]) /\ Len(inHand) <= 1
    /\ written \in 0..MaxRecords
    /\ pc \in [Threads -> Places]
    /\ target \in [Threads -> 0..MaxRecords]
    /\ begun \in [stops : 0..MaxStops, forks : 0..MaxForks]

\* A client that reads a count above zero knows how many records are missing
\* before this one, and one that reads zero knows that none is.
GapsAreSaid ==
    \A i \in 1..Len(inHand) : inHand[i].before = inHand[i].record - written - 1

\* The record the writer waited for room for is still there when it has it: no
\* other thread takes one meanwhile.
TakeFindsOne == writer = "take" => queue # <<>>

\* A stop is reported after every record that was queued when it began.
StopFollowsRecords ==
    \A t \in Threads : pc[t] = "report" =>
        /\ \A i \in 1..Len(queue)  : queue[i] > target[t]
        /\ \A i \in 1..Len(inHand) : inHand[i].record > target[t]

\* Of those, the ones still in the queue are certainly waited for.
StopFollowsQueue ==
    \A t \in Threads : pc[t] = "report" => \A i \in 1..Len(queue) : queue[i] > target[t]

\* When the program's end is reported, every record was written or counted in
\* a gap that a later record said.
EndAccounts ==
    pc[Main] = "over" => queue = <<>> /\ inHand = <<>> /\ delivered = pushed /\ dropped = 0

\* The writer is not on the process while any thread forks.
WriterIsOff == \A t \in Threads : pc[t] \in {"standing", "fork"} => writer = "off"

\* A stop that waits for the stream is reported in the end, whatever forks,
\* drops and ends meanwhile.
FlushReturns == \A t \in Threads : (pc[t] = "flush") ~> (pc[t] = "report")

=============================================================================
