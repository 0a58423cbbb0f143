-------------------------------- MODULE Fork --------------------------------
(***************************************************************************)
(* Keeping the agent's own threads off a process that forks: the reader of *)
(* the control connection (attach.rs) and the thread that answers a        *)
(* program with nothing held (unheld.rs), taken off by the `before`        *)
(* handler and put back by the `after_in_parent` one (forks.rs).           *)
(*                                                                         *)
(* A request is its place in what the engine sent.  Every request here is  *)
(* about the process and arrives with no thread held, so that it goes      *)
(* through both threads.                                                   *)
(***************************************************************************)
EXTENDS Naturals, Sequences, FiniteSets

CONSTANTS
    Forkers,      \* the program's threads that call os.fork()
    Answerers,    \* names for the answering threads that may exist at once
    FreeThreaded, \* whether the build has no GIL
    MaxRequests,  \* bound: how many requests the engine sends
    MaxForks      \* bound: how many forks are begun

ASSUME ForkAssumption ==
    /\ Forkers \cap Answerers = {}
    /\ IsFiniteSet(Forkers)
    /\ FreeThreaded \in BOOLEAN
    /\ MaxRequests \in Nat /\ MaxForks \in Nat
    /\ "nobody" \notin Forkers \cup Answerers

VARIABLES
    sent,       \* how many requests the engine has sent
    socket,     \* what the kernel's receive buffer holds
    closed,     \* the engine has closed its end, after the program finished
    reader,     \* the reader thread: off, poll, route, gone (returned, not joined)
    inHand,     \* the request the reader has read and not routed
    reading,    \* Reader.running is there
    idle,       \* Reader.idle is there
    wakeup,     \* the bytes in the wakeup pair
    readerLock, \* the forker that holds the mutex around READER, or "nobody"
    forkingR,   \* Reader.forking
    queue,      \* Answering.queue
    inFlight,   \* Answering.in_flight
    stopping,   \* Answering.stopping
    running,    \* the thread Answering.running names, or "nobody"
    forkingA,   \* Answering.forking
    answerer,   \* each answering thread: off, look, wait, taken, attached, done, gone
    taken,      \* the request each of them is answering
    answered,   \* the answers sent, in order
    pc,         \* where each forker is
    joining,    \* the answering thread each forker waits for
    gil,        \* who holds the interpreter on a build with a GIL
    forks       \* how many forks were begun

engine == <<sent, socket, closed>>
readerSide == <<reader, inHand, reading, idle, wakeup, readerLock, forkingR>>
answerSide == <<queue, inFlight, stopping, running, forkingA, answerer, taken, answered>>
forkSide == <<pc, joining, forks>>
vars == <<engine, readerSide, answerSide, forkSide, gil>>

-----------------------------------------------------------------------------

\* Attached to the interpreter: with a GIL, alone.
Attached(p)  == FreeThreaded \/ gil = p
CanAttach(p) == FreeThreaded \/ gil = "nobody"
Attaches(p)  == IF FreeThreaded THEN UNCHANGED gil ELSE gil' = p
Detaches     == IF FreeThreaded THEN UNCHANGED gil ELSE gil' = "nobody"

Goto(f, there) == pc' = [pc EXCEPT ![f] = there]

\* notify_one and notify_all: at most one answering thread waits.
Notify == answerer' = [a \in Answerers |->
                          IF answerer[a] = "wait" THEN "look" ELSE answerer[a]]

\* unheld::start, under the lock, after a notification.
StartAnswering ==
    /\ stopping' = FALSE
    /\ \E a \in Answerers :
          /\ answerer[a] = "off"
          /\ running' = a
          /\ answerer' = [answerer EXCEPT ![a] = "look"]

-----------------------------------------------------------------------------
(***************************************************************************)
(* The engine, and the reader of the control connection.                   *)
(***************************************************************************)

Send ==
    /\ sent < MaxRequests /\ ~closed
    /\ sent' = sent + 1
    /\ socket' = Append(socket, sent + 1)
    /\ UNCHANGED <<closed, readerSide, answerSide, forkSide, gil>>

\* The engine hangs up once the program has finished.
Close ==
    /\ ~closed
    /\ closed' = TRUE
    /\ UNCHANGED <<sent, socket, readerSide, answerSide, forkSide, gil>>

\* Standing down wins over a frame that has arrived.
ReaderStandsDown ==
    /\ reader = "poll" /\ wakeup > 0
    /\ reader' = "gone"
    /\ UNCHANGED <<engine, inHand, reading, idle, wakeup, readerLock, forkingR,
                   answerSide, forkSide, gil>>

Read ==
    /\ reader = "poll" /\ wakeup = 0 /\ socket # <<>>
    /\ inHand' = <<Head(socket)>>
    /\ socket' = Tail(socket)
    /\ reader' = "route"
    /\ UNCHANGED <<sent, closed, reading, idle, wakeup, readerLock, forkingR,
                   answerSide, forkSide, gil>>

\* The end of the stream, on a path that does not look at the wakeup again.
ReadEnd ==
    /\ reader = "poll" /\ wakeup = 0 /\ socket = <<>> /\ closed
    /\ reader' = "gone"
    /\ UNCHANGED <<engine, inHand, reading, idle, wakeup, readerLock, forkingR,
                   answerSide, forkSide, gil>>

\* A mutant: a request that arrives between two handlers starts the thread.
RouteStartsInWindow ==
    /\ reader = "route"
    /\ queue' = Append(queue, inHand[1])
    /\ inHand' = <<>>
    /\ reader' = "poll"
    /\ IF running = "nobody"
         THEN StartAnswering
         ELSE Notify /\ UNCHANGED <<stopping, running>>
    /\ UNCHANGED <<engine, reading, idle, wakeup, readerLock, forkingR, inFlight,
                   forkingA, taken, answered, forkSide, gil>>

\* stops::route hands the request to unheld::answer: into the queue, and a
\* thread for it unless there is one or a fork is under way.
Route ==
    /\ reader = "route"
    /\ queue' = Append(queue, inHand[1])
    /\ inHand' = <<>>
    /\ reader' = "poll"
    /\ IF running = "nobody" /\ forkingA = 0
         THEN StartAnswering
         ELSE Notify /\ UNCHANGED <<stopping, running>>
    /\ UNCHANGED <<engine, reading, idle, wakeup, readerLock, forkingR, inFlight,
                   forkingA, taken, answered, forkSide, gil>>

-----------------------------------------------------------------------------
(***************************************************************************)
(* The answering thread.                                                   *)
(***************************************************************************)

\* A mutant: the queue is looked at before the stand-down is.
LookTakesThenStops(a) ==
    /\ answerer[a] = "look"
    /\ IF queue # <<>>
         THEN /\ answerer' = [answerer EXCEPT ![a] = IF stopping THEN "gone" ELSE "taken"]
              /\ taken' = [taken EXCEPT ![a] = IF stopping THEN <<>> ELSE <<Head(queue)>>]
              /\ queue' = Tail(queue)
              /\ inFlight' = ~stopping
         ELSE /\ answerer' = [answerer EXCEPT ![a] = IF stopping THEN "gone" ELSE "wait"]
              /\ UNCHANGED <<queue, taken, inFlight>>
    /\ UNCHANGED <<engine, readerSide, stopping, running, forkingA, answered, forkSide, gil>>

\* The head of answer_requests, under the lock: the stand-down is looked at
\* before the queue.
Look(a) ==
    /\ answerer[a] = "look"
    /\ \/ /\ stopping
          /\ answerer' = [answerer EXCEPT ![a] = "gone"]
          /\ UNCHANGED <<queue, taken, inFlight>>
       \/ /\ ~stopping /\ queue # <<>>
          /\ answerer' = [answerer EXCEPT ![a] = "taken"]
          /\ taken' = [taken EXCEPT ![a] = <<Head(queue)>>]
          /\ queue' = Tail(queue)
          /\ inFlight' = TRUE
       \/ /\ ~stopping /\ queue = <<>>
          /\ answerer' = [answerer EXCEPT ![a] = "wait"]
          /\ UNCHANGED <<queue, taken, inFlight>>
    /\ UNCHANGED <<engine, readerSide, stopping, running, forkingA, answered, forkSide, gil>>

\* Python::try_attach.
Attach(a) ==
    /\ answerer[a] = "taken" /\ CanAttach(a)
    /\ Attaches(a)
    /\ answerer' = [answerer EXCEPT ![a] = "attached"]
    /\ UNCHANGED <<engine, readerSide, queue, inFlight, stopping, running, forkingA, taken,
                   answered, forkSide>>

\* The answer goes out, and the interpreter is let go.
Answer(a) ==
    /\ answerer[a] = "attached"
    /\ answered' = answered \o taken[a]
    /\ taken' = [taken EXCEPT ![a] = <<>>]
    /\ Detaches
    /\ answerer' = [answerer EXCEPT ![a] = "done"]
    /\ UNCHANGED <<engine, readerSide, queue, inFlight, stopping, running, forkingA, forkSide>>

Done(a) ==
    /\ answerer[a] = "done"
    /\ inFlight' = FALSE
    /\ answerer' = [answerer EXCEPT ![a] = "look"]
    /\ UNCHANGED <<engine, readerSide, queue, stopping, running, forkingA, taken, answered,
                   forkSide, gil>>

-----------------------------------------------------------------------------
(***************************************************************************)
(* A fork: forks::going_to_fork, the fork itself, and forks::forked.       *)
(***************************************************************************)

\* attach::stand_down: the lock is kept until the reader has gone.
StandDownReader(f) ==
    /\ pc[f] = "python" /\ CanAttach(f) /\ readerLock = "nobody"
    /\ forks < MaxForks
    /\ forks' = forks + 1
    /\ Attaches(f)
    /\ forkingR' = forkingR + 1
    /\ IF reading
         THEN /\ reading' = FALSE
              /\ wakeup' = wakeup + 1
              /\ readerLock' = f
              /\ Goto(f, "joinReader")
         ELSE /\ Goto(f, "answerer")
              /\ UNCHANGED <<reading, wakeup, readerLock>>
    /\ UNCHANGED <<engine, reader, inHand, idle, answerSide, joining>>

\* A mutant: the wakeup keeps its byte.
JoinReaderWithoutDrain(f) ==
    /\ pc[f] = "joinReader" /\ reader = "gone"
    /\ reader' = "off"
    /\ idle' = TRUE
    /\ readerLock' = "nobody"
    /\ Goto(f, "answerer")
    /\ UNCHANGED <<engine, inHand, reading, wakeup, forkingR, answerSide, joining, forks, gil>>

JoinReader(f) ==
    /\ pc[f] = "joinReader" /\ reader = "gone"
    /\ reader' = "off"
    /\ wakeup' = 0
    /\ idle' = TRUE
    /\ readerLock' = "nobody"
    /\ Goto(f, "answerer")
    /\ UNCHANGED <<engine, inHand, reading, forkingR, answerSide, joining, forks, gil>>

\* A mutant: the interpreter is kept while an answer is waited for.
StandDownAnswererKeepingGIL(f) ==
    /\ pc[f] = "answerer"
    /\ forkingA' = forkingA + 1
    /\ stopping' = TRUE
    /\ Notify
    /\ IF running = "nobody"
         THEN Goto(f, "fork") /\ UNCHANGED <<running, joining>>
         ELSE /\ joining' = [joining EXCEPT ![f] = running]
              /\ running' = "nobody"
              /\ Goto(f, "joinAnswerer")
    /\ UNCHANGED <<engine, readerSide, queue, inFlight, taken, answered, forks, gil>>

\* unheld::stand_down: the interpreter is given back for the join when an
\* answer is in flight.
StandDownAnswerer(f) ==
    /\ pc[f] = "answerer"
    /\ forkingA' = forkingA + 1
    /\ stopping' = TRUE
    /\ Notify
    /\ IF running = "nobody"
         THEN Goto(f, "fork") /\ UNCHANGED <<running, joining, gil>>
         ELSE /\ joining' = [joining EXCEPT ![f] = running]
              /\ running' = "nobody"
              /\ Goto(f, "joinAnswerer")
              /\ IF inFlight THEN Detaches ELSE UNCHANGED gil
    /\ UNCHANGED <<engine, readerSide, queue, inFlight, taken, answered, forks>>

JoinAnswerer(f) ==
    /\ pc[f] = "joinAnswerer" /\ (Attached(f) \/ CanAttach(f))
    /\ answerer[joining[f]] = "gone"
    /\ answerer' = [answerer EXCEPT ![joining[f]] = "off"]
    /\ joining' = [joining EXCEPT ![f] = "nobody"]
    /\ Attaches(f)
    /\ Goto(f, "fork")
    /\ UNCHANGED <<engine, readerSide, queue, inFlight, stopping, running, forkingA, taken,
                   answered, forks>>

OsFork(f) ==
    /\ pc[f] = "fork"
    /\ Goto(f, "forked")
    /\ UNCHANGED <<engine, readerSide, answerSide, joining, forks, gil>>

\* A mutant: the first of two forks to be over puts the reader back.
ResumeReaderAtOnce(f) ==
    /\ pc[f] = "forked" /\ readerLock = "nobody"
    /\ forkingR' = forkingR - 1
    /\ IF idle
         THEN reader' = "poll" /\ reading' = TRUE /\ idle' = FALSE
         ELSE UNCHANGED <<reader, reading, idle>>
    /\ Goto(f, "resume")
    /\ UNCHANGED <<engine, inHand, wakeup, readerLock, answerSide, joining, forks, gil>>

\* attach::resume_reading: the last of the forks under way puts the reader back.
ResumeReader(f) ==
    /\ pc[f] = "forked" /\ readerLock = "nobody"
    /\ forkingR' = forkingR - 1
    /\ IF forkingR' = 0
         THEN reader' = "poll" /\ reading' = TRUE /\ idle' = FALSE
         ELSE UNCHANGED <<reader, reading, idle>>
    /\ Goto(f, "resume")
    /\ UNCHANGED <<engine, inHand, wakeup, readerLock, answerSide, joining, forks, gil>>

\* unheld::resume_answering: the last of the forks under way starts a thread if
\* something waits for one.
ResumeAnswerer(f) ==
    /\ pc[f] = "resume"
    /\ forkingA' = forkingA - 1
    /\ IF forkingA' = 0 /\ queue # <<>>
         THEN StartAnswering
         ELSE UNCHANGED <<stopping, running, answerer>>
    /\ Detaches
    /\ Goto(f, "python")
    /\ UNCHANGED <<engine, readerSide, queue, inFlight, taken, answered, joining, forks>>

-----------------------------------------------------------------------------

Init ==
    /\ sent = 0 /\ socket = <<>> /\ closed = FALSE
    /\ reader = "poll" /\ inHand = <<>> /\ reading = TRUE /\ idle = FALSE
    /\ wakeup = 0 /\ readerLock = "nobody" /\ forkingR = 0
    /\ queue = <<>> /\ inFlight = FALSE /\ stopping = FALSE /\ running = "nobody"
    /\ forkingA = 0
    /\ answerer = [a \in Answerers |-> "off"]
    /\ taken = [a \in Answerers |-> <<>>]
    /\ answered = <<>>
    /\ pc = [f \in Forkers |-> "python"]
    /\ joining = [f \in Forkers |-> "nobody"]
    /\ gil = "nobody" /\ forks = 0

Reads == ReaderStandsDown \/ Read \/ ReadEnd \/ Route
Answers(a) == Look(a) \/ Attach(a) \/ Answer(a) \/ Done(a)
GoesOn(f) == \/ JoinReader(f) \/ StandDownAnswerer(f) \/ JoinAnswerer(f)
             \/ OsFork(f) \/ ResumeReader(f) \/ ResumeAnswerer(f)

Next ==
    \/ Send \/ Close
    \/ Reads
    \/ \E a \in Answerers : Answers(a)
    \/ \E f \in Forkers : StandDownReader(f) \/ GoesOn(f)

Spec == Init /\ [][Next]_vars

\* The operating system schedules the agent's threads and the forking ones; the
\* interpreter comes free again and again, so taking it needs strong fairness.
\* Nothing makes the engine send or the program fork.
Fairness == /\ WF_vars(Reads)
            /\ \A a \in Answerers : SF_vars(Answers(a))
            /\ \A f \in Forkers : SF_vars(GoesOn(f))

FairSpec == Spec /\ Fairness

-----------------------------------------------------------------------------
(***************************************************************************)
(* Properties.                                                             *)
(***************************************************************************)

\* The types, with what the code keeps small: one byte at most in the wakeup
\* (a fork that finds the reader stood down sends none), and a count of forks
\* under way that never passes the number of threads.
TypeOK ==
    /\ sent \in Nat /\ socket \in Seq(Nat) /\ closed \in BOOLEAN
    /\ reader \in {"off", "poll", "route", "gone"}
    /\ inHand \in Seq(Nat) /\ {reading, idle, inFlight, stopping} \subseteq BOOLEAN
    /\ wakeup \in 0..1
    /\ readerLock \in Forkers \cup {"nobody"}
    /\ forkingR \in 0..Cardinality(Forkers) /\ forkingA \in 0..Cardinality(Forkers)
    /\ queue \in Seq(Nat) /\ answered \in Seq(Nat)
    /\ running \in Answerers \cup {"nobody"}
    /\ answerer \in [Answerers -> {"off", "look", "wait", "taken", "attached", "done", "gone"}]
    /\ taken \in [Answerers -> Seq(Nat)]
    /\ pc \in [Forkers -> {"python", "joinReader", "answerer", "joinAnswerer", "fork",
                           "forked", "resume"}]
    /\ joining \in [Forkers -> Answerers \cup {"nobody"}]
    /\ gil \in Forkers \cup Answerers \cup {"nobody"}
    /\ forks \in Nat

\* What an answering thread has in hand.
InAnswer(as) == IF \E a \in as : taken[a] # <<>>
                  THEN taken[CHOOSE a \in as : taken[a] # <<>>] ELSE <<>>

\* A request that arrives while the threads come and go is delayed and never
\* lost, answered twice or answered out of its turn: the answers, what is being
\* answered, the queue, the reader's hand and the socket are what was sent.
RequestsKept ==
    answered \o InAnswer(Answerers) \o queue \o inHand \o socket = [i \in 1..sent |-> i]

\* The reader is not on the process from before a fork until after it, however
\* many threads fork at once.
ReaderIsOff == \A f \in Forkers : pc[f] \in {"answerer", "joinAnswerer", "fork", "forked"}
                                     => reader = "off"

\* Nor is the thread that answers a running program.
AnswererIsOff == \A f \in Forkers : pc[f] \in {"fork", "forked"}
                                       => \A a \in Answerers : answerer[a] = "off"

\* With no other fork under way it is not, whatever was being answered.
LoneForkIsClean ==
    \A f \in Forkers : pc[f] \in {"fork", "forked"} /\ forkingA = 1
                          => \A a \in Answerers : answerer[a] = "off"

\* Two answers are never computed at once, so they cannot be sent in whatever
\* order they finish.
OneAnswerer == \A a, b \in Answerers : answerer[a] # "off" /\ answerer[b] # "off" => a = b

\* What the handlers of attach.rs and unheld.rs promise together, whatever forks
\* overlap: the reader is off the process and there is one answerer at most.
OwnThreadsKeepOff == ReaderIsOff /\ OneAnswerer

\* What the code asserts when a fork is over: it was counted, and the reading
\* end is there for the thread that is started.
HandlersPair ==
    \A f \in Forkers :
        /\ pc[f] = "forked" /\ readerLock = "nobody" =>
              forkingR > 0 /\ (forkingR = 1 => idle)
        /\ pc[f] = "resume" => forkingA > 0

\* A fork is never held up for ever by the agent's threads.
ForkReturns == \A f \in Forkers : (pc[f] # "python") ~> (pc[f] = "python")

\* Every request the engine sends is answered, whatever forks.
RequestsAnswered == \A n \in 1..MaxRequests : (sent >= n) ~> (Len(answered) >= n)

\* Both: neither side of a fork waits for the other for ever.
NothingHangs == ForkReturns /\ RequestsAnswered

=============================================================================
