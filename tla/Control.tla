------------------------------ MODULE Control ------------------------------
(***************************************************************************)
(* One control connection and both its ends.  The agent's end is the       *)
(* registry of held threads with a mailbox each, the reader that routes a  *)
(* request to one of them (crates/bpd_agent/src/stops.rs), the loop of a   *)
(* held thread (session::stop) and the thread that answers while nothing   *)
(* is held (unheld.rs).  The engine's end is Attached::ask, send_and_wait  *)
(* and Debuggee::wait_for (crates/bpd_engine/src/launch.rs).               *)
(*                                                                         *)
(* No message carries the request it answers: the engine takes what comes  *)
(* for the answer unless its kind says it cannot be one.  The model gives  *)
(* every request a serial number and every message the serial number of    *)
(* the request it answers (Nobody when it answers none), which the engine  *)
(* never reads; they are what the properties are stated with.              *)
(***************************************************************************)
EXTENDS Naturals, Sequences, FiniteSets

CONSTANTS
    Threads,       \* the program's threads
    Main,          \* the one that runs the program and finishes it
    Asks,          \* the kinds of request the client makes
    MaxStops,      \* bounds: the stops that happen,
    MaxRequests,   \*         the requests made,
    MaxRebinds,    \*         the files whose loading rebinds a breakpoint,
    MaxInterrupts, \*         the pauses sent past a waiting engine
    Finishes,      \* whether the program may finish
    Kills          \* whether the process may be killed

ProcessAsks == {"setBreakpoints", "census"}
StopAsks    == {"stack", "restart"}
LetGoAsks   == {"resume", "resumeAll", "step"}

ASSUME ControlAssumption ==
    /\ Main \in Threads
    /\ Asks \subseteq ProcessAsks \cup StopAsks \cup LetGoAsks \cup {"pause"}
    /\ {MaxStops, MaxRequests, MaxRebinds, MaxInterrupts} \subseteq Nat
    /\ {Finishes, Kills} \subseteq BOOLEAN

Stops   == 1..MaxStops
Nobody  == 0
Entries == [stop : Stops, thread : Threads]

Requests == [serial : 0..MaxRequests, kind : Asks \cup {"pause"}, names : SUBSET Entries]
NoRequest == [serial |-> Nobody, kind |-> "none", names |-> {}]

VARIABLES
    minted,     \* MINTED, the last stop number handed out
    registry,   \* REGISTRY.held
    mailbox,    \* the mailbox of every stop, with the requests as commands
    at,         \* where each thread is
    stopOf,     \* the stop a thread is in
    work,       \* the command a held thread has taken
    reader,     \* what the connection's reader is doing
    unheld,     \* ANSWERING.queue
    answering,  \* the request the unheld answerer has in flight
    pausers,    \* the requests for which a pause thread is starting
    requests,   \* the connection, from the engine to the agent
    messages,   \* and from the agent to the engine
    closed,     \* the process has gone
    engine,     \* what the engine is doing: "idle", "asking", "waiting"
    asked,      \* the request it is waiting for the answer to
    held,       \* Attached.held
    rebinds,    \* Attached.pending_rebinds, as a number
    carried,    \* the rebindings a wait has gathered
    serial,     \* the last serial number given
    outcome,    \* what the last request came to
    announced,  \* how many rebindings the agent announced,
    told,       \* how many of them the client was told,
    interrupts  \* and how often a pause was sent past the engine

thread == <<at, stopOf, work>>
stops  == <<minted, registry, mailbox>>
agent  == <<stops, thread, reader, unheld, answering, pausers, announced>>
client == <<engine, asked, held, rebinds, carried, serial, outcome, told, interrupts>>
vars   == <<agent, requests, messages, closed, client>>

-----------------------------------------------------------------------------
(***************************************************************************)
(* Messages.                                                               *)
(***************************************************************************)

\* The message that answers a request when nothing goes wrong.
Expected(kind) ==
    CASE kind = "setBreakpoints" -> "BreakpointsResolved"
      [] kind = "census"         -> "Threads"
      [] kind = "stack"          -> "Stack"
      [] kind = "restart"        -> "Restarting"
      [] kind = "pause"          -> "Pausing"
      [] OTHER                   -> "Resumed"

Message(kind, for, names) == [kind |-> kind, for |-> for, names |-> names]

Send(m) == messages' = Append(messages, m)

Entry(t) == [stop |-> stopOf[t], thread |-> t]

-----------------------------------------------------------------------------
(***************************************************************************)
(* The agent: a program thread.                                            *)
(***************************************************************************)

\* stops::enter registers the thread, and then tells the engine.
Enter(t) ==
    /\ ~closed /\ at[t] = "running" /\ minted < MaxStops
    /\ minted' = minted + 1
    /\ registry' = registry \cup {[stop |-> minted', thread |-> t]}
    /\ stopOf' = [stopOf EXCEPT ![t] = minted']
    /\ at' = [at EXCEPT ![t] = "entering"]
    /\ UNCHANGED <<mailbox, work, reader, unheld, answering, pausers, announced,
                   requests, messages, closed, client>>

SayStopped(t) ==
    /\ ~closed /\ at[t] = "entering"
    /\ Send(Message("Stopped", Nobody, {Entry(t)}))
    /\ at' = [at EXCEPT ![t] = "held"]
    /\ UNCHANGED <<stops, stopOf, work, reader, unheld, answering, pausers, announced,
                   requests, closed, client>>

\* The loop of session::stop: a resume or a step ends it, anything else is
\* answered inside it.
TakeCommand(t) ==
    LET command == Head(mailbox[stopOf[t]]) IN
    /\ ~closed /\ at[t] = "held" /\ mailbox[stopOf[t]] # <<>>
    /\ mailbox' = [mailbox EXCEPT ![stopOf[t]] = Tail(@)]
    /\ IF command.kind \in LetGoAsks
         THEN at' = [at EXCEPT ![t] = "running"] /\ UNCHANGED work
         ELSE at' = [at EXCEPT ![t] = "answering"] /\ work' = [work EXCEPT ![t] = command]
    /\ UNCHANGED <<minted, registry, stopOf, reader, unheld, answering, pausers, announced,
                   requests, messages, closed, client>>

\* An answer, or the error that answering ended in.  A restart that is refused
\* or has already happened in place is answered here too.
AnswerHeld(t) ==
    /\ ~closed /\ at[t] = "answering"
    /\ \E kind \in {Expected(work[t].kind), "Refused"} :
          Send(Message(kind, work[t].serial, {}))
    /\ at' = [at EXCEPT ![t] = "held"]
    /\ work' = [work EXCEPT ![t] = NoRequest]
    /\ UNCHANGED <<stops, stopOf, reader, unheld, answering, pausers, announced, requests,
                   closed, client>>

\* A restart that is arranged takes the stop out of the registry and then
\* answers; the thread goes on by itself.
ArrangeRestart(t) ==
    /\ ~closed /\ at[t] = "answering" /\ work[t].kind = "restart"
    /\ registry' = registry \ {Entry(t)}
    /\ at' = [at EXCEPT ![t] = "restarting"]
    /\ UNCHANGED <<minted, mailbox, stopOf, work, reader, unheld, answering, pausers,
                   announced, requests, messages, closed, client>>

SayRestarting(t) ==
    /\ ~closed /\ at[t] = "restarting"
    /\ Send(Message("Restarting", work[t].serial, {Entry(t)}))
    /\ at' = [at EXCEPT ![t] = "running"]
    /\ work' = [work EXCEPT ![t] = NoRequest]
    /\ UNCHANGED <<stops, stopOf, reader, unheld, answering, pausers, announced, requests,
                   closed, client>>

\* A file is loaded, and a breakpoint resolves to something else.
AnnounceRebinding(t) ==
    /\ ~closed /\ at[t] = "running" /\ announced < MaxRebinds
    /\ Send(Message("BreakpointsResolved", Nobody, {}))
    /\ announced' = announced + 1
    /\ UNCHANGED <<stops, thread, reader, unheld, answering, pausers, requests, closed, client>>

\* The program is over on the main thread: session::finishing.
Finish ==
    /\ ~closed /\ Finishes /\ at[Main] = "running"
    /\ at' = [at EXCEPT ![Main] = "finished"]
    /\ IF registry = {}
         THEN UNCHANGED messages
         ELSE Send(Message("Finishing", Nobody, registry))
    /\ UNCHANGED <<stops, stopOf, work, reader, unheld, answering, pausers, announced,
                   requests, closed, client>>

\* The process goes: the interpreter has joined every thread, or it is killed.
Exit ==
    /\ ~closed
    /\ \/ at[Main] = "finished" /\ \A t \in Threads \ {Main} : at[t] = "running"
       \/ Kills
    /\ closed' = TRUE
    /\ UNCHANGED <<agent, requests, messages, client>>

-----------------------------------------------------------------------------
(***************************************************************************)
(* The agent: the connection's reader, stops::route.                       *)
(***************************************************************************)

ReadingOn == reader' = [doing |-> "reading", request |-> NoRequest, to |-> {}]

Post(request, to) == reader' = [doing |-> "posting", request |-> request, to |-> to]

\* A mutant: a request that finds nothing held is dropped.
RouteToAnyHeld(request) ==
    /\ IF registry = {}
         THEN UNCHANGED reader
         ELSE Post(request, {CHOOSE e \in registry : \A f \in registry : e.stop <= f.stop})
    /\ UNCHANGED <<registry, unheld, messages, pausers>>

\* Address::Any: the lowest numbered held stop, and the unheld answerer when
\* there is none.
RouteToAny(request) ==
    IF registry = {}
      THEN /\ unheld' = Append(unheld, request)
           /\ UNCHANGED <<registry, reader, messages, pausers>>
      ELSE /\ Post(request, {CHOOSE e \in registry : \A f \in registry : e.stop <= f.stop})
           /\ UNCHANGED <<registry, unheld, messages, pausers>>

\* Address::Stop and Address::Frame.
RouteToStop(request) ==
    /\ IF request.names \subseteq registry
         THEN Post(request, request.names) /\ UNCHANGED messages
         ELSE Send(Message("NoSuchStop", request.serial, {})) /\ UNCHANGED reader
    /\ UNCHANGED <<registry, unheld, pausers>>

\* A mutant: the entries stay in the table until the threads notice.
RouteLetGoKeeping(request) ==
    LET taken == {e \in registry : \E n \in request.names : n.thread = e.thread} IN
    /\ reader' = [doing |-> "telling", request |-> request, to |-> taken]
    /\ UNCHANGED <<registry, messages, unheld, pausers>>

\* A mutant: a resume that names threads lets everything go.
RouteLetGoOfAll(request) ==
    /\ registry' = {}
    /\ reader' = [doing |-> "telling", request |-> request, to |-> registry]
    /\ UNCHANGED <<messages, unheld, pausers>>

\* A resume and a step take entries out of the table, say so, and only then
\* wake the threads.  A resume that names threads is all or nothing.
RouteLetGo(request) ==
    LET taken == CASE request.kind = "resumeAll" -> registry
                   [] request.kind = "step"      -> request.names \cap registry
                   [] OTHER -> {e \in registry : \E n \in request.names : n.thread = e.thread}
    IN /\ IF \A n \in request.names : \E e \in taken : n.thread = e.thread
            THEN /\ registry' = registry \ taken
                 /\ reader' = [doing |-> "telling", request |-> request, to |-> taken]
                 /\ UNCHANGED messages
            ELSE /\ Send(Message("NoSuchStop", request.serial, {}))
                 /\ UNCHANGED <<registry, reader>>
       /\ UNCHANGED <<unheld, pausers>>

\* A pause is armed on a thread of its own.
RoutePause(request) ==
    /\ pausers' = pausers \cup {request}
    /\ UNCHANGED <<registry, unheld, reader, messages>>

Route ==
    LET request == Head(requests) IN
    /\ ~closed /\ reader.doing = "reading" /\ requests # <<>>
    /\ requests' = Tail(requests)
    /\ \/ request.kind \in ProcessAsks /\ RouteToAny(request)
       \/ request.kind \in StopAsks /\ RouteToStop(request)
       \/ request.kind \in LetGoAsks /\ RouteLetGo(request)
       \/ request.kind = "pause" /\ RoutePause(request)
    /\ UNCHANGED <<minted, mailbox, thread, answering, announced, closed, client>>

SayResumed ==
    /\ ~closed /\ reader.doing = "telling"
    /\ Send(Message("Resumed", reader.request.serial, reader.to))
    /\ IF reader.to = {} THEN ReadingOn ELSE Post(reader.request, reader.to)
    /\ UNCHANGED <<stops, thread, unheld, answering, pausers, announced, requests, closed, client>>

PostCommand ==
    /\ ~closed /\ reader.doing = "posting"
    /\ \E e \in reader.to :
          /\ mailbox' = [mailbox EXCEPT ![e.stop] = Append(@, reader.request)]
          /\ IF reader.to = {e} THEN ReadingOn ELSE Post(reader.request, reader.to \ {e})
    /\ UNCHANGED <<minted, registry, thread, unheld, answering, pausers, announced, requests,
                   messages, closed, client>>

-----------------------------------------------------------------------------
(***************************************************************************)
(* The agent: its own threads, the unheld answerer and a pause's.          *)
(***************************************************************************)

TakeUnheld ==
    /\ ~closed /\ answering = NoRequest /\ unheld # <<>>
    /\ answering' = Head(unheld)
    /\ unheld' = Tail(unheld)
    /\ UNCHANGED <<stops, thread, reader, pausers, announced, requests, messages, closed, client>>

AnswerUnheld ==
    /\ ~closed /\ answering # NoRequest
    /\ \E kind \in {Expected(answering.kind), "Refused"} :
          Send(Message(kind, answering.serial, {}))
    /\ answering' = NoRequest
    /\ UNCHANGED <<stops, thread, reader, unheld, pausers, announced, requests, closed, client>>

SayPausing ==
    /\ ~closed
    /\ \E request \in pausers :
          /\ Send(Message("Pausing", request.serial, {}))
          /\ pausers' = pausers \ {request}
    /\ UNCHANGED <<stops, thread, reader, unheld, answering, announced, requests, closed, client>>

-----------------------------------------------------------------------------
(***************************************************************************)
(* The engine.                                                             *)
(***************************************************************************)

\* What a request of each kind may name: a stop, threads, or nothing.
Named(kind) ==
    CASE kind \in StopAsks \cup {"step"} -> {{e} : e \in held}
      [] kind = "resume"                 -> (SUBSET held) \ {{}}
      [] OTHER                           -> {{}}

\* Attached::ask refuses what needs a thread while it holds none, and
\* everything once the program has ended.  A pause goes by it.
MayAsk(kind) ==
    held = {} => kind = "pause" \/ (kind \in ProcessAsks /\ ~closed)

Ask ==
    /\ engine = "idle" /\ serial < MaxRequests
    /\ serial' = serial + 1
    /\ \E kind \in Asks : \E names \in Named(kind) :
          /\ MayAsk(kind)
          /\ asked' = [serial |-> serial', kind |-> kind, names |-> names]
          /\ requests' = Append(requests, asked')
    /\ engine' = "asking"
    /\ UNCHANGED <<agent, messages, closed, held, rebinds, carried, outcome, told, interrupts>>

\* Interrupt::deliver, from another thread of the front end.
Interrupt ==
    /\ interrupts < MaxInterrupts
    /\ interrupts' = interrupts + 1
    /\ requests' = Append(requests, [serial |-> Nobody, kind |-> "pause", names |-> {}])
    /\ UNCHANGED <<agent, messages, closed, engine, asked, held, rebinds, carried, serial,
                   outcome, told>>

Came(how, for) == /\ outcome' = [asked |-> asked.serial, for |-> for, how |-> how]
                  /\ engine' = "idle"
                  /\ asked' = NoRequest

\* Two mutants: a rebinding, and another thread's stop, taken for the answer.
KeptAsideButRebindings(m) ==
    m.kind = "Stopped" \/ (m.kind = "Pausing" /\ asked.kind # "pause")

KeptAsideButStops(m) ==
    \/ m.kind = "BreakpointsResolved" /\ asked.kind # "setBreakpoints"
    \/ m.kind = "Pausing" /\ asked.kind # "pause"

\* And a third: the acknowledgement of an interrupt's pause.
KeptAsideButPauses(m) ==
    \/ m.kind = "Stopped"
    \/ m.kind = "BreakpointsResolved" /\ asked.kind # "setBreakpoints"

\* What send_and_wait keeps for later rather than taking it for the answer.
KeptAside(m) ==
    \/ m.kind = "Stopped"
    \/ m.kind = "BreakpointsResolved" /\ asked.kind # "setBreakpoints"
    \/ m.kind = "Pausing" /\ asked.kind # "pause"

\* A mutant: a stop that comes ahead of an answer is dropped.
KeepAsideButStops ==
    LET m == Head(messages) IN
    /\ engine = "asking" /\ messages # <<>> /\ KeptAside(m)
    /\ messages' = Tail(messages)
    /\ rebinds' = IF m.kind = "BreakpointsResolved" THEN rebinds + 1 ELSE rebinds
    /\ UNCHANGED <<agent, requests, closed, engine, asked, held, carried, serial, outcome,
                   told, interrupts>>

KeepAside ==
    LET m == Head(messages) IN
    /\ engine = "asking" /\ messages # <<>> /\ KeptAside(m)
    /\ messages' = Tail(messages)
    /\ held' = IF m.kind = "Stopped" THEN held \cup m.names ELSE held
    /\ rebinds' = IF m.kind = "BreakpointsResolved" THEN rebinds + 1 ELSE rebinds
    /\ UNCHANGED <<agent, requests, closed, engine, asked, carried, serial, outcome, told,
                   interrupts>>

\* Anything else is the answer.  One of another kind than the caller expects is
\* an error; a resume, a step and an arranged restart drop what they let go.
LetsGo(m) == IF m.kind = "Resumed"
               THEN {e \in held : \E n \in m.names : n.thread = e.thread}
               ELSE {e \in held : \E n \in m.names : n.stop = e.stop}

TakeAnswer ==
    LET m   == Head(messages)
        how == CASE m.kind = Expected(asked.kind)         -> "answered"
                 [] m.kind \in {"Refused", "NoSuchStop"} -> "refused"
                 [] OTHER                                -> "unexpected"
    IN /\ engine = "asking" /\ messages # <<>> /\ ~KeptAside(m)
       /\ messages' = Tail(messages)
       /\ held' = IF how = "answered" THEN held \ LetsGo(m) ELSE held
       /\ Came(how, m.for)
       /\ UNCHANGED <<agent, requests, closed, rebinds, carried, serial, told, interrupts>>

\* The connection is closed and everything on it read.
AgentGone ==
    /\ engine = "asking" /\ messages = <<>> /\ closed
    /\ Came("gone", asked.serial)
    /\ UNCHANGED <<agent, requests, messages, closed, held, rebinds, carried, serial, told,
                   interrupts>>

\* A wait takes what was kept for it, and ends at the first thing worth saying.
Wait ==
    /\ engine = "idle"
    /\ engine' = "waiting"
    /\ carried' = rebinds
    /\ rebinds' = 0
    /\ UNCHANGED <<agent, requests, messages, closed, asked, held, serial, outcome, told,
                   interrupts>>

WaitGathers ==
    LET m == Head(messages) IN
    /\ engine = "waiting" /\ messages # <<>>
    /\ m.kind \in {"BreakpointsResolved", "Pausing"}
    /\ messages' = Tail(messages)
    /\ carried' = IF m.kind = "BreakpointsResolved" THEN carried + 1 ELSE carried
    /\ UNCHANGED <<agent, requests, closed, engine, asked, held, rebinds, serial, outcome, told,
                   interrupts>>

EndWait(tells) == /\ engine' = "idle"
                  /\ carried' = 0
                  /\ told' = IF tells THEN told + carried ELSE told

WaitEnds ==
    LET m == Head(messages) IN
    /\ engine = "waiting" /\ messages # <<>>
    /\ m.kind \notin {"BreakpointsResolved", "Pausing"}
    /\ messages' = Tail(messages)
    /\ held' = IF m.kind = "Stopped" THEN held \cup m.names ELSE held
    /\ EndWait(m.kind \in {"Stopped", "Finishing"})
    /\ UNCHANGED <<agent, requests, closed, asked, rebinds, serial, outcome, interrupts>>

\* A mutant: the rebindings gathered are lost with the deadline.
WaitTimesOutSilently ==
    /\ engine = "waiting" /\ messages = <<>>
    /\ EndWait(FALSE)
    /\ UNCHANGED <<agent, requests, messages, closed, asked, held, rebinds, serial, outcome,
                   interrupts>>

\* The deadline passes with nothing readable, or the connection is at its end.
WaitTimesOut ==
    /\ engine = "waiting" /\ messages = <<>>
    /\ EndWait(TRUE)
    /\ UNCHANGED <<agent, requests, messages, closed, asked, held, rebinds, serial, outcome,
                   interrupts>>

-----------------------------------------------------------------------------

Init ==
    /\ minted = 0 /\ registry = {} /\ mailbox = [s \in Stops |-> <<>>]
    /\ at = [t \in Threads |-> "running"]
    /\ stopOf = [t \in Threads |-> 0]
    /\ work = [t \in Threads |-> NoRequest]
    /\ reader = [doing |-> "reading", request |-> NoRequest, to |-> {}]
    /\ unheld = <<>> /\ answering = NoRequest /\ pausers = {}
    /\ requests = <<>> /\ messages = <<>> /\ closed = FALSE
    /\ engine = "idle" /\ asked = NoRequest /\ held = {} /\ rebinds = 0 /\ carried = 0
    /\ serial = 0 /\ outcome = [asked |-> 0, for |-> 0, how |-> "answered"]
    /\ announced = 0 /\ told = 0 /\ interrupts = 0

HoldsAndAnswers(t) == SayStopped(t) \/ TakeCommand(t) \/ AnswerHeld(t) \/ SayRestarting(t)
Reads    == Route \/ SayResumed \/ PostCommand
Unheld   == TakeUnheld \/ AnswerUnheld
Listens  == KeepAside \/ TakeAnswer \/ AgentGone

Next ==
    \/ \E t \in Threads : \/ Enter(t) \/ HoldsAndAnswers(t) \/ ArrangeRestart(t)
                          \/ AnnounceRebinding(t)
    \/ Reads \/ Unheld \/ SayPausing \/ Finish \/ Exit
    \/ Ask \/ Interrupt \/ Listens \/ Wait \/ WaitGathers \/ WaitEnds \/ WaitTimesOut

Spec == Init /\ [][Next]_vars

\* Every thread of the agent and the engine's read loop are scheduled.  Nothing
\* makes the program stop, finish or load a file, or the client ask.
Fairness ==
    /\ \A t \in Threads : WF_vars(HoldsAndAnswers(t))
    /\ WF_vars(Reads) /\ WF_vars(Unheld) /\ WF_vars(SayPausing) /\ WF_vars(Listens)

FairSpec == Spec /\ Fairness

-----------------------------------------------------------------------------
(***************************************************************************)
(* Properties.                                                             *)
(***************************************************************************)

MessageKinds == {"Stopped", "Resumed", "Stack", "Threads", "BreakpointsResolved",
                 "Restarting", "Pausing", "Refused", "NoSuchStop", "Finishing"}

IsMessage(m) ==
    m.kind \in MessageKinds /\ m.for \in 0..MaxRequests /\ m.names \subseteq Entries

\* The types; every mailbox and every place of a thread is one the code has.
TypeOK ==
    /\ minted \in 0..MaxStops /\ registry \subseteq Entries /\ held \subseteq Entries
    /\ mailbox \in [Stops -> Seq(Requests)]
    /\ at \in [Threads -> {"running", "entering", "held", "answering", "restarting", "finished"}]
    /\ stopOf \in [Threads -> 0..MaxStops]
    /\ work \in [Threads -> Requests \cup {NoRequest}]
    /\ reader.doing \in {"reading", "telling", "posting"}
    /\ reader.request \in Requests \cup {NoRequest} /\ reader.to \subseteq Entries
    /\ unheld \in Seq(Requests) /\ answering \in Requests \cup {NoRequest}
    /\ pausers \subseteq Requests /\ requests \in Seq(Requests)
    /\ \A i \in DOMAIN messages : IsMessage(messages[i])
    /\ closed \in BOOLEAN /\ engine \in {"idle", "asking", "waiting"}
    /\ asked \in Requests \cup {NoRequest}
    /\ {rebinds, carried, announced, told} \subseteq 0..MaxRebinds
    /\ serial \in 0..MaxRequests /\ interrupts \in 0..MaxInterrupts

\* What the engine hands its caller for a request is what the agent said to
\* that request: unsolicited messages are set aside, and answers never go out
\* of step with requests.
OwnAnswer == outcome.for = outcome.asked

\* A request that names a stop the engine holds reaches a thread: a stop is
\* registered before the engine can have heard of it, and no stop ends behind
\* the engine's back.
HeldIsRoutable == \A i \in DOMAIN messages : messages[i].kind # "NoSuchStop"

\* Nothing is going on at either end and nothing is on the way.
Settled ==
    /\ engine = "idle" /\ requests = <<>> /\ messages = <<>>
    /\ reader.doing = "reading" /\ unheld = <<>> /\ answering = NoRequest
    /\ \A t \in Threads : at[t] \in {"running", "held", "finished"}
    /\ \A s \in Stops : mailbox[s] = <<>>
    /\ ~closed

\* The engine's idea of what is held is the agent's.
ViewsAgree == Settled => held = registry

\* A command in a mailbox has a thread that will take it.
NothingStranded ==
    \A s \in Stops : mailbox[s] # <<>> =>
        \E t \in Threads : stopOf[t] = s /\ at[t] \in {"entering", "held", "answering"}

\* The rebindings on the connection.
Unread == {i \in DOMAIN messages : /\ messages[i].kind = "BreakpointsResolved"
                                   /\ messages[i].for = Nobody}

\* A rebinding the agent announced is on the connection, kept for a wait, in
\* the wait under way, or told: none is lost and none is told twice.
RebindsAreKept == announced = told + carried + rebinds + Cardinality(Unread)

\* What passes between the reader, the held threads and the engine's waits is
\* not lost: neither a command that was routed nor a rebinding announced.
NothingIsLost == NothingStranded /\ RebindsAreKept

\* A request is answered, refused, or ends with the connection.
AskIsAnswered == (engine = "asking") ~> (engine # "asking")

\* The engine's list and the agent's registry are Holding's known and stopped.
Promise == INSTANCE Holding WITH stopped <- registry, known <- held, last <- minted

\* The two ends together keep the promise of Holding: no stop is let go that the
\* client did not know of, none is learned of late, all or none are let go.
KeepsPromise == Promise!Spec

=============================================================================
