---------------------------- MODULE Control_proofs ----------------------------
(***************************************************************************)
(* What Control promises a client that asks by name: for any number of     *)
(* threads, stops, requests and announced rebindings, and whether or not   *)
(* the process is killed.  The program does not finish, nobody sends a     *)
(* pause past the engine, resumeAll is not asked, and setBreakpoints is    *)
(* not asked of a program that announces rebindings: what a message with   *)
(* no request in it costs there is in the README, and TLC has the          *)
(* counterexamples.                                                        *)
(*                                                                         *)
(* At most one request is on its way, and the invariant says where it is.  *)
(***************************************************************************)
EXTENDS Control, SequenceTheorems, FiniteSetTheorems, FunctionTheorems, WellFoundedInduction, TLAPS

AsksByName ==
    /\ "resumeAll" \notin Asks
    /\ "setBreakpoints" \in Asks => MaxRebinds = 0
    /\ ~Finishes /\ MaxInterrupts = 0

Messages == [kind : MessageKinds, for : 0..MaxRequests, names : SUBSET Entries]

TypedReader ==
    /\ reader \in [doing : {"reading", "telling", "posting"},
                   request : Requests \cup {NoRequest}, to : SUBSET Entries]
    /\ reader.doing # "reading" => reader.request \in Requests

\* The types.
Shape ==
    /\ minted \in 0..MaxStops /\ registry \subseteq Entries /\ held \subseteq Entries
    /\ mailbox \in [Stops -> Seq(Requests)]
    /\ at \in [Threads -> {"running", "entering", "held", "answering", "restarting"}]
    /\ stopOf \in [Threads -> 0..MaxStops]
    /\ work \in [Threads -> Requests \cup {NoRequest}]
    /\ TypedReader
    /\ unheld \in Seq(Requests) /\ answering \in Requests \cup {NoRequest}
    /\ pausers \subseteq Requests /\ requests \in Seq(Requests)
    /\ messages \in Seq(Messages)
    /\ closed \in BOOLEAN /\ engine \in {"idle", "asking", "waiting"}
    /\ asked \in Requests \cup {NoRequest}
    /\ serial \in 0..MaxRequests /\ interrupts = 0
    /\ rebinds \in Nat /\ carried \in Nat /\ announced \in Nat /\ told \in Nat

-----------------------------------------------------------------------------
(***************************************************************************)
(* The process is gone and everything it said is read, or the following.   *)
(***************************************************************************)
Dead == closed /\ messages = <<>>

Queued == 1..Len(messages)
Answers(i) == messages[i].for # Nobody
InStop(t) == at[t] \in {"entering", "held", "answering", "restarting"}
Live(command) == command.kind \notin LetGoAsks

\* Where the request can be that has not been answered.
Places == {"nowhere", "requests", "reader", "mailbox", "work", "unheld", "answering",
           "pausers", "messages"}

\* It is nowhere but at w: in the agent, and on its way back.  A command that
\* lets go was answered before it was posted, so it does not count.
OnlyIn(w) ==
    /\ w # "nowhere" => engine = "asking"
    /\ requests # <<>> => w = "requests" /\ requests = <<asked>>
    /\ reader.doing = "telling" => w = "reader" /\ reader.request = asked
    /\ reader.doing = "posting" /\ Live(reader.request) => w = "reader" /\ reader.request = asked
    /\ \A s \in Stops : mailbox[s] # <<>> /\ Live(mailbox[s][1]) =>
          w = "mailbox" /\ mailbox[s] = <<asked>>
    /\ \A t \in Threads : at[t] \in {"answering", "restarting"} => w = "work" /\ work[t] = asked
    /\ unheld # <<>> => w = "unheld" /\ unheld = <<asked>>
    /\ answering # NoRequest => w = "answering" /\ answering = asked
    /\ pausers # {} => w = "pausers" /\ pausers = {asked} /\ asked.kind = "pause"

OnlyBack(w) ==
    \A i \in Queued : Answers(i) =>
       /\ w = "messages" /\ messages[i].for = asked.serial
       /\ messages[i].kind \in {Expected(asked.kind), "Refused", "NoSuchStop"}

OnlyAt(w) == OnlyIn(w) /\ OnlyBack(w)

\* And it is there once.
Once ==
    /\ \A s, u \in Stops : mailbox[s] # <<>> /\ Live(mailbox[s][1]) /\ mailbox[u] # <<>>
                              /\ Live(mailbox[u][1]) => s = u
    /\ \A t, u \in Threads : at[t] \in {"answering", "restarting"}
                                /\ at[u] \in {"answering", "restarting"} => t = u
    /\ \A i, j \in Queued : Answers(i) /\ Answers(j) => i = j

\* What is asked is numbered, and names what the engine holds.
AskedIsHeld ==
    engine = "asking" =>
        /\ asked \in Requests /\ asked.serial # Nobody /\ asked.kind \in Asks
        /\ asked.names \subseteq held
        /\ asked.kind \in StopAsks \cup {"step"} => \E e \in held : asked.names = {e}
        /\ asked.kind = "resume" => asked.names # {}

\* A stop has a number of its own, and its thread is in it.
Registered ==
    /\ \A e \in registry : at[e.thread] \in {"entering", "held", "answering"}
                             /\ stopOf[e.thread] = e.stop
    /\ \A t \in Threads : at[t] \in {"entering", "answering"} => Entry(t) \in registry
    /\ \A t \in Threads : at[t] = "entering" => Entry(t) \notin held
    /\ \A t, u \in Threads : InStop(t) /\ InStop(u) /\ stopOf[t] = stopOf[u] => t = u
    /\ \A t \in Threads : InStop(t) => stopOf[t] \in Stops
    /\ \A t \in Threads : stopOf[t] <= minted
    /\ \A e \in held \cup registry : e.stop <= minted
    /\ \A e, f \in held \cup registry : e.stop = f.stop => e = f

\* Who is woken by the reader waits to be, and has not heard of it.
Woken ==
    /\ reader.doing = "telling" => reader.to # {}
    /\ reader.doing = "telling" \/ (reader.doing = "posting" /\ ~Live(reader.request)) =>
          /\ ~Live(reader.request)
          /\ \A e \in reader.to : /\ at[e.thread] = "held" /\ stopOf[e.thread] = e.stop
                                  /\ mailbox[e.stop] = <<>> /\ e \notin registry

\* A command that is posted has a thread to take it, the only command it has.
Posted ==
    /\ \A s \in Stops : mailbox[s] # <<>> =>
          /\ Len(mailbox[s]) = 1
          /\ IF Live(mailbox[s][1])
             THEN \E e \in registry : /\ e.stop = s
                                      /\ asked.kind \in StopAsks => asked.names = {e}
             ELSE /\ \E t \in Threads : at[t] = "held" /\ stopOf[t] = s
                  /\ \A e \in registry : e.stop # s
    /\ reader.doing = "posting" /\ Live(reader.request) =>
          \E e \in registry : /\ reader.to = {e}
                              /\ asked.kind \in StopAsks => asked.names = {e}
    /\ \A t \in Threads : at[t] = "answering" /\ asked.kind \in StopAsks => asked.names = {Entry(t)}
    /\ \A t \in Threads : at[t] \in {"answering", "restarting"} => mailbox[stopOf[t]] = <<>>

\* What was let go and the engine has yet to hear of.
Leaving == held \ registry

\* It is what the reader is about to tell of, a restart, or in the answer.
LeavingIsHeldUp ==
    Leaving # {} => \/ reader.doing = "telling"
                    \/ \E t \in Threads : at[t] = "restarting"
                    \/ \E i \in Queued : Answers(i)

Leaves ==
    /\ reader.doing = "telling" => Leaving = reader.to
    /\ \A t \in Threads : at[t] = "restarting" =>
          asked.kind = "restart" /\ Leaving = {Entry(t)}
    /\ \A i \in Queued : Answers(i) => Leaving = messages[i].names
    /\ \A i \in Queued : Answers(i) /\ messages[i].names # {} =>
          messages[i].kind = Expected(asked.kind)
    /\ LeavingIsHeldUp
    /\ \A n \in Leaving, e \in held \cap registry : n.thread # e.thread

\* A stop that is told of is in force and not known, and told of once.  One
\* that was let go is behind its thread by then: its answer goes first.
Told(i, e) == messages[i].kind = "Stopped" /\ messages[i].names = {e}

Plain == \A i \in Queued : ~Answers(i) =>
            \/ messages[i].kind = "Stopped"
            \/ messages[i].kind = "BreakpointsResolved" /\ "setBreakpoints" \notin Asks

News == \A i \in Queued : messages[i].kind = "Stopped" =>
           ~Answers(i) /\ \E e \in registry \ held : Told(i, e) /\ at[e.thread] # "entering"

ToldOnce == \A i, j \in Queued, e \in Entries : Told(i, e) /\ Told(j, e) => i = j

HeardOf == \A e \in registry : e \in held \/ at[e.thread] = "entering" \/ \E i \in Queued : Told(i, e)

AnswersFirst == \A i, j \in Queued, e \in Entries, n \in Leaving :
                   Answers(i) /\ j < i /\ Told(j, e) => e.thread # n.thread

Telling == Plain /\ News /\ ToldOnce /\ HeardOf /\ AnswersFirst

OnTheWay == \E w \in Places : OnlyAt(w)

Going == /\ OnTheWay /\ Once /\ AskedIsHeld /\ Registered /\ Woken /\ Posted /\ Leaves /\ Telling

-----------------------------------------------------------------------------
(***************************************************************************)
(* What a step does, given where the request is: the actions of Control    *)
(* with what the invariant adds to their guards.                           *)
(***************************************************************************)
place == <<minted, registry, mailbox, stopOf>>
away  == <<closed, engine, asked, held>>
own   == <<unheld, answering, pausers>>

\* An answer to what is asked is put on the connection.
Answered(kind, names) ==
    messages' = Append(messages, [kind |-> kind, for |-> asked.serial, names |-> names])
Reply == {Expected(asked.kind), "Refused", "NoSuchStop"}

Enters(t) ==
    /\ ~closed /\ at[t] = "running" /\ minted < MaxStops /\ minted' = minted + 1
    /\ registry' = registry \cup {[stop |-> minted + 1, thread |-> t]}
    /\ stopOf' = [stopOf EXCEPT ![t] = minted + 1]
    /\ at' = [at EXCEPT ![t] = "entering"]
    /\ UNCHANGED <<mailbox, work, reader, own, requests, messages, away>>

SaysStopped(t) ==
    /\ ~closed /\ at[t] = "entering"
    /\ messages' = Append(messages, [kind |-> "Stopped", for |-> Nobody, names |-> {Entry(t)}])
    /\ at' = [at EXCEPT ![t] = "held"]
    /\ UNCHANGED <<place, work, reader, own, requests, away>>

TakesLetGo(t) ==
    /\ ~closed /\ at[t] = "held" /\ Len(mailbox[stopOf[t]]) = 1 /\ ~Live(mailbox[stopOf[t]][1])
    /\ mailbox' = [mailbox EXCEPT ![stopOf[t]] = <<>>]
    /\ at' = [at EXCEPT ![t] = "running"]
    /\ UNCHANGED <<minted, registry, stopOf, work, reader, own, requests, messages, away>>

TakesLive(t) ==
    /\ ~closed /\ at[t] = "held" /\ mailbox[stopOf[t]] = <<asked>> /\ Live(asked)
    /\ mailbox' = [mailbox EXCEPT ![stopOf[t]] = <<>>]
    /\ at' = [at EXCEPT ![t] = "answering"] /\ work' = [work EXCEPT ![t] = asked]
    /\ UNCHANGED <<minted, registry, stopOf, reader, own, requests, messages, away>>

AnswersHeld(t) ==
    /\ ~closed /\ at[t] = "answering"
    /\ \E kind \in Reply : Answered(kind, {})
    /\ at' = [at EXCEPT ![t] = "held"] /\ work' = [work EXCEPT ![t] = NoRequest]
    /\ UNCHANGED <<place, reader, own, requests, away>>

Arranges(t) ==
    /\ ~closed /\ at[t] = "answering" /\ asked.kind = "restart"
    /\ registry' = registry \ {Entry(t)}
    /\ at' = [at EXCEPT ![t] = "restarting"]
    /\ UNCHANGED <<minted, mailbox, stopOf, work, reader, own, requests, messages, away>>

SaysRestarting(t) ==
    /\ ~closed /\ at[t] = "restarting" /\ asked.kind = "restart"
    /\ Answered("Restarting", {Entry(t)})
    /\ at' = [at EXCEPT ![t] = "running"] /\ work' = [work EXCEPT ![t] = NoRequest]
    /\ UNCHANGED <<place, reader, own, requests, away>>

Announces ==
    /\ ~closed /\ "setBreakpoints" \notin Asks
    /\ messages' = Append(messages, [kind |-> "BreakpointsResolved", for |-> Nobody, names |-> {}])
    /\ UNCHANGED <<place, at, work, reader, own, requests, away>>

Exits ==
    /\ ~closed /\ closed'
    /\ UNCHANGED <<place, at, work, reader, own, requests, messages, engine, asked, held>>

Routes == /\ ~closed /\ reader.doing = "reading" /\ requests = <<asked>> /\ requests' = <<>>
          /\ UNCHANGED <<minted, mailbox, stopOf, at, work, answering, messages, away>>

RoutesUnheld ==
    /\ Routes /\ unheld = <<>> /\ unheld' = <<asked>> /\ UNCHANGED <<registry, reader, pausers>>

RoutesTo(e) ==
    /\ Routes /\ Live(asked) /\ e \in registry /\ (asked.kind \in StopAsks => asked.names = {e})
    /\ reader' = [doing |-> "posting", request |-> asked, to |-> {e}]
    /\ UNCHANGED <<registry, unheld, pausers>>

LetsGoOf ==
    /\ Routes /\ asked.kind \in {"resume", "step"} /\ asked.names # {}
    /\ asked.names \subseteq registry \cap held
    /\ registry' = registry \ asked.names
    /\ reader' = [doing |-> "telling", request |-> asked, to |-> asked.names]
    /\ UNCHANGED <<unheld, pausers>>

RoutesPause ==
    /\ Routes /\ asked.kind = "pause" /\ pausers' = {asked} /\ UNCHANGED <<registry, unheld, reader>>

SaysResumed ==
    /\ ~closed /\ reader.doing = "telling" /\ asked.kind \in {"resume", "step"}
    /\ Answered("Resumed", reader.to)
    /\ reader' = [doing |-> "posting", request |-> asked, to |-> reader.to]
    /\ UNCHANGED <<place, at, work, own, requests, away>>

Posts(e) ==
    /\ ~closed /\ reader.doing = "posting" /\ e \in reader.to /\ mailbox[e.stop] = <<>>
    /\ mailbox' = [mailbox EXCEPT ![e.stop] = <<reader.request>>]
    /\ reader'.doing \in {"reading", "posting"} /\ reader'.to = reader.to \ {e}
    /\ reader'.doing = "posting" =>
          reader'.request = reader.request /\ ~Live(reader.request)
    /\ UNCHANGED <<minted, registry, stopOf, at, work, own, requests, messages, away>>

TakesUnheld ==
    /\ ~closed /\ unheld = <<asked>> /\ unheld' = <<>> /\ answering' = asked
    /\ UNCHANGED <<place, at, work, reader, pausers, requests, messages, away>>

AnswersUnheld ==
    /\ ~closed /\ answering # NoRequest /\ answering' = NoRequest
    /\ \E kind \in Reply : Answered(kind, {})
    /\ UNCHANGED <<place, at, work, reader, unheld, pausers, requests, away>>

SaysPausing ==
    /\ ~closed /\ pausers = {asked} /\ pausers' = {} /\ \E kind \in Reply : Answered(kind, {})
    /\ UNCHANGED <<place, at, work, reader, unheld, answering, requests, away>>

Makes ==
    /\ engine = "idle" /\ engine' = "asking" /\ requests' = <<asked'>>
    /\ asked' \in Requests /\ asked'.serial # Nobody /\ asked'.kind \in Asks
    /\ asked'.names \subseteq held
    /\ asked'.kind \in StopAsks \cup {"step"} => \E e \in held : asked'.names = {e}
    /\ asked'.kind = "resume" => asked'.names # {}
    /\ UNCHANGED <<place, at, work, reader, own, messages, closed, held>>

\* The engine reads what came first.
Hears == /\ messages # <<>> /\ messages' = Tail(messages)
         /\ UNCHANGED <<place, at, work, reader, own, requests, closed>>

Learns(e) ==
    /\ Hears /\ Told(1, e) /\ e \in registry \ held /\ held' = held \cup {e} /\ UNCHANGED asked
    /\ engine' = engine \/ (engine = "waiting" /\ engine' = "idle")

Passes == Hears /\ ~Answers(1) /\ messages[1].kind # "Stopped" /\ UNCHANGED <<engine, asked, held>>

Hands ==
    /\ Hears /\ engine = "asking" /\ Answers(1) /\ held' = held \ Leaving
    /\ engine' = "idle" /\ asked' = NoRequest

Waits ==
    /\ engine # "asking" /\ engine' \in {"idle", "waiting"}
    /\ UNCHANGED <<place, at, work, reader, own, requests, messages, closed, asked, held>>

Rests == UNCHANGED <<place, at, work, reader, own, requests, messages, away>>

Moves ==
    \/ \E t \in Threads : \/ Enters(t) \/ SaysStopped(t) \/ TakesLetGo(t) \/ TakesLive(t)
                          \/ AnswersHeld(t) \/ Arranges(t) \/ SaysRestarting(t)
    \/ Announces \/ Exits \/ RoutesUnheld \/ LetsGoOf \/ RoutesPause \/ SaysResumed
    \/ \E e \in Entries : RoutesTo(e) \/ Posts(e) \/ Learns(e)
    \/ TakesUnheld \/ AnswersUnheld \/ SaysPausing \/ Makes \/ Passes \/ Hands \/ Waits \/ Rests

-----------------------------------------------------------------------------
\* A set of numbers has a least one, so some held stop is the lowest numbered.
LEMMA HasLeast ==
    ASSUME NEW S \in SUBSET Nat, S # {} PROVE \E m \in S : \A n \in S : m <= n
<1> DEFINE less == {ss \in Nat \X Nat : ss[1] < ss[2]}
<1>1. IsWellFoundedOn(less, Nat)
  BY NatLessThanWellFounded DEF OpToRel
<1>2. PICK m \in S : \A n \in S : ~(<<n, m>> \in less)
  BY <1>1, WFMin
<1>3. ASSUME NEW n \in S PROVE m <= n
  <2>1. <<n, m>> \in Nat \X Nat /\ ~(n < m)
    BY <1>2
  <2>2. QED
    BY <2>1
<1>4. QED
  BY <1>2, <1>3

LEMMA LowestIsHeld ==
    ASSUME Shape, registry # {}
    PROVE  (CHOOSE e \in registry : \A f \in registry : e.stop <= f.stop) \in registry
<1> DEFINE numbers == {e.stop : e \in registry}
<1>1. numbers \in SUBSET Nat /\ numbers # {}
  BY DEF Shape, Entries, Stops
<1>2. PICK m \in numbers : \A n \in numbers : m <= n
  BY <1>1, HasLeast
<1>3. \E e \in registry : \A f \in registry : e.stop <= f.stop
  BY <1>2
<1>4. QED
  BY <1>3

\* The first of what is queued is of the kind that is, and so is the rest.
LEMMA First ==
    ASSUME NEW S, NEW q \in Seq(S), q # <<>>
    PROVE  /\ Head(q) \in S /\ Head(q) = q[1] /\ Tail(q) \in Seq(S)
           /\ Len(q) \in Nat \ {0} /\ Len(Tail(q)) = Len(q) - 1
           /\ \A i \in 1..Len(Tail(q)) : Tail(q)[i] = q[i + 1]
  BY HeadTailProperties

LEMMA Last ==
    ASSUME NEW S, NEW q \in Seq(S), NEW x \in S
    PROVE  /\ Append(q, x) \in Seq(S) /\ Len(Append(q, x)) = Len(q) + 1 /\ Len(q) \in Nat
           /\ \A i \in 1..Len(q) : Append(q, x)[i] = q[i]
           /\ Append(q, x)[Len(q) + 1] = x
  BY AppendProperties

-----------------------------------------------------------------------------
LEMMA RequestParts ==
    ASSUME NEW r \in Requests \cup {NoRequest}
    PROVE  r.serial \in 0..MaxRequests /\ r.names \subseteq Entries
  BY ControlAssumption DEF Requests, NoRequest, Nobody

LEMMA ExpectedIsKind == ASSUME NEW kind PROVE Expected(kind) \in MessageKinds \ {"Refused", "NoSuchStop"}
  BY DEF Expected, MessageKinds

LEMMA EntryIsEntry == ASSUME NEW t \in Threads, stopOf[t] \in Stops PROVE Entry(t) \in Entries
  BY DEF Entry, Entries

\* What is said is a message.
LEMMA SayIsTyped ==
    ASSUME Shape, NEW kind \in MessageKinds, NEW for \in 0..MaxRequests, NEW names \in SUBSET Entries,
           Send(Message(kind, for, names))
    PROVE  messages' \in Seq(Messages)
<1>1. Message(kind, for, names) \in Messages
  BY DEF Message, Messages
<1>2. QED
  BY <1>1, Last DEF Send, Shape

\* Nothing is let go but what is held.
LEMMA TakenAreHeld ==
    ASSUME Shape, NEW request \in Requests
    PROVE  /\ registry \subseteq Entries /\ request.names \cap registry \subseteq Entries
           /\ {e \in registry : \E n \in request.names : n.thread = e.thread} \subseteq Entries
  BY DEF Shape

-----------------------------------------------------------------------------
\* The types are kept.
LEMMA ShapeStep ==
    ASSUME AsksByName, Shape, Dead \/ Going, [Next]_vars PROVE Shape'
<1> USE ControlAssumption DEF Shape
<1>1. ASSUME NEW t \in Threads, Enter(t) PROVE Shape'
  <2>1. minted' \in 0..MaxStops
    BY <1>1 DEF Enter
  <2>2. registry' \subseteq Entries
    BY <1>1 DEF Enter, Entries, Stops
  <2>3. stopOf' \in [Threads -> 0..MaxStops]
    BY <1>1 DEF Enter
  <2>4. at' \in [Threads -> {"running", "entering", "held", "answering", "restarting"}]
    BY <1>1 DEF Enter
  <2>5. UNCHANGED <<held, mailbox, work, reader, unheld, answering, pausers, requests, messages,
                  closed, engine, asked, serial, interrupts, rebinds, carried, announced, told>>
    BY <1>1 DEF Enter, agent, stops, thread, client
  <2>6. QED
    BY <2>1, <2>2, <2>3, <2>4, <2>5 DEF TypedReader
<1>2. ASSUME NEW t \in Threads, SayStopped(t) PROVE Shape'
  <2>1. Entry(t) \in Entries
    BY <1>2, EntryIsEntry DEF SayStopped, Dead, Going, Registered, InStop
  <2>2. messages' \in Seq(Messages)
    BY <1>2, <2>1, SayIsTyped DEF SayStopped, Nobody, MessageKinds
  <2>3. at' \in [Threads -> {"running", "entering", "held", "answering", "restarting"}]
    BY <1>2, <2>1 DEF SayStopped
  <2>4. UNCHANGED <<minted, registry, held, mailbox, stopOf, work, reader, unheld, answering, pausers,
                  requests, closed, engine, asked, serial, interrupts, rebinds, carried, announced, told>>
    BY <1>2 DEF SayStopped, agent, stops, thread, client
  <2>5. QED
    BY <2>2, <2>3, <2>4 DEF TypedReader
<1>3. ASSUME NEW t \in Threads, TakeCommand(t) PROVE Shape'
  <2>1. stopOf[t] \in Stops /\ mailbox[stopOf[t]] \in Seq(Requests)
    BY <1>3 DEF TakeCommand, Dead, Going, Registered, InStop
  <2>2. /\ Head(mailbox[stopOf[t]]) \in Requests
        /\ Tail(mailbox[stopOf[t]]) \in Seq(Requests)
    BY <1>3, <2>1, First DEF TakeCommand
  <2>3. mailbox' \in [Stops -> Seq(Requests)]
    BY <1>3, <2>1, <2>2 DEF TakeCommand
  <2>4. at' \in [Threads -> {"running", "entering", "held", "answering", "restarting"}]
    BY <1>3, <2>1, <2>2 DEF TakeCommand
  <2>5. work' \in [Threads -> Requests \cup {NoRequest}]
    BY <1>3, <2>1, <2>2 DEF TakeCommand
  <2>6. UNCHANGED <<minted, registry, held, stopOf, reader, unheld, answering, pausers, requests,
                  messages, closed, engine, asked, serial, interrupts, rebinds, carried, announced, told>>
    BY <1>3 DEF TakeCommand, agent, stops, thread, client
  <2>7. QED
    BY <2>3, <2>4, <2>5, <2>6 DEF TypedReader
<1>4. ASSUME NEW t \in Threads, AnswerHeld(t) PROVE Shape'
  <2>1. \E kind \in MessageKinds : Send(Message(kind, work[t].serial, {}))
    <3>1. Expected(work[t].kind) \in MessageKinds /\ "Refused" \in MessageKinds
      BY ExpectedIsKind DEF MessageKinds
    <3>2. QED
      BY <1>4, <3>1 DEF AnswerHeld
  <2>2. work[t].serial \in 0..MaxRequests
    BY RequestParts
  <2>3. messages' \in Seq(Messages)
    BY <1>4, <2>1, <2>2, SayIsTyped
  <2>4. at' \in [Threads -> {"running", "entering", "held", "answering", "restarting"}]
    BY <1>4, <2>1, <2>2 DEF AnswerHeld
  <2>5. work' \in [Threads -> Requests \cup {NoRequest}]
    BY <1>4, <2>1, <2>2 DEF AnswerHeld
  <2>6. UNCHANGED <<minted, registry, held, mailbox, stopOf, reader, unheld, answering, pausers,
                  requests, closed, engine, asked, serial, interrupts, rebinds, carried, announced, told>>
    BY <1>4 DEF AnswerHeld, agent, stops, thread, client
  <2>7. QED
    BY <2>3, <2>4, <2>5, <2>6 DEF TypedReader
<1>5. ASSUME NEW t \in Threads, ArrangeRestart(t) PROVE Shape'
  BY <1>5 DEF ArrangeRestart, agent, stops, thread, client, TypedReader
<1>6. ASSUME NEW t \in Threads, SayRestarting(t) PROVE Shape'
  <2>1. Entry(t) \in Entries
    BY <1>6, EntryIsEntry DEF SayRestarting, Dead, Going, Registered, InStop
  <2>2. work[t].serial \in 0..MaxRequests
    BY RequestParts
  <2>3. messages' \in Seq(Messages)
    <3>1. "Restarting" \in MessageKinds /\ {Entry(t)} \in SUBSET Entries
      BY <2>1 DEF MessageKinds
    <3>2. Send(Message("Restarting", work[t].serial, {Entry(t)}))
      BY <1>6 DEF SayRestarting
    <3>3. QED
      BY <2>2, <3>1, <3>2, SayIsTyped
  <2>4. at' \in [Threads -> {"running", "entering", "held", "answering", "restarting"}]
    BY <1>6, <2>1, <2>2 DEF SayRestarting
  <2>5. work' \in [Threads -> Requests \cup {NoRequest}]
    BY <1>6, <2>1, <2>2 DEF SayRestarting
  <2>6. UNCHANGED <<minted, registry, held, mailbox, stopOf, reader, unheld, answering, pausers,
                  requests, closed, engine, asked, serial, interrupts, rebinds, carried, announced, told>>
    BY <1>6 DEF SayRestarting, agent, stops, thread, client
  <2>7. QED
    BY <2>3, <2>4, <2>5, <2>6 DEF TypedReader
<1>7. ASSUME NEW t \in Threads, AnnounceRebinding(t) PROVE Shape'
  <2>1. messages' \in Seq(Messages)
    BY <1>7, SayIsTyped DEF AnnounceRebinding, Nobody, MessageKinds
  <2>2. announced' \in Nat
    BY <1>7 DEF AnnounceRebinding
  <2>3. UNCHANGED <<minted, registry, held, mailbox, at, stopOf, work, reader, unheld, answering,
                  pausers, requests, closed, engine, asked, serial, interrupts, rebinds, carried, told>>
    BY <1>7 DEF AnnounceRebinding, agent, stops, thread, client
  <2>4. QED
    BY <2>1, <2>2, <2>3 DEF TypedReader
<1>8. CASE Finish
  BY <1>8 DEF Finish, AsksByName
<1>9. CASE Exit
  BY <1>9 DEF Exit, agent, stops, thread, client, TypedReader
<1>10. CASE Route
  <2>1. requests # <<>> /\ Head(requests) \in Requests /\ Tail(requests) \in Seq(Requests)
    BY <1>10, First DEF Route
  <2>2. Head(requests).serial \in 0..MaxRequests
    BY <2>1, RequestParts
  <2>3. requests' \in Seq(Requests)
    BY <1>10, <2>1, <2>2 DEF Route
  <2>4. registry' \subseteq Entries
    BY <1>10, <2>1, <2>2 DEF Route, RouteToAny, RouteToStop, RouteLetGo, RoutePause
  <2>5. unheld' \in Seq(Requests)
    <3>1. UNCHANGED unheld \/ unheld' = Append(unheld, Head(requests))
      BY <1>10 DEF Route, RouteToAny, RouteToStop, RouteLetGo, RoutePause
    <3>2. unheld \in Seq(Requests) /\ Append(unheld, Head(requests)) \in Seq(Requests)
      BY <2>1, Last
    <3>3. QED
      BY <3>1, <3>2
  <2>6. pausers' \subseteq Requests
    <3>1. UNCHANGED pausers \/ pausers' = pausers \cup {Head(requests)}
      BY <1>10 DEF Route, RouteToAny, RouteToStop, RouteLetGo, RoutePause
    <3>2. QED
      BY <2>1, <3>1
  <2>7. messages' \in Seq(Messages)
    <3>1. UNCHANGED messages \/ Send(Message("NoSuchStop", Head(requests).serial, {}))
      BY <1>10 DEF Route, RouteToAny, RouteToStop, RouteLetGo, RoutePause
    <3>2. QED
      BY <2>2, <3>1, SayIsTyped DEF MessageKinds
  <2>8. TypedReader'
    <3>1. UNCHANGED reader \/ \E to \in SUBSET Entries, doing \in {"telling", "posting"} :
            reader' = [doing |-> doing, request |-> Head(requests), to |-> to]
      <4>1. CASE Head(requests).kind \in ProcessAsks /\ RouteToAny(Head(requests))
        BY <4>1, LowestIsHeld DEF RouteToAny, Post
      <4>2. CASE Head(requests).kind \in StopAsks /\ RouteToStop(Head(requests))
        BY <2>1, <4>2, RequestParts DEF RouteToStop, Post
      <4>3. CASE Head(requests).kind \in LetGoAsks /\ RouteLetGo(Head(requests))
        BY <4>3, TakenAreHeld DEF RouteLetGo
      <4>4. CASE Head(requests).kind = "pause" /\ RoutePause(Head(requests))
        BY <4>4 DEF RoutePause
      <4>5. QED
        BY <1>10, <4>1, <4>2, <4>3, <4>4 DEF Route
    <3>2. QED
      BY <2>1, <3>1 DEF TypedReader
  <2>9. UNCHANGED <<minted, held, mailbox, at, stopOf, work, answering, closed,
                  engine, asked, serial, interrupts, rebinds, carried, announced, told>>
    BY <1>10 DEF Route, agent, stops, thread, client, RouteToAny, RouteToStop, RouteLetGo, RoutePause
  <2>10. QED
    BY <2>3, <2>4, <2>5, <2>6, <2>7, <2>8, <2>9 DEF TypedReader
<1>11. CASE SayResumed
  <2>1. reader.request.serial \in 0..MaxRequests /\ reader.to \subseteq Entries /\ reader.request \in Requests
    BY <1>11, RequestParts DEF SayResumed, TypedReader
  <2>2. messages' \in Seq(Messages)
    BY <1>11, <2>1, SayIsTyped DEF SayResumed, MessageKinds
  <2>3. TypedReader'
    BY <1>11, <2>1 DEF SayResumed, TypedReader, ReadingOn, Post
  <2>4. UNCHANGED <<minted, registry, held, mailbox, at, stopOf, work, unheld, answering, pausers,
                  requests, closed, engine, asked, serial, interrupts, rebinds, carried, announced, told>>
    BY <1>11 DEF SayResumed, agent, stops, thread, client
  <2>5. QED
    BY <2>2, <2>3, <2>4 DEF TypedReader
<1>12. CASE PostCommand
  <2>1. PICK e \in reader.to : /\ mailbox' = [mailbox EXCEPT ![e.stop] = Append(@, reader.request)]
                               /\ IF reader.to = {e} THEN ReadingOn ELSE Post(reader.request, reader.to \ {e})
    BY <1>12 DEF PostCommand
  <2>2. reader.request \in Requests /\ reader.to \subseteq Entries /\ e.stop \in Stops
    BY <1>12, <2>1 DEF PostCommand, TypedReader, Entries
  <2>3. mailbox' \in [Stops -> Seq(Requests)]
    BY <1>12, <2>1, <2>2, Last
  <2>4. TypedReader'
    BY <1>12, <2>1, <2>2 DEF TypedReader, ReadingOn, Post
  <2>5. UNCHANGED <<minted, registry, held, at, stopOf, work, unheld, answering, pausers, requests,
                  messages, closed, engine, asked, serial, interrupts, rebinds, carried, announced, told>>
    BY <1>12 DEF PostCommand, agent, stops, thread, client
  <2>6. QED
    BY <2>3, <2>4, <2>5 DEF TypedReader
<1>13. CASE TakeUnheld
  <2>1. unheld # <<>> /\ Head(unheld) \in Requests /\ Tail(unheld) \in Seq(Requests)
    BY <1>13, First DEF TakeUnheld
  <2>2. unheld' \in Seq(Requests)
    BY <1>13, <2>1 DEF TakeUnheld
  <2>3. answering' \in Requests \cup {NoRequest}
    BY <1>13, <2>1 DEF TakeUnheld
  <2>4. UNCHANGED <<minted, registry, held, mailbox, at, stopOf, work, reader, pausers, requests,
                  messages, closed, engine, asked, serial, interrupts, rebinds, carried, announced, told>>
    BY <1>13 DEF TakeUnheld, agent, stops, thread, client
  <2>5. QED
    BY <2>2, <2>3, <2>4 DEF TypedReader
<1>14. CASE AnswerUnheld
  <2>1. \E kind \in MessageKinds : Send(Message(kind, answering.serial, {}))
    BY <1>14, ExpectedIsKind DEF AnswerUnheld, MessageKinds
  <2>2. answering.serial \in 0..MaxRequests
    BY RequestParts
  <2>3. messages' \in Seq(Messages)
    BY <1>14, <2>1, <2>2, SayIsTyped
  <2>4. answering' \in Requests \cup {NoRequest}
    BY <1>14, <2>1, <2>2 DEF AnswerUnheld
  <2>5. UNCHANGED <<minted, registry, held, mailbox, at, stopOf, work, reader, unheld, pausers,
                  requests, closed, engine, asked, serial, interrupts, rebinds, carried, announced, told>>
    BY <1>14 DEF AnswerUnheld, agent, stops, thread, client
  <2>6. QED
    BY <2>3, <2>4, <2>5 DEF TypedReader
<1>15. CASE SayPausing
  <2>1. PICK request \in pausers : /\ Send(Message("Pausing", request.serial, {}))
                                    /\ pausers' = pausers \ {request}
    BY <1>15 DEF SayPausing
  <2>2. request.serial \in 0..MaxRequests
    BY RequestParts
  <2>3. messages' \in Seq(Messages)
    BY <1>15, <2>1, <2>2, SayIsTyped DEF MessageKinds
  <2>4. pausers' \subseteq Requests
    BY <1>15, <2>1, <2>2
  <2>5. UNCHANGED <<minted, registry, held, mailbox, at, stopOf, work, reader, unheld, answering,
                  requests, closed, engine, asked, serial, interrupts, rebinds, carried, announced, told>>
    BY <1>15 DEF SayPausing, agent, stops, thread, client
  <2>6. QED
    BY <2>3, <2>4, <2>5 DEF TypedReader
<1>16. CASE Ask
  <2>1. asked' \in Requests
    <3>1. PICK kind \in Asks : \E names \in Named(kind) :
            asked' = [serial |-> serial', kind |-> kind, names |-> names]
      BY <1>16 DEF Ask
    <3>2. Named(kind) \subseteq SUBSET held
      BY DEF Named
    <3>3. serial' \in 0..MaxRequests
      BY <1>16 DEF Ask
    <3>4. QED
      BY <3>1, <3>2, <3>3 DEF Requests
  <2>2. asked' \in Requests \cup {NoRequest}
    BY <1>16, <2>1
  <2>3. requests' \in Seq(Requests)
    BY <1>16, <2>1, Last DEF Ask
  <2>4. engine' \in {"idle", "asking", "waiting"}
    BY <1>16, <2>1 DEF Ask
  <2>5. serial' \in 0..MaxRequests
    BY <1>16, <2>1 DEF Ask
  <2>6. UNCHANGED <<minted, registry, held, mailbox, at, stopOf, work, reader, unheld,
                  answering, pausers, messages, closed, interrupts, rebinds, carried, announced, told>>
    BY <1>16 DEF Ask, agent, stops, thread, client
  <2>7. QED
    BY <2>2, <2>3, <2>4, <2>5, <2>6 DEF TypedReader
<1>17. CASE Interrupt
  BY <1>17 DEF Interrupt, AsksByName
<1>18. CASE KeepAside
  <2>1. messages # <<>> /\ Head(messages) \in Messages /\ Tail(messages) \in Seq(Messages)
    BY <1>18, First DEF KeepAside
  <2>2. Head(messages).names \subseteq Entries
    BY <2>1 DEF Messages
  <2>3. messages' \in Seq(Messages)
    BY <1>18, <2>1, <2>2 DEF KeepAside
  <2>4. held' \subseteq Entries
    BY <1>18, <2>1, <2>2 DEF KeepAside
  <2>5. rebinds' \in Nat
    BY <1>18, <2>1, <2>2 DEF KeepAside
  <2>6. UNCHANGED <<minted, registry, mailbox, at, stopOf, work, reader, unheld, answering,
                  pausers, requests, closed, engine, asked, serial, interrupts, carried, announced, told>>
    BY <1>18 DEF KeepAside, agent, stops, thread, client
  <2>7. QED
    BY <2>3, <2>4, <2>5, <2>6 DEF TypedReader
<1>19. CASE TakeAnswer
  <2>1. messages # <<>> /\ Head(messages) \in Messages /\ Tail(messages) \in Seq(Messages)
    BY <1>19, First DEF TakeAnswer
  <2>2. Head(messages).names \subseteq Entries
    BY <2>1 DEF Messages
  <2>3. messages' \in Seq(Messages)
    BY <1>19, <2>1, <2>2 DEF TakeAnswer
  <2>4. held' \subseteq Entries
    BY <1>19, <2>1, <2>2 DEF TakeAnswer
  <2>5. engine' \in {"idle", "asking", "waiting"}
    BY <1>19, <2>1, <2>2 DEF TakeAnswer, Came
  <2>6. asked' \in Requests \cup {NoRequest}
    BY <1>19, <2>1, <2>2 DEF TakeAnswer, Came
  <2>7. UNCHANGED <<minted, registry, mailbox, at, stopOf, work, reader, unheld, answering,
                  pausers, requests, closed, serial, interrupts, rebinds, carried, announced, told>>
    BY <1>19 DEF TakeAnswer, agent, stops, thread, client, Came
  <2>8. QED
    BY <2>3, <2>4, <2>5, <2>6, <2>7 DEF TypedReader
<1>20. CASE AgentGone
  <2>1. engine' \in {"idle", "asking", "waiting"}
    BY <1>20 DEF AgentGone, Came
  <2>2. asked' \in Requests \cup {NoRequest}
    BY <1>20 DEF AgentGone, Came
  <2>3. UNCHANGED <<minted, registry, held, mailbox, at, stopOf, work, reader, unheld, answering,
                  pausers, requests, messages, closed, serial, interrupts, rebinds, carried, announced, told>>
    BY <1>20 DEF AgentGone, agent, stops, thread, client, Came
  <2>4. QED
    BY <2>1, <2>2, <2>3 DEF TypedReader
<1>21. CASE Wait
  BY <1>21 DEF Wait, agent, stops, thread, client, TypedReader
<1>22. CASE WaitGathers
  <2>1. messages # <<>> /\ Head(messages) \in Messages /\ Tail(messages) \in Seq(Messages)
    BY <1>22, First DEF WaitGathers
  <2>2. Head(messages).names \subseteq Entries
    BY <2>1 DEF Messages
  <2>3. messages' \in Seq(Messages)
    BY <1>22, <2>1, <2>2 DEF WaitGathers
  <2>4. carried' \in Nat
    BY <1>22, <2>1, <2>2 DEF WaitGathers
  <2>5. UNCHANGED <<minted, registry, held, mailbox, at, stopOf, work, reader, unheld, answering,
                  pausers, requests, closed, engine, asked, serial, interrupts, rebinds, announced, told>>
    BY <1>22 DEF WaitGathers, agent, stops, thread, client
  <2>6. QED
    BY <2>3, <2>4, <2>5 DEF TypedReader
<1>23. CASE WaitEnds
  <2>1. messages # <<>> /\ Head(messages) \in Messages /\ Tail(messages) \in Seq(Messages)
    BY <1>23, First DEF WaitEnds
  <2>2. Head(messages).names \subseteq Entries
    BY <2>1 DEF Messages
  <2>3. messages' \in Seq(Messages)
    BY <1>23, <2>1, <2>2 DEF WaitEnds
  <2>4. held' \subseteq Entries
    BY <1>23, <2>1, <2>2 DEF WaitEnds
  <2>5. engine' \in {"idle", "asking", "waiting"}
    BY <1>23, <2>1, <2>2 DEF WaitEnds, EndWait
  <2>6. carried' \in Nat
    BY <1>23, <2>1, <2>2 DEF WaitEnds, EndWait
  <2>7. told' \in Nat
    BY <1>23, <2>1, <2>2 DEF WaitEnds, EndWait
  <2>8. UNCHANGED <<minted, registry, mailbox, at, stopOf, work, reader, unheld,
                  answering, pausers, requests, closed, asked, serial, interrupts, rebinds, announced>>
    BY <1>23 DEF WaitEnds, agent, stops, thread, client, EndWait
  <2>9. QED
    BY <2>3, <2>4, <2>5, <2>6, <2>7, <2>8 DEF TypedReader
<1>24. CASE WaitTimesOut
  <2>1. engine' \in {"idle", "asking", "waiting"}
    BY <1>24 DEF WaitTimesOut, EndWait
  <2>2. carried' \in Nat
    BY <1>24 DEF WaitTimesOut, EndWait
  <2>3. told' \in Nat
    BY <1>24 DEF WaitTimesOut, EndWait
  <2>4. UNCHANGED <<minted, registry, held, mailbox, at, stopOf, work, reader, unheld,
                  answering, pausers, requests, messages, closed, asked, serial, interrupts, rebinds, announced>>
    BY <1>24 DEF WaitTimesOut, agent, stops, thread, client, EndWait
  <2>5. QED
    BY <2>1, <2>2, <2>3, <2>4 DEF TypedReader
<1>25. CASE UNCHANGED vars
  BY <1>25 DEF vars, agent, stops, thread, client, TypedReader
<1>26. QED
  BY <1>1, <1>2, <1>3, <1>4, <1>5, <1>6, <1>7, <1>8, <1>9, <1>10, <1>11, <1>12, <1>13, <1>14, <1>15, <1>16, <1>17, <1>18, <1>19, <1>20, <1>21, <1>22, <1>23, <1>24, <1>25
  DEF Next, HoldsAndAnswers, Reads, Unheld, Listens

-----------------------------------------------------------------------------
\* A mailbox with one command in it.
LEMMA OneOnly ==
    ASSUME NEW S, NEW q \in Seq(S), q # <<>>, Len(q) = 1 PROVE Head(q) = q[1] /\ Tail(q) = <<>>
<1>1. Head(q) = q[1] /\ Tail(q) \in Seq(S) /\ Len(Tail(q)) = 0
  BY HeadTailProperties
<1>2. QED
  BY <1>1, EmptySeq

\* The next stop has a number of its own.
LEMMA NewIsNotHeld ==
    ASSUME Shape, Registered, NEW t PROVE [stop |-> minted + 1, thread |-> t] \notin held
<1>1. \A e \in held : e.stop \in Nat /\ e.stop <= minted
  BY DEF Shape, Registered, Entries, Stops
<1>2. \A e \in held : e.stop # minted + 1
  BY <1>1 DEF Shape
<1>3. QED
  BY <1>2

\* A thread is in one stop at a time.
LEMMA OneStopEach ==
    ASSUME Shape, Registered, NEW e \in registry, NEW f \in registry, e.thread = f.thread
    PROVE  e = f
  BY DEF Shape, Registered, Entries

\* Every step is one of Moves.
LEMMA MovesStep ==
    ASSUME AsksByName, Shape, Going, ~Dead, [Next]_vars PROVE Moves
<1> USE DEF Going
<1> PICK w \in Places : OnlyAt(w)
  BY DEF OnTheWay
<1>1. ASSUME NEW t \in Threads, Enter(t) PROVE Moves
  BY <1>1 DEF Moves, Enter, Enters, place, away, own, agent, stops, thread, client
<1>2. ASSUME NEW t \in Threads, SayStopped(t) PROVE Moves
  BY <1>2 DEF Moves, SayStopped, SaysStopped, Send, Message, agent, stops, thread, client, place, away, own
<1>3. ASSUME NEW t \in Threads, TakeCommand(t) PROVE Moves
  <2> DEFINE s == stopOf[t]
  <2>1. at[t] = "held" /\ s \in Stops /\ mailbox[s] # <<>> /\ mailbox[s] \in Seq(Requests)
    BY <1>3 DEF TakeCommand, Registered, InStop, Shape
  <2>2. Len(mailbox[s]) = 1 /\ Head(mailbox[s]) = mailbox[s][1] /\ Tail(mailbox[s]) = <<>>
    BY <2>1, OneOnly DEF Posted
  <2>3. CASE Live(mailbox[s][1])
    <3>1. mailbox[s] = <<asked>> /\ mailbox[s][1] = asked
      BY <2>1, <2>3 DEF OnlyAt, OnlyIn, OnlyBack
    <3>2. TakesLive(t)
      BY <1>3, <2>1, <2>2, <2>3, <3>1 DEF TakeCommand, TakesLive, Live, agent, stops, thread, client, place, away, own
    <3>3. QED
      BY <3>2 DEF Moves
  <2>4. CASE ~Live(mailbox[s][1])
    <3>1. TakesLetGo(t)
      BY <1>3, <2>1, <2>2, <2>4 DEF TakeCommand, TakesLetGo, Live, agent, stops, thread, client, place, away, own
    <3>2. QED
      BY <3>1 DEF Moves
  <2>5. QED
    BY <2>3, <2>4
<1>4. ASSUME NEW t \in Threads, AnswerHeld(t) PROVE Moves
  <2>1. work[t] = asked
    BY <1>4 DEF AnswerHeld, OnlyAt, OnlyIn, OnlyBack
  <2>2. AnswersHeld(t)
    BY <1>4, <2>1 DEF AnswerHeld, AnswersHeld, Answered, Reply, Send, Message, agent, stops, thread, client, place, away, own
  <2>3. QED
    BY <2>2 DEF Moves
<1>5. ASSUME NEW t \in Threads, ArrangeRestart(t) PROVE Moves
  <2>1. work[t] = asked
    BY <1>5 DEF ArrangeRestart, OnlyAt, OnlyIn, OnlyBack
  <2>2. Arranges(t)
    BY <1>5, <2>1 DEF ArrangeRestart, Arranges, agent, stops, thread, client, place, away, own
  <2>3. QED
    BY <2>2 DEF Moves
<1>6. ASSUME NEW t \in Threads, SayRestarting(t) PROVE Moves
  <2>1. work[t] = asked /\ asked.kind = "restart"
    BY <1>6 DEF SayRestarting, OnlyAt, OnlyIn, OnlyBack, Leaves, LeavingIsHeldUp
  <2>2. SaysRestarting(t)
    BY <1>6, <2>1 DEF SayRestarting, SaysRestarting, Answered, Send, Message, agent, stops, thread, client, place, away, own
  <2>3. QED
    BY <2>2 DEF Moves
<1>7. ASSUME NEW t \in Threads, AnnounceRebinding(t) PROVE Moves
  BY <1>7, ControlAssumption DEF AsksByName, Shape, Moves, AnnounceRebinding, Announces, Send, Message, agent, stops, thread, client, place, away, own
<1>8. CASE Finish
  BY <1>8 DEF Finish, AsksByName
<1>9. CASE Exit
  BY <1>9 DEF Moves, Exit, Exits, agent, stops, thread, client, place, away, own
<1>10. CASE Route
  <2>0. requests = <<asked>> /\ w = "requests"
    BY <1>10 DEF Route, OnlyAt, OnlyIn, OnlyBack
  <2>1. requests = <<asked>> /\ Head(requests) = asked /\ Tail(requests) = <<>> /\ w = "requests"
    BY <2>0
  <2>2. asked \in Requests /\ unheld = <<>> /\ pausers = {} /\ engine = "asking"
    BY <2>1 DEF OnlyAt, OnlyIn, OnlyBack, AskedIsHeld
  <2>3. Leaving = {}
    BY <1>10, <2>1 DEF Route, OnlyAt, OnlyIn, OnlyBack, Leaves, LeavingIsHeldUp
  <2>4. CASE asked.kind \in ProcessAsks /\ RouteToAny(asked)
    <3>1. CASE registry = {}
      BY <1>10, <2>1, <2>2, <2>4, <3>1 DEF Route, Moves, RouteToAny, RoutesUnheld, Routes, agent, stops, thread, client, place, away, own
    <3>2. CASE registry # {}
      <4> DEFINE e == CHOOSE e \in registry : \A f \in registry : e.stop <= f.stop
      <4>1. e \in registry /\ e \in Entries
        BY <3>2, LowestIsHeld DEF Shape
      <4>2. reader' = [doing |-> "posting", request |-> asked, to |-> {e}]
        BY <2>4, <3>2 DEF RouteToAny, Post
      <4> HIDE DEF e
      <4>3. Live(asked) /\ asked.kind \notin StopAsks
        BY <2>4 DEF ProcessAsks, StopAsks, LetGoAsks, Live
      <4>4. RoutesTo(e)
        BY <1>10, <2>1, <2>4, <3>2, <4>1, <4>2, <4>3 DEF Route, RouteToAny, RoutesTo, Routes, agent, stops, thread, client, place, away, own
      <4>5. QED
        BY <4>1, <4>4 DEF Moves
    <3>3. QED
      BY <3>1, <3>2
  <2>5. CASE asked.kind \in StopAsks /\ RouteToStop(asked)
    <3>1. PICK e \in held : asked.names = {e}
      BY <2>2, <2>5 DEF AskedIsHeld
    <3>2. e \in registry /\ e \in Entries
      BY <2>3, <3>1 DEF Leaving, Shape
    <3>3. Live(asked)
      BY <2>5 DEF StopAsks, LetGoAsks, Live
    <3>4. RoutesTo(e)
      BY <1>10, <2>1, <2>5, <3>1, <3>2, <3>3 DEF Route, RouteToStop, Post, RoutesTo, Routes, agent, stops, thread, client, place, away, own
    <3>5. QED
      BY <3>2, <3>4 DEF Moves
  <2>6. CASE asked.kind \in LetGoAsks /\ RouteLetGo(asked)
    <3>1. asked.kind \in {"resume", "step"} /\ asked.names # {} /\ asked.names \subseteq held \cap registry
      BY <2>2, <2>3, <2>6 DEF AskedIsHeld, AsksByName, LetGoAsks, Leaving
    <3>2. {e \in registry : \E n \in asked.names : n.thread = e.thread} = asked.names
      <4>1. ASSUME NEW e \in registry, NEW n \in registry, n.thread = e.thread PROVE n = e
        BY <4>1, OneStopEach
      <4>2. QED
        BY <3>1, <4>1
    <3>3. asked.names \cap registry = asked.names
      BY <3>1
    <3>4. /\ registry' = registry \ asked.names
          /\ reader' = [doing |-> "telling", request |-> asked, to |-> asked.names]
          /\ UNCHANGED <<messages, unheld, pausers>>
      <4> DEFINE taken == CASE asked.kind = "resumeAll" -> registry
                            [] asked.kind = "step" -> asked.names \cap registry
                            [] OTHER -> {e \in registry : \E n \in asked.names : n.thread = e.thread}
      <4>1. taken = asked.names
        BY <3>1, <3>2, <3>3
      <4>2. IF \A n \in asked.names : \E e \in taken : n.thread = e.thread
              THEN /\ registry' = registry \ taken
                   /\ reader' = [doing |-> "telling", request |-> asked, to |-> taken]
                   /\ UNCHANGED <<messages, unheld, pausers>>
              ELSE UNCHANGED <<registry, reader, unheld, pausers>>
        BY <2>6 DEF RouteLetGo
      <4> HIDE DEF taken
      <4>3. QED
        BY <4>1, <4>2
    <3>5. LetsGoOf
      BY <1>10, <2>1, <3>1, <3>4 DEF Route, LetsGoOf, Routes, agent, stops, thread, client, place, away, own
    <3>6. QED
      BY <3>5 DEF Moves
  <2>7. CASE asked.kind = "pause" /\ RoutePause(asked)
    BY <1>10, <2>1, <2>2, <2>7 DEF Route, Moves, RoutePause, RoutesPause, Routes, agent, stops, thread, client, place, away, own
  <2>8. QED
    BY <1>10, <2>1, <2>4, <2>5, <2>6, <2>7 DEF Route
<1>11. CASE SayResumed
  <2>1. reader.request = asked /\ engine = "asking" /\ reader.to # {} /\ ~Live(asked)
    BY <1>11 DEF SayResumed, OnlyAt, OnlyIn, OnlyBack, Woken
  <2>2. asked.kind \in {"resume", "step"}
    BY <2>1 DEF AskedIsHeld, AsksByName, Live, LetGoAsks
  <2>3. SaysResumed
    BY <1>11, <2>1, <2>2 DEF SayResumed, SaysResumed, Answered, Send, Message, Post, agent, stops, thread, client, place, away, own
  <2>4. QED
    BY <2>3 DEF Moves
<1>12. CASE PostCommand
  <2>1. PICK e \in reader.to :
          /\ mailbox' = [mailbox EXCEPT ![e.stop] = Append(@, reader.request)]
          /\ IF reader.to = {e} THEN ReadingOn ELSE Post(reader.request, reader.to \ {e})
    BY <1>12 DEF PostCommand
  <2>2. e \in Entries /\ e.stop \in Stops /\ mailbox[e.stop] \in Seq(Requests) /\ reader.doing = "posting"
    BY <1>12 DEF Shape, TypedReader, Entries, PostCommand
  <2>3. Live(reader.request) => reader.to = {e} /\ e \in registry
    BY <2>2 DEF Posted
  <2>4. mailbox[e.stop] = <<>>
    <3>1. CASE Live(reader.request)
      <4>1. w = "reader"
        BY <2>2, <3>1 DEF OnlyAt, OnlyIn, OnlyBack
      <4>2. ~(mailbox[e.stop] # <<>> /\ Live(mailbox[e.stop][1]))
        BY <2>2, <4>1 DEF OnlyAt, OnlyIn, OnlyBack
      <4>3. QED
        BY <2>2, <2>3, <3>1, <4>2 DEF Posted
    <3>2. CASE ~Live(reader.request)
      BY <2>2, <3>2 DEF Woken
    <3>3. QED
      BY <3>1, <3>2
  <2>5. Append(mailbox[e.stop], reader.request) = <<reader.request>>
    BY <2>4
  <2>6. reader'.doing \in {"reading", "posting"} /\ reader'.to = reader.to \ {e}
    BY <2>1 DEF ReadingOn, Post
  <2>7. reader'.doing = "posting" => reader'.request = reader.request /\ ~Live(reader.request)
    BY <2>1, <2>3 DEF ReadingOn, Post
  <2>8. Posts(e)
    BY <1>12, <2>1, <2>2, <2>4, <2>5, <2>6, <2>7 DEF PostCommand, Posts, agent, stops, thread, client, place, away, own
  <2>9. QED
    BY <2>2, <2>8 DEF Moves
<1>13. CASE TakeUnheld
  <2>1. unheld = <<asked>> /\ Head(unheld) = asked /\ Tail(unheld) = <<>>
    BY <1>13 DEF TakeUnheld, OnlyAt, OnlyIn, OnlyBack
  <2>2. TakesUnheld
    BY <1>13, <2>1 DEF TakeUnheld, TakesUnheld, agent, stops, thread, client, place, away, own
  <2>3. QED
    BY <2>2 DEF Moves
<1>14. CASE AnswerUnheld
  <2>1. answering = asked
    BY <1>14 DEF AnswerUnheld, OnlyAt, OnlyIn, OnlyBack
  <2>2. AnswersUnheld
    BY <1>14, <2>1 DEF AnswerUnheld, AnswersUnheld, Answered, Reply, Send, Message, agent, stops, thread, client, place, away, own
  <2>3. QED
    BY <2>2 DEF Moves
<1>15. CASE SayPausing
  <2>1. pausers = {asked} /\ asked.kind = "pause"
    BY <1>15 DEF SayPausing, OnlyAt, OnlyIn, OnlyBack
  <2>2. "Pausing" \in Reply
    BY <2>1 DEF Reply, Expected
  <2>3. Answered("Pausing", {}) /\ pausers' = {}
    BY <1>15, <2>1 DEF SayPausing, Answered, Send, Message
  <2>4. SaysPausing
    BY <1>15, <2>1, <2>2, <2>3 DEF SayPausing, SaysPausing, agent, stops, thread, client, place, away, own
  <2>5. QED
    BY <2>4 DEF Moves
<1>16. CASE Ask
  <2>1. requests = <<>> /\ engine = "idle"
    BY <1>16 DEF Ask, OnlyAt, OnlyIn, OnlyBack
  <2>2. PICK kind \in Asks : \E names \in Named(kind) :
          /\ asked' = [serial |-> serial', kind |-> kind, names |-> names]
          /\ requests' = Append(requests, asked')
    BY <1>16 DEF Ask
  <2>3. PICK names \in Named(kind) :
          /\ asked' = [serial |-> serial', kind |-> kind, names |-> names]
          /\ requests' = Append(requests, asked')
    BY <2>2
  <2>4. serial' \in 0..MaxRequests /\ serial' # Nobody
    BY <1>16, ControlAssumption DEF Ask, Shape, Nobody
  <2>5. names \subseteq held
    BY <2>3 DEF Named
  <2>6. kind \in StopAsks \cup {"step"} => \E e \in held : names = {e}
    BY <2>3 DEF Named, StopAsks
  <2>7. kind = "resume" => names # {}
    BY <2>3 DEF Named, StopAsks
  <2>8. asked' \in Requests
    BY <2>3, <2>4, <2>5 DEF Requests, Shape
  <2>9. requests' = <<asked'>>
    BY <2>1, <2>3
  <2>10. Makes
    BY <1>16, <2>1, <2>3, <2>4, <2>5, <2>6, <2>7, <2>8, <2>9 DEF Ask, Makes, agent, stops, thread, client, place, away, own
  <2>11. QED
    BY <2>10 DEF Moves
<1>17. CASE Interrupt
  BY <1>17 DEF Interrupt, AsksByName, Shape
<1>18. CASE KeepAside
  <2>1. /\ messages # <<>> /\ Head(messages) = messages[1] /\ 1 \in Queued
        /\ messages[1].names \subseteq Entries
    <3>1. messages # <<>> /\ messages \in Seq(Messages)
      BY <1>18 DEF KeepAside, Shape
    <3>2. Head(messages) = messages[1] /\ Head(messages) \in Messages /\ 1 \in 1..Len(messages)
      BY <3>1, First
    <3>3. QED
      BY <3>1, <3>2 DEF Queued, Messages
  <2>2. CASE messages[1].kind = "Stopped"
    <3>1. PICK e \in registry \ held : Told(1, e)
      BY <2>1, <2>2 DEF Telling, Plain, News
    <3>2. Learns(e) /\ e \in Entries
      BY <1>18, <2>1, <2>2, <3>1 DEF KeepAside, Learns, Hears, Told, Shape, agent, stops, thread, client, place, away, own
    <3>3. QED
      BY <3>2 DEF Moves
  <2>3. CASE messages[1].kind # "Stopped"
    <3>1. messages[1].kind \notin {"Refused", "NoSuchStop", Expected(asked.kind)}
      BY <1>18, <2>1, <2>3 DEF KeepAside, KeptAside, Expected
    <3>2. ~Answers(1)
      BY <2>1, <3>1 DEF OnlyAt, OnlyBack
    <3>3. Passes
      BY <1>18, <2>1, <2>3, <3>2 DEF KeepAside, Passes, Hears, agent, stops, thread, client, place, away, own
    <3>4. QED
      BY <3>3 DEF Moves
  <2>4. QED
    BY <2>2, <2>3
<1>19. CASE TakeAnswer
  <2>1. /\ messages # <<>> /\ Head(messages) = messages[1] /\ 1 \in Queued
        /\ messages[1].names \subseteq Entries
    <3>1. messages # <<>> /\ messages \in Seq(Messages)
      BY <1>19 DEF TakeAnswer, Shape
    <3>2. Head(messages) = messages[1] /\ Head(messages) \in Messages /\ 1 \in 1..Len(messages)
      BY <3>1, First
    <3>3. QED
      BY <3>1, <3>2 DEF Queued, Messages
  <2>2. engine = "asking" /\ messages[1].kind # "Stopped" /\ asked.kind \in Asks
    BY <1>19, <2>1 DEF TakeAnswer, KeptAside, AskedIsHeld
  <2>3. Answers(1)
    BY <1>19, <2>1, <2>2 DEF TakeAnswer, KeptAside, Telling, Plain
  <2>4. Leaving = messages[1].names
    BY <2>1, <2>3 DEF Leaves, LeavingIsHeldUp
  <2>5. CASE messages[1].kind = Expected(asked.kind)
    <3>1. held' = held \ LetsGo(messages[1])
      BY <1>19, <2>1, <2>5, ExpectedIsKind DEF TakeAnswer
    <3>2. LetsGo(messages[1]) = Leaving
      <4>1. \A e \in held, n \in Leaving : n.thread = e.thread => e \in Leaving
        BY DEF Leaves, LeavingIsHeldUp, Leaving
      <4>2. \A e \in held, n \in Leaving : n.stop = e.stop => e = n
        BY DEF Registered, Leaving
      <4>3. QED
        BY <2>4, <4>1, <4>2 DEF LetsGo, Leaving
    <3>3. QED
      BY <1>19, <2>1, <2>2, <2>3, <3>1, <3>2 DEF TakeAnswer, Came, Hands, Hears, agent, stops, thread, client, place, away, own, Moves
  <2>6. CASE messages[1].kind # Expected(asked.kind)
    <3>1. Leaving = {} /\ held' = held
      BY <1>19, <2>1, <2>3, <2>4, <2>6 DEF TakeAnswer, Leaves, LeavingIsHeldUp
    <3>2. Hands
      BY <1>19, <2>1, <2>2, <2>3, <3>1 DEF TakeAnswer, Came, Hands, Hears, agent, stops, thread, client, place, away, own
    <3>3. QED
      BY <3>2 DEF Moves
  <2>7. QED
    BY <2>5, <2>6
<1>20. CASE AgentGone
  BY <1>20 DEF AgentGone, Dead
<1>21. CASE Wait
  BY <1>21 DEF Moves, Wait, Waits, agent, stops, thread, client, place, away, own
<1>22. CASE WaitGathers
  <2>1. /\ messages # <<>> /\ Head(messages) = messages[1] /\ 1 \in Queued
        /\ messages[1].names \subseteq Entries
    <3>1. messages # <<>> /\ messages \in Seq(Messages)
      BY <1>22 DEF WaitGathers, Shape
    <3>2. Head(messages) = messages[1] /\ Head(messages) \in Messages /\ 1 \in 1..Len(messages)
      BY <3>1, First
    <3>3. QED
      BY <3>1, <3>2 DEF Queued, Messages
  <2>2. ~Answers(1) /\ messages[1].kind # "Stopped"
    BY <1>22, <2>1 DEF WaitGathers, OnlyAt, OnlyIn, OnlyBack
  <2>3. Passes
    BY <1>22, <2>1, <2>2 DEF WaitGathers, Passes, Hears, agent, stops, thread, client, place, away, own
  <2>4. QED
    BY <2>3 DEF Moves
<1>23. CASE WaitEnds
  <2>1. /\ messages # <<>> /\ Head(messages) = messages[1] /\ 1 \in Queued
        /\ messages[1].names \subseteq Entries
    <3>1. messages # <<>> /\ messages \in Seq(Messages)
      BY <1>23 DEF WaitEnds, Shape
    <3>2. Head(messages) = messages[1] /\ Head(messages) \in Messages /\ 1 \in 1..Len(messages)
      BY <3>1, First
    <3>3. QED
      BY <3>1, <3>2 DEF Queued, Messages
  <2>2. ~Answers(1)
    BY <1>23, <2>1 DEF WaitEnds, OnlyAt, OnlyIn, OnlyBack
  <2>3. messages[1].kind = "Stopped"
    BY <1>23, <2>1, <2>2 DEF WaitEnds, Telling, Plain, News
  <2>4. PICK e \in registry \ held : Told(1, e)
    BY <2>1, <2>3 DEF Telling, Plain, News
  <2>5. Learns(e) /\ e \in Entries
    BY <1>23, <2>1, <2>3, <2>4 DEF WaitEnds, EndWait, Learns, Hears, Told, Shape, agent, stops, thread, client, place, away, own
  <2>6. QED
    BY <2>5 DEF Moves
<1>24. CASE WaitTimesOut
  BY <1>24 DEF Moves, WaitTimesOut, EndWait, Waits, agent, stops, thread, client, place, away, own
<1>25. CASE UNCHANGED vars
  BY <1>25 DEF Moves, vars, Rests, agent, stops, thread, client, place, away, own
<1>26. QED
  BY <1>1, <1>2, <1>3, <1>4, <1>5, <1>6, <1>7, <1>8, <1>9, <1>10, <1>11, <1>12, <1>13, <1>14, <1>15, <1>16, <1>17, <1>18, <1>19, <1>20, <1>21, <1>22, <1>23, <1>24, <1>25
  DEF Next, HoldsAndAnswers, Reads, Unheld, Listens

-----------------------------------------------------------------------------
\* What is said goes behind what is queued.
LEMMA Grown ==
    ASSUME Shape, NEW m, messages' = Append(messages, m)
    PROVE  /\ Len(messages) \in Nat /\ Len(messages') = Len(messages) + 1
           /\ Queued' = Queued \cup {Len(messages) + 1} /\ Len(messages) + 1 \notin Queued
           /\ \A i \in Queued : i \in Nat /\ i <= Len(messages) /\ messages'[i] = messages[i]
           /\ messages'[Len(messages) + 1] = m
<1>1. messages \in Seq(Messages)
  BY DEF Shape
<1>2. /\ Len(messages) \in Nat /\ Len(messages') = Len(messages) + 1
      /\ \A i \in 1..Len(messages) : messages'[i] = messages[i]
      /\ messages'[Len(messages) + 1] = m
  BY <1>1
<1>3. QED
  BY <1>2 DEF Queued

\* What is read is the first, and the others move up.
LEMMA Shrunk ==
    ASSUME Shape, messages # <<>>, messages' = Tail(messages)
    PROVE  /\ 1 \in Queued /\ Queued \subseteq Nat \ {0}
           /\ \A i \in Queued' : i \in Nat \ {0} /\ i + 1 \in Queued /\ messages'[i] = messages[i + 1]
           /\ \A i \in Queued : i # 1 => i - 1 \in Queued' /\ messages'[i - 1] = messages[i]
<1>1. messages \in Seq(Messages)
  BY DEF Shape
<1>2. /\ Len(messages) \in Nat \ {0} /\ Len(messages') = Len(messages) - 1
      /\ \A i \in 1..Len(messages') : messages'[i] = messages[i + 1]
  BY <1>1, First
<1>3. QED
  BY <1>2 DEF Queued

\* An answer goes behind what is queued.
LEMMA AnsweredLast ==
    ASSUME Shape, NEW kind, NEW names, Answered(kind, names)
    PROVE  /\ Len(messages) \in Nat /\ Len(messages') = Len(messages) + 1
           /\ Queued' = Queued \cup {Len(messages) + 1} /\ Len(messages) + 1 \notin Queued
           /\ \A i \in Queued : i \in Nat /\ i <= Len(messages) /\ messages'[i] = messages[i]
           /\ messages'[Len(messages) + 1] = [kind |-> kind, for |-> asked.serial, names |-> names]
  BY Grown DEF Answered

LEMMA AnsweredBack ==
    ASSUME Shape, NEW kind \in Reply, NEW names, Answered(kind, names), UNCHANGED asked,
           NEW w, w # "messages", OnlyBack(w)
    PROVE  OnlyBack("messages")'
<1>1. /\ Queued' = Queued \cup {Len(messages) + 1}
      /\ \A i \in Queued : messages'[i] = messages[i]
      /\ messages'[Len(messages) + 1] = [kind |-> kind, for |-> asked.serial, names |-> names]
  BY AnsweredLast
<1>2. \A i \in Queued : messages[i].for = Nobody
  BY DEF OnlyBack, Answers
<1>3. ASSUME NEW i \in Queued', messages'[i].for # Nobody
      PROVE  messages'[i].for = asked.serial /\ messages'[i].kind = kind
  BY <1>1, <1>2, <1>3
<1>4. QED
  BY <1>3 DEF OnlyBack, Answers, Reply

LEMMA SaidBack ==
    ASSUME Shape, NEW m, m.for = Nobody, messages' = Append(messages, m), UNCHANGED asked,
           NEW w, OnlyBack(w)
    PROVE  OnlyBack(w)'
<1>1. /\ Queued' = Queued \cup {Len(messages) + 1} /\ messages'[Len(messages) + 1] = m
      /\ \A i \in Queued : messages'[i] = messages[i]
  BY Grown
<1>2. QED
  BY <1>1 DEF OnlyBack, Answers

LEMMA HeardBack ==
    ASSUME Shape, messages # <<>>, messages' = Tail(messages), UNCHANGED asked, NEW w, OnlyBack(w)
    PROVE  OnlyBack(w)'
<1>1. \A i \in Queued' : i + 1 \in Queued /\ messages'[i] = messages[i + 1]
  BY Shrunk
<1>2. QED
  BY <1>1 DEF OnlyBack, Answers

\* The request is in one place after every step.
LEMMA OnTheWayStep == ASSUME Shape, Shape', Going, Moves PROVE OnTheWay'
<1> AskedIsHeld /\ Posted /\ Woken /\ Once /\ Registered
  BY DEF Going
<1> PICK w \in Places : OnlyAt(w)
  BY DEF Going, OnTheWay
<1>1. ASSUME NEW t \in Threads, Enters(t) PROVE OnTheWay'
  <2>1. OnlyAt(w)'
    BY <1>1 DEF Enters, OnlyAt, OnlyIn, OnlyBack, Answers, Queued, place, away, own
  <2>2. QED
    BY <2>1 DEF OnTheWay, Places
<1>2. ASSUME NEW t \in Threads, SaysStopped(t) PROVE OnTheWay'
  <2>1. OnlyIn(w)'
    BY <1>2 DEF SaysStopped, OnlyAt, OnlyIn, place, away, own
  <2>2. OnlyBack(w)'
    <3>1. UNCHANGED asked /\ \E m : messages' = Append(messages, m) /\ m.for = Nobody
      BY <1>2 DEF SaysStopped, away
    <3>2. QED
      BY <3>1, SaidBack DEF OnlyAt
  <2>3. QED
    BY <2>1, <2>2 DEF OnlyAt, OnTheWay, Places
<1>3. ASSUME NEW t \in Threads, TakesLetGo(t) PROVE OnTheWay'
  <2>1. OnlyAt(w)'
    BY <1>3 DEF TakesLetGo, OnlyAt, OnlyIn, OnlyBack, Answers, Queued, place, away, own
  <2>2. QED
    BY <2>1 DEF OnTheWay, Places
<1>4. ASSUME NEW t \in Threads, TakesLive(t) PROVE OnTheWay'
  <2> DEFINE s == stopOf[t]
  <2>1. s \in Stops /\ mailbox[s] = <<asked>> /\ Live(mailbox[s][1]) /\ w = "mailbox"
    BY <1>4 DEF TakesLive, Registered, InStop, OnlyAt, OnlyIn
  <2>2. \A u \in Stops \ {s} : mailbox[u] # <<>> => ~Live(mailbox[u][1])
    BY <2>1 DEF Once
  <2>3. mailbox'[s] = <<>> /\ \A u \in Stops \ {s} : mailbox'[u] = mailbox[u]
    BY <1>4, <2>1 DEF TakesLive, Shape
  <2>4. \A u \in Stops : mailbox'[u] # <<>> => ~Live(mailbox'[u][1])
    BY <2>2, <2>3
  <2>5. \A u \in Threads : at'[u] \in {"answering", "restarting"} => u = t /\ work'[u] = asked
    BY <1>4, <2>1 DEF TakesLive, OnlyAt, OnlyIn, Shape
  <2>6. OnlyIn("work")'
    BY <1>4, <2>1, <2>4, <2>5 DEF TakesLive, OnlyAt, OnlyIn, place, away, own
  <2>7. OnlyBack("work")'
    BY <1>4, <2>1 DEF TakesLive, OnlyAt, OnlyBack, Answers, Queued, place, away, own
  <2>8. QED
    BY <2>6, <2>7 DEF OnlyAt, OnTheWay, Places
<1>5. ASSUME NEW t \in Threads, AnswersHeld(t) PROVE OnTheWay'
  <2>1. PICK kind \in Reply : Answered(kind, {})
    BY <1>5 DEF AnswersHeld
  <2>2. w # "messages" /\ UNCHANGED asked
    BY <1>5 DEF AnswersHeld, Answered, Reply, OnlyAt, OnlyIn, away
  <2> \A u \in Threads : at'[u] \notin {"answering", "restarting"}
    <3>1. \A u \in Threads \ {t} : at[u] \notin {"answering", "restarting"}
      BY <1>5 DEF AnswersHeld, Once
    <3>2. at'[t] = "held" /\ \A u \in Threads \ {t} : at'[u] = at[u]
      BY <1>5 DEF AnswersHeld, Shape
    <3>3. QED
      BY <3>1, <3>2
  <2>3. OnlyIn("messages")'
    BY <1>5 DEF AnswersHeld, Answered, Reply, OnlyAt, OnlyIn, place, away, own
  <2>4. OnlyBack("messages")'
    BY <2>1, <2>2, AnsweredBack DEF OnlyAt
  <2>5. QED
    BY <2>3, <2>4 DEF OnlyAt, OnTheWay, Places
<1>6. ASSUME NEW t \in Threads, Arranges(t) PROVE OnTheWay'
  <2>1. OnlyAt(w)'
    BY <1>6 DEF Arranges, OnlyAt, OnlyIn, OnlyBack, Answers, Queued, place, away, own
  <2>2. QED
    BY <2>1 DEF OnTheWay, Places
<1>7. ASSUME NEW t \in Threads, SaysRestarting(t) PROVE OnTheWay'
  <2>1. "Restarting" \in Reply /\ Answered("Restarting", {Entry(t)})
    BY <1>7 DEF SaysRestarting, Reply, Expected
  <2>2. w # "messages" /\ UNCHANGED asked
    BY <1>7 DEF SaysRestarting, Answered, OnlyAt, OnlyIn, away
  <2> \A u \in Threads : at'[u] \notin {"answering", "restarting"}
    <3>1. \A u \in Threads \ {t} : at[u] \notin {"answering", "restarting"}
      BY <1>7 DEF SaysRestarting, Once
    <3>2. at'[t] = "running" /\ \A u \in Threads \ {t} : at'[u] = at[u]
      BY <1>7 DEF SaysRestarting, Shape
    <3>3. QED
      BY <3>1, <3>2
  <2>3. OnlyIn("messages")'
    BY <1>7 DEF SaysRestarting, Answered, OnlyAt, OnlyIn, place, away, own
  <2>4. OnlyBack("messages")'
    BY <2>1, <2>2, AnsweredBack DEF OnlyAt
  <2>5. QED
    BY <2>3, <2>4 DEF OnlyAt, OnTheWay, Places
<1>8. CASE Announces
  <2>1. OnlyIn(w)'
    BY <1>8 DEF Announces, OnlyAt, OnlyIn, place, away, own
  <2>2. OnlyBack(w)'
    <3>1. UNCHANGED asked /\ \E m : messages' = Append(messages, m) /\ m.for = Nobody
      BY <1>8 DEF Announces, away
    <3>2. QED
      BY <3>1, SaidBack DEF OnlyAt
  <2>3. QED
    BY <2>1, <2>2 DEF OnlyAt, OnTheWay, Places
<1>9. CASE Exits
  <2>1. OnlyAt(w)'
    BY <1>9 DEF Exits, OnlyAt, OnlyIn, OnlyBack, Answers, Queued, place, away, own
  <2>2. QED
    BY <2>1 DEF OnTheWay, Places
<1>10. CASE RoutesUnheld
  <2>1. OnlyAt("unheld")'
    BY <1>10 DEF RoutesUnheld, Routes, OnlyAt, OnlyIn, OnlyBack, Answers, Queued, place, away, own
  <2>2. QED
    BY <2>1 DEF OnTheWay, Places
<1>11. CASE LetsGoOf
  <2>1. OnlyAt("reader")'
    BY <1>11 DEF LetsGoOf, Routes, OnlyAt, OnlyIn, OnlyBack, Answers, Queued, place, away, own
  <2>2. QED
    BY <2>1 DEF OnTheWay, Places
<1>12. CASE RoutesPause
  <2>1. OnlyAt("pausers")'
    BY <1>12 DEF RoutesPause, Routes, OnlyAt, OnlyIn, OnlyBack, Answers, Queued, place, away, own
  <2>2. QED
    BY <2>1 DEF OnTheWay, Places
<1>13. CASE SaysResumed
  <2>1. "Resumed" \in Reply /\ Answered("Resumed", reader.to)
    BY <1>13 DEF SaysResumed, Reply, Expected
  <2>2. w # "messages" /\ UNCHANGED asked
    BY <1>13 DEF SaysResumed, Answered, OnlyAt, OnlyIn, away
  <2>3. OnlyIn("messages")'
    BY <1>13 DEF SaysResumed, Answered, OnlyAt, OnlyIn, Live, LetGoAsks, place, away, own
  <2>4. OnlyBack("messages")'
    BY <2>1, <2>2, AnsweredBack DEF OnlyAt
  <2>5. QED
    BY <2>3, <2>4 DEF OnlyAt, OnTheWay, Places
<1>14. ASSUME NEW e \in Entries, RoutesTo(e) PROVE OnTheWay'
  <2>1. OnlyAt("reader")'
    BY <1>14 DEF RoutesTo, Routes, OnlyAt, OnlyIn, OnlyBack, Answers, Queued, place, away, own
  <2>2. QED
    BY <2>1 DEF OnTheWay, Places
<1>15. ASSUME NEW e \in Entries, Posts(e) PROVE OnTheWay'
  <2> DEFINE s == e.stop
  <2>1. s \in Stops /\ mailbox' = [mailbox EXCEPT ![s] = <<reader.request>>]
    BY <1>15 DEF Posts, Entries
  <2>2. mailbox'[s] = <<reader.request>> /\ \A u \in Stops \ {s} : mailbox'[u] = mailbox[u]
    BY <2>1 DEF Shape
  <2>3. CASE Live(reader.request)
    <3>1. w = "reader" /\ reader.request = asked /\ reader'.doing = "reading"
      BY <1>15, <2>3 DEF Posts, OnlyAt, OnlyIn
    <3>2. \A u \in Stops : mailbox'[u] # <<>> /\ Live(mailbox'[u][1]) => mailbox'[u] = <<asked>>
      BY <2>2, <3>1 DEF OnlyAt, OnlyIn
    <3>3. OnlyIn("mailbox")'
      BY <1>15, <3>1, <3>2 DEF Posts, OnlyAt, OnlyIn, place, away, own
    <3>4. OnlyBack("mailbox")'
      BY <1>15, <3>1 DEF Posts, OnlyAt, OnlyBack, Answers, Queued, place, away, own
    <3>5. QED
      BY <3>3, <3>4 DEF OnlyAt, OnTheWay, Places
  <2>4. CASE ~Live(reader.request)
    <3>1. \A u \in Stops : mailbox'[u] # <<>> /\ Live(mailbox'[u][1]) =>
            w = "mailbox" /\ mailbox'[u] = <<asked>>
      BY <2>2, <2>4 DEF OnlyAt, OnlyIn
    <3>2. OnlyIn(w)'
      BY <1>15, <2>4, <3>1 DEF Posts, OnlyAt, OnlyIn, place, away, own
    <3>3. OnlyBack(w)'
      BY <1>15 DEF Posts, OnlyAt, OnlyBack, Answers, Queued, place, away, own
    <3>4. QED
      BY <3>2, <3>3 DEF OnlyAt, OnTheWay, Places
  <2>5. QED
    BY <2>3, <2>4
<1>16. ASSUME NEW e \in Entries, Learns(e) PROVE OnTheWay'
  <2>1. OnlyIn(w)'
    BY <1>16 DEF Learns, Hears, OnlyAt, OnlyIn, place, away, own
  <2>2. OnlyBack(w)'
    BY <1>16, HeardBack DEF Learns, Hears, OnlyAt
  <2>3. QED
    BY <2>1, <2>2 DEF OnlyAt, OnTheWay, Places
<1>17. CASE TakesUnheld
  <2>1. OnlyAt("answering")'
    BY <1>17 DEF TakesUnheld, OnlyAt, OnlyIn, OnlyBack, Answers, Queued, place, away, own
  <2>2. QED
    BY <2>1 DEF OnTheWay, Places
<1>18. CASE AnswersUnheld
  <2>1. PICK kind \in Reply : Answered(kind, {})
    BY <1>18 DEF AnswersUnheld
  <2>2. w # "messages" /\ UNCHANGED asked
    BY <1>18 DEF AnswersUnheld, Answered, Reply, OnlyAt, OnlyIn, away
  <2>3. OnlyIn("messages")'
    BY <1>18 DEF AnswersUnheld, Answered, Reply, OnlyAt, OnlyIn, Once, place, away, own
  <2>4. OnlyBack("messages")'
    BY <2>1, <2>2, AnsweredBack DEF OnlyAt
  <2>5. QED
    BY <2>3, <2>4 DEF OnlyAt, OnTheWay, Places
<1>19. CASE SaysPausing
  <2>1. PICK kind \in Reply : Answered(kind, {})
    BY <1>19 DEF SaysPausing
  <2>2. w # "messages" /\ UNCHANGED asked
    BY <1>19 DEF SaysPausing, Answered, Reply, OnlyAt, OnlyIn, away
  <2>3. OnlyIn("messages")'
    BY <1>19 DEF SaysPausing, Answered, Reply, OnlyAt, OnlyIn, Once, place, away, own
  <2>4. OnlyBack("messages")'
    BY <2>1, <2>2, AnsweredBack DEF OnlyAt
  <2>5. QED
    BY <2>3, <2>4 DEF OnlyAt, OnTheWay, Places
<1>20. CASE Makes
  <2>1. OnlyAt("requests")'
    BY <1>20 DEF Makes, OnlyAt, OnlyIn, OnlyBack, Answers, Queued, place, away, own
  <2>2. QED
    BY <2>1 DEF OnTheWay, Places
<1>21. CASE Passes
  <2>1. OnlyIn(w)'
    BY <1>21 DEF Passes, Hears, OnlyAt, OnlyIn, place, away, own
  <2>2. OnlyBack(w)'
    BY <1>21, HeardBack DEF Passes, Hears, OnlyAt
  <2>3. QED
    BY <2>1, <2>2 DEF OnlyAt, OnTheWay, Places
<1>22. CASE Hands
  <2>1. 1 \in Queued /\ \A i \in Queued' : i + 1 \in Queued /\ i \in Nat \ {0}
        /\ \A j \in Queued' : messages'[j] = messages[j + 1]
    BY <1>22, Shrunk DEF Hands, Hears
  <2>2. w = "messages"
    BY <1>22, <2>1 DEF Hands, Hears, OnlyAt, OnlyBack
  <2>3. OnlyIn("nowhere")'
    BY <1>22, <2>2 DEF Hands, Hears, OnlyAt, OnlyIn, place, away, own
  <2>4. ASSUME NEW i \in Queued', Answers(i)' PROVE FALSE
    <3>1. i + 1 \in Queued /\ Answers(i + 1) /\ Answers(1) /\ i + 1 # 1
      BY <1>22, <2>1, <2>4 DEF Hands, Answers
    <3>2. QED
      BY <2>1, <3>1 DEF Once
  <2>5. QED
    BY <2>3, <2>4 DEF OnlyAt, OnlyBack, OnTheWay, Places
<1>23. CASE Waits
  <2>1. OnlyAt(w)'
    BY <1>23 DEF Waits, OnlyAt, OnlyIn, OnlyBack, Answers, Queued, place, away, own
  <2>2. QED
    BY <2>1 DEF OnTheWay, Places
<1>24. CASE Rests
  <2>1. OnlyAt(w)'
    BY <1>24 DEF Rests, OnlyAt, OnlyIn, OnlyBack, Answers, Queued, place, away, own
  <2>2. QED
    BY <2>1 DEF OnTheWay, Places
<1>25. QED
  BY <1>1, <1>2, <1>3, <1>4, <1>5, <1>6, <1>7, <1>8, <1>9, <1>10, <1>11, <1>12, <1>13, <1>14, <1>15, <1>16, <1>17, <1>18, <1>19, <1>20, <1>21, <1>22, <1>23, <1>24 DEF Moves

-----------------------------------------------------------------------------
\* A stop is in the registry as its thread's.
LEMMA SameStop ==
    ASSUME Shape, Registered, NEW e \in registry, NEW t \in Threads, InStop(t), stopOf[t] = e.stop
    PROVE  e.thread = t /\ e = Entry(t)
<1>1. e.thread \in Threads /\ InStop(e.thread) /\ stopOf[e.thread] = e.stop
  BY DEF Shape, Entries, Registered, InStop
<1>2. e.thread = t
  BY <1>1 DEF Registered
<1>3. QED
  BY <1>2 DEF Shape, Entries, Entry

\* What was let go is only on its way.
LEMMA NothingLeaves ==
    ASSUME Leaves, NEW w, OnlyAt(w), w \notin {"reader", "messages"},
           \A t \in Threads : at[t] # "restarting"
    PROVE  Leaving = {}
  BY DEF Leaves, LeavingIsHeldUp, OnlyAt, OnlyIn, OnlyBack

\* And there once.
LEMMA OnceStep == ASSUME Shape, Shape', Going, Moves PROVE Once'
<1> AskedIsHeld /\ Posted /\ Woken /\ Once /\ Registered
  BY DEF Going
<1> PICK w \in Places : OnlyAt(w)
  BY DEF Going, OnTheWay
<1>1. ASSUME NEW t \in Threads, Enters(t) PROVE Once'
  BY <1>1 DEF Enters, Once, OnlyAt, OnlyIn, OnlyBack, Answers, Queued, place, away, own
<1>2. ASSUME NEW t \in Threads, SaysStopped(t) PROVE Once'
  BY <1>2 DEF SaysStopped, Once, OnlyAt, OnlyIn, OnlyBack, Answers, Queued, place, away, own
<1>3. ASSUME NEW t \in Threads, TakesLetGo(t) PROVE Once'
  BY <1>3 DEF TakesLetGo, Once, OnlyAt, OnlyIn, OnlyBack, Answers, Queued, place, away, own
<1>4. ASSUME NEW t \in Threads, TakesLive(t) PROVE Once'
  <2> DEFINE s == stopOf[t]
  <2>1. s \in Stops /\ at[t] = "held" /\ mailbox[s] # <<>>
    BY <1>4 DEF TakesLive, Registered, InStop
  <2>2. mailbox'[s] = <<>> /\ \A u \in Stops \ {s} : mailbox'[u] = mailbox[u]
    BY <1>4, <2>1 DEF TakesLive, Shape
  <2> HIDE DEF s
  <2>3. w = "mailbox" /\ \A u \in Stops \ {s} : mailbox[u] # <<>> => ~Live(mailbox[u][1])
    BY <1>4, <2>1 DEF TakesLive, Once, OnlyAt, OnlyIn, s
  <2>4. \A u \in Stops : mailbox'[u] # <<>> => ~Live(mailbox'[u][1])
    BY <2>2, <2>3
  <2>5. \A u \in Threads : at'[u] \in {"answering", "restarting"} => u = t
    BY <1>4, <2>3 DEF TakesLive, OnlyAt, OnlyIn, Shape
  <2>6. QED
    BY <1>4, <2>4, <2>5 DEF TakesLive, Once, Answers, Queued, away
<1>5. ASSUME NEW t \in Threads, AnswersHeld(t) PROVE Once'
  BY <1>5 DEF AnswersHeld, Answered, Reply, Once, OnlyAt, OnlyIn, OnlyBack, Answers, Queued, place, away, own
<1>6. ASSUME NEW t \in Threads, Arranges(t) PROVE Once'
  BY <1>6 DEF Arranges, Once, OnlyAt, OnlyIn, OnlyBack, Answers, Queued, place, away, own
<1>7. ASSUME NEW t \in Threads, SaysRestarting(t) PROVE Once'
  BY <1>7 DEF SaysRestarting, Answered, Once, OnlyAt, OnlyIn, OnlyBack, Answers, Queued, place, away, own
<1>8. CASE Announces
  BY <1>8 DEF Announces, Once, OnlyAt, OnlyIn, OnlyBack, Answers, Queued, place, away, own
<1>9. CASE Exits
  BY <1>9 DEF Exits, Once, OnlyAt, OnlyIn, OnlyBack, Answers, Queued, place, away, own
<1>10. CASE RoutesUnheld
  BY <1>10 DEF RoutesUnheld, Routes, Once, OnlyAt, OnlyIn, OnlyBack, Answers, Queued, place, away, own
<1>11. CASE LetsGoOf
  BY <1>11 DEF LetsGoOf, Routes, Once, OnlyAt, OnlyIn, OnlyBack, Answers, Queued, place, away, own
<1>12. CASE RoutesPause
  BY <1>12 DEF RoutesPause, Routes, Once, OnlyAt, OnlyIn, OnlyBack, Answers, Queued, place, away, own
<1>13. CASE SaysResumed
  BY <1>13 DEF SaysResumed, Answered, Once, OnlyAt, OnlyIn, OnlyBack, Answers, Queued, place, away, own
<1>14. ASSUME NEW e \in Entries, RoutesTo(e) PROVE Once'
  BY <1>14 DEF RoutesTo, Routes, Once, OnlyAt, OnlyIn, OnlyBack, Answers, Queued, place, away, own
<1>15. ASSUME NEW e \in Entries, Posts(e) PROVE Once'
  BY <1>15 DEF Posts, Once, OnlyAt, OnlyIn, OnlyBack, Answers, Queued, place, away, own
<1>16. ASSUME NEW e \in Entries, Learns(e) PROVE Once'
  BY <1>16 DEF Learns, Hears, Once, OnlyAt, OnlyIn, OnlyBack, Answers, Queued, place, away, own
<1>17. CASE TakesUnheld
  BY <1>17 DEF TakesUnheld, Once, OnlyAt, OnlyIn, OnlyBack, Answers, Queued, place, away, own
<1>18. CASE AnswersUnheld
  BY <1>18 DEF AnswersUnheld, Answered, Reply, Once, OnlyAt, OnlyIn, OnlyBack, Answers, Queued, place, away, own
<1>19. CASE SaysPausing
  BY <1>19 DEF SaysPausing, Answered, Reply, Once, OnlyAt, OnlyIn, OnlyBack, Answers, Queued, place, away, own
<1>20. CASE Makes
  BY <1>20 DEF Makes, Once, OnlyAt, OnlyIn, OnlyBack, Answers, Queued, place, away, own
<1>21. CASE Passes
  BY <1>21 DEF Passes, Hears, Once, OnlyAt, OnlyIn, OnlyBack, Answers, Queued, place, away, own
<1>22. CASE Hands
  BY <1>22 DEF Hands, Hears, Once, OnlyAt, OnlyIn, OnlyBack, Answers, Queued, place, away, own
<1>23. CASE Waits
  BY <1>23 DEF Waits, Once, OnlyAt, OnlyIn, OnlyBack, Answers, Queued, place, away, own
<1>24. CASE Rests
  BY <1>24 DEF Rests, Once, OnlyAt, OnlyIn, OnlyBack, Answers, Queued, place, away, own
<1>25. QED
  BY <1>1, <1>2, <1>3, <1>4, <1>5, <1>6, <1>7, <1>8, <1>9, <1>10, <1>11, <1>12, <1>13, <1>14, <1>15, <1>16, <1>17, <1>18, <1>19, <1>20, <1>21, <1>22, <1>23, <1>24 DEF Moves

\* The engine asks about what it holds.
LEMMA AskedIsHeldStep == ASSUME Shape, Shape', Going, Moves PROVE AskedIsHeld'
<1> AskedIsHeld
  BY DEF Going
<1>1. ASSUME NEW t \in Threads, Enters(t) PROVE AskedIsHeld'
  BY <1>1 DEF Enters, AskedIsHeld, place, away, own
<1>2. ASSUME NEW t \in Threads, SaysStopped(t) PROVE AskedIsHeld'
  BY <1>2 DEF SaysStopped, AskedIsHeld, place, away, own
<1>3. ASSUME NEW t \in Threads, TakesLetGo(t) PROVE AskedIsHeld'
  BY <1>3 DEF TakesLetGo, AskedIsHeld, place, away, own
<1>4. ASSUME NEW t \in Threads, TakesLive(t) PROVE AskedIsHeld'
  BY <1>4 DEF TakesLive, AskedIsHeld, place, away, own
<1>5. ASSUME NEW t \in Threads, AnswersHeld(t) PROVE AskedIsHeld'
  BY <1>5 DEF AnswersHeld, Answered, Reply, AskedIsHeld, place, away, own
<1>6. ASSUME NEW t \in Threads, Arranges(t) PROVE AskedIsHeld'
  BY <1>6 DEF Arranges, AskedIsHeld, place, away, own
<1>7. ASSUME NEW t \in Threads, SaysRestarting(t) PROVE AskedIsHeld'
  BY <1>7 DEF SaysRestarting, Answered, AskedIsHeld, place, away, own
<1>8. CASE Announces
  BY <1>8 DEF Announces, AskedIsHeld, place, away, own
<1>9. CASE Exits
  BY <1>9 DEF Exits, AskedIsHeld, place, away, own
<1>10. CASE RoutesUnheld
  BY <1>10 DEF RoutesUnheld, Routes, AskedIsHeld, place, away, own
<1>11. CASE LetsGoOf
  BY <1>11 DEF LetsGoOf, Routes, AskedIsHeld, place, away, own
<1>12. CASE RoutesPause
  BY <1>12 DEF RoutesPause, Routes, AskedIsHeld, place, away, own
<1>13. CASE SaysResumed
  BY <1>13 DEF SaysResumed, Answered, AskedIsHeld, place, away, own
<1>14. ASSUME NEW e \in Entries, RoutesTo(e) PROVE AskedIsHeld'
  BY <1>14 DEF RoutesTo, Routes, AskedIsHeld, place, away, own
<1>15. ASSUME NEW e \in Entries, Posts(e) PROVE AskedIsHeld'
  BY <1>15 DEF Posts, AskedIsHeld, place, away, own
<1>16. ASSUME NEW e \in Entries, Learns(e) PROVE AskedIsHeld'
  BY <1>16 DEF Learns, Hears, AskedIsHeld, place, away, own
<1>17. CASE TakesUnheld
  BY <1>17 DEF TakesUnheld, AskedIsHeld, place, away, own
<1>18. CASE AnswersUnheld
  BY <1>18 DEF AnswersUnheld, Answered, Reply, AskedIsHeld, place, away, own
<1>19. CASE SaysPausing
  BY <1>19 DEF SaysPausing, Answered, Reply, AskedIsHeld, place, away, own
<1>20. CASE Makes
  BY <1>20 DEF Makes, AskedIsHeld, place, away, own
<1>21. CASE Passes
  BY <1>21 DEF Passes, Hears, AskedIsHeld, place, away, own
<1>22. CASE Hands
  BY <1>22 DEF Hands, Hears, AskedIsHeld, place, away, own
<1>23. CASE Waits
  BY <1>23 DEF Waits, AskedIsHeld, place, away, own
<1>24. CASE Rests
  BY <1>24 DEF Rests, AskedIsHeld, place, away, own
<1>25. QED
  BY <1>1, <1>2, <1>3, <1>4, <1>5, <1>6, <1>7, <1>8, <1>9, <1>10, <1>11, <1>12, <1>13, <1>14, <1>15, <1>16, <1>17, <1>18, <1>19, <1>20, <1>21, <1>22, <1>23, <1>24 DEF Moves

\* Every stop has its number and its thread.
LEMMA RegisteredStep == ASSUME Shape, Shape', Going, Moves PROVE Registered'
<1> AskedIsHeld /\ Posted /\ Woken /\ Once /\ Registered
  BY DEF Going
<1> PICK w \in Places : OnlyAt(w)
  BY DEF Going, OnTheWay
<1> Telling
  BY DEF Going
<1>1. ASSUME NEW t \in Threads, Enters(t) PROVE Registered'
  <2> DEFINE new == [stop |-> minted + 1, thread |-> t]
  <2>1. /\ at[t] = "running" /\ at' = [at EXCEPT ![t] = "entering"]
        /\ stopOf' = [stopOf EXCEPT ![t] = minted + 1]
        /\ registry' = registry \cup {new} /\ held' = held /\ minted' = minted + 1
    BY <1>1 DEF Enters, away
  <2>2. at'[t] = "entering" /\ stopOf'[t] = minted + 1 /\ minted \in Nat /\ minted + 1 \in Stops
    BY <2>1, <1>1 DEF Shape, Stops, Enters
  <2>3. \A u \in Threads \ {t} : at'[u] = at[u] /\ stopOf'[u] = stopOf[u] /\ stopOf[u] \in Nat
    BY <2>1 DEF Shape
  <2>4. \A e \in held \cup registry : e.stop <= minted /\ e.stop \in Nat /\ e.thread \in Threads
    <3>1. held \cup registry \subseteq Entries
      BY DEF Shape
    <3>2. \A e \in Entries : e.stop \in Nat /\ e.thread \in Threads
      BY DEF Entries, Stops
    <3>3. QED
      BY <3>1, <3>2 DEF Registered
  <2>5. \A e \in registry : e.thread # t
    BY <2>1 DEF Registered
  <2>6. new.stop = minted + 1 /\ new.thread = t /\ Entry(t)' = new
    BY <2>2 DEF Entry
  <2> HIDE DEF new
  <2>7. \A u \in Threads \ {t} : Entry(u)' = Entry(u)
    BY <2>3 DEF Entry
  <2>8. \A e \in registry' : at'[e.thread] \in {"entering", "held", "answering"}
                              /\ stopOf'[e.thread] = e.stop
    BY <2>1, <2>2, <2>3, <2>4, <2>5, <2>6 DEF Registered
  <2>9. \A u \in Threads : at'[u] \in {"entering", "answering"} => Entry(u)' \in registry'
    BY <2>1, <2>3, <2>6, <2>7 DEF Registered
  <2>10. \A u \in Threads : at'[u] = "entering" => Entry(u)' \notin held'
    BY <2>1, <2>2, <2>3, <2>4, <2>6, <2>7 DEF Registered
  <2>11. \A u, v \in Threads : InStop(u)' /\ InStop(v)' /\ stopOf'[u] = stopOf'[v] => u = v
    BY <2>2, <2>3 DEF Registered, InStop
  <2>12. \A u \in Threads : (InStop(u)' => stopOf'[u] \in Stops) /\ stopOf'[u] <= minted'
    BY <2>1, <2>2, <2>3 DEF Registered, InStop
  <2>13. \A e \in held' \cup registry' : e.stop <= minted'
    BY <2>1, <2>2, <2>4, <2>6
  <2>14. \A e, f \in held' \cup registry' : e.stop = f.stop => e = f
    BY <2>1, <2>2, <2>4, <2>6 DEF Registered
  <2>15. QED
    BY <2>8, <2>9, <2>10, <2>11, <2>12, <2>13, <2>14 DEF Registered
<1>2. ASSUME NEW t \in Threads, SaysStopped(t) PROVE Registered'
  <2>1. at[t] = "entering" /\ at'[t] = "held" /\ \A u \in Threads \ {t} : at'[u] = at[u]
    BY <1>2 DEF SaysStopped, Shape
  <2>2. \A e \in registry : e.thread \in Threads
    BY DEF Shape, Entries
  <2>3. UNCHANGED <<registry, held, minted, stopOf>>
    BY <1>2 DEF SaysStopped, place, away
  <2>4. QED
    BY <2>1, <2>2, <2>3 DEF Registered, InStop, Entry
<1>3. ASSUME NEW t \in Threads, TakesLetGo(t) PROVE Registered'
  <2> DEFINE s == stopOf[t]
  <2>1. s \in Stops /\ at[t] = "held" /\ mailbox[s] # <<>>
    BY <1>3 DEF TakesLetGo, Registered, InStop
  <2>2. mailbox'[s] = <<>> /\ \A u \in Stops \ {s} : mailbox'[u] = mailbox[u]
    BY <1>3, <2>1 DEF TakesLetGo, Shape
  <2> HIDE DEF s
  <2>3. at'[t] = "running" /\ \A u \in Threads \ {t} : at'[u] = at[u]
    BY <1>3 DEF TakesLetGo, Shape
  <2>4. \A e \in registry : e.thread # t
    BY <1>3, <2>1 DEF TakesLetGo, Posted, Registered, s
  <2>5. \A e \in registry : e.thread \in Threads
    BY DEF Shape, Entries
  <2>6. UNCHANGED <<registry, held, minted, stopOf>>
    BY <1>3 DEF TakesLetGo, away
  <2>7. QED
    BY <2>1, <2>3, <2>4, <2>5, <2>6 DEF Registered, InStop, Entry
<1>4. ASSUME NEW t \in Threads, TakesLive(t) PROVE Registered'
  <2> DEFINE s == stopOf[t]
  <2>1. s \in Stops /\ at[t] = "held" /\ mailbox[s] # <<>>
    BY <1>4 DEF TakesLive, Registered, InStop
  <2>2. mailbox'[s] = <<>> /\ \A u \in Stops \ {s} : mailbox'[u] = mailbox[u]
    BY <1>4, <2>1 DEF TakesLive, Shape
  <2> HIDE DEF s
  <2>3. at'[t] = "answering" /\ \A u \in Threads \ {t} : at'[u] = at[u]
    BY <1>4 DEF TakesLive, Shape
  <2>4. Entry(t) \in registry
    <3>1. PICK e \in registry : e.stop = s
      BY <1>4, <2>1 DEF TakesLive, Posted, s
    <3>2. QED
      BY <2>1, <3>1, SameStop DEF InStop, s
  <2>5. \A e \in registry : e.thread \in Threads
    BY DEF Shape, Entries
  <2>6. UNCHANGED <<registry, held, minted, stopOf>>
    BY <1>4 DEF TakesLive, away
  <2>7. QED
    BY <2>1, <2>3, <2>4, <2>5, <2>6 DEF Registered, InStop, Entry
<1>5. ASSUME NEW t \in Threads, AnswersHeld(t) PROVE Registered'
  <2>1. at[t] = "answering" /\ at'[t] = "held" /\ \A u \in Threads \ {t} : at'[u] = at[u]
    BY <1>5 DEF AnswersHeld, Shape
  <2>2. \A e \in registry : e.thread \in Threads
    BY DEF Shape, Entries
  <2>3. UNCHANGED <<registry, held, minted, stopOf>>
    BY <1>5 DEF AnswersHeld, place, away
  <2>4. QED
    BY <2>1, <2>2, <2>3 DEF Registered, InStop, Entry
<1>6. ASSUME NEW t \in Threads, Arranges(t) PROVE Registered'
  <2>1. at[t] = "answering" /\ at'[t] = "restarting" /\ \A u \in Threads \ {t} : at'[u] = at[u]
    BY <1>6 DEF Arranges, Shape
  <2>2. registry' = registry \ {Entry(t)} /\ UNCHANGED <<held, minted, stopOf>>
    BY <1>6 DEF Arranges, away
  <2>3. \A e \in registry : e.thread \in Threads /\ (e.thread = t => e = Entry(t))
    BY DEF Registered, Entry, Shape, Entries
  <2>4. \A u \in Threads \ {t} : InStop(u) => Entry(u) # Entry(t)
    BY DEF Entry
  <2>5. QED
    BY <2>1, <2>2, <2>3, <2>4 DEF Registered, InStop, Entry
<1>7. ASSUME NEW t \in Threads, SaysRestarting(t) PROVE Registered'
  BY <1>7 DEF SaysRestarting, Answered, Registered, InStop, Entry, Shape, place, away, own
<1>8. CASE Announces
  BY <1>8 DEF Announces, Registered, InStop, Entry, Shape, place, away, own
<1>9. CASE Exits
  BY <1>9 DEF Exits, Registered, InStop, Entry, Shape, place, away, own
<1>10. CASE RoutesUnheld
  BY <1>10 DEF RoutesUnheld, Routes, Registered, InStop, Entry, Shape, place, away, own
<1>11. CASE LetsGoOf
  <2>1. \A u \in Threads : at[u] \in {"entering", "answering"} => Entry(u) \notin asked.names
    BY <1>11 DEF LetsGoOf, Routes, Registered, OnlyAt, OnlyIn
  <2>2. registry' = registry \ asked.names /\ UNCHANGED <<held, minted, stopOf, at>>
    BY <1>11 DEF LetsGoOf, Routes, away
  <2>3. QED
    BY <2>1, <2>2 DEF Registered, InStop, Entry
<1>12. CASE RoutesPause
  BY <1>12 DEF RoutesPause, Routes, Registered, InStop, Entry, Shape, place, away, own
<1>13. CASE SaysResumed
  BY <1>13 DEF SaysResumed, Answered, Registered, InStop, Entry, Shape, place, away, own
<1>14. ASSUME NEW e \in Entries, RoutesTo(e) PROVE Registered'
  BY <1>14 DEF RoutesTo, Routes, Registered, InStop, Entry, Shape, place, away, own
<1>15. ASSUME NEW e \in Entries, Posts(e) PROVE Registered'
  BY <1>15 DEF Posts, Registered, InStop, Entry, Shape, place, away, own
<1>16. ASSUME NEW e \in Entries, Learns(e) PROVE Registered'
  <2>1. e \in registry /\ at[e.thread] # "entering"
    <3>1. 1 \in Queued
      BY <1>16, Shrunk DEF Learns, Hears
    <3>2. PICK f \in registry : Told(1, f) /\ at[f.thread] # "entering"
      BY <1>16, <3>1 DEF Learns, Hears, Told, Telling, News
    <3>3. e = f
      BY <1>16, <3>2 DEF Learns, Hears, Told
    <3>4. QED
      BY <1>16, <3>2, <3>3 DEF Learns, Hears
  <2>2. held' = held \cup {e} /\ UNCHANGED <<registry, minted, stopOf, at>>
    BY <1>16 DEF Learns, Hears, place
  <2>3. \A u \in Threads : Entry(u)' = Entry(u) /\ Entry(u).thread = u
    BY <2>2 DEF Entry
  <2>4. QED
    BY <2>1, <2>2, <2>3 DEF Registered, InStop
<1>17. CASE TakesUnheld
  BY <1>17 DEF TakesUnheld, Registered, InStop, Entry, Shape, place, away, own
<1>18. CASE AnswersUnheld
  BY <1>18 DEF AnswersUnheld, Answered, Reply, Registered, InStop, Entry, Shape, place, away, own
<1>19. CASE SaysPausing
  BY <1>19 DEF SaysPausing, Answered, Reply, Registered, InStop, Entry, Shape, place, away, own
<1>20. CASE Makes
  BY <1>20 DEF Makes, Registered, InStop, Entry, Shape, place, away, own
<1>21. CASE Passes
  BY <1>21 DEF Passes, Hears, Registered, InStop, Entry, Shape, place, away, own
<1>22. CASE Hands
  BY <1>22 DEF Hands, Hears, Registered, InStop, Entry, Shape, place, away, own
<1>23. CASE Waits
  BY <1>23 DEF Waits, Registered, InStop, Entry, Shape, place, away, own
<1>24. CASE Rests
  BY <1>24 DEF Rests, Registered, InStop, Entry, Shape, place, away, own
<1>25. QED
  BY <1>1, <1>2, <1>3, <1>4, <1>5, <1>6, <1>7, <1>8, <1>9, <1>10, <1>11, <1>12, <1>13, <1>14, <1>15, <1>16, <1>17, <1>18, <1>19, <1>20, <1>21, <1>22, <1>23, <1>24 DEF Moves

\* Whom the reader wakes waits for it.
LEMMA WokenStep == ASSUME Shape, Shape', Going, Moves PROVE Woken'
<1> AskedIsHeld /\ Posted /\ Woken /\ Once /\ Registered
  BY DEF Going
<1> PICK w \in Places : OnlyAt(w)
  BY DEF Going, OnTheWay
<1>1. ASSUME NEW t \in Threads, Enters(t) PROVE Woken'
  BY <1>1 DEF Enters, Woken, Registered, InStop, Shape, TypedReader, Entries, Live, LetGoAsks, place, away, own
<1>2. ASSUME NEW t \in Threads, SaysStopped(t) PROVE Woken'
  BY <1>2 DEF SaysStopped, Woken, Registered, InStop, Shape, TypedReader, Entries, Live, LetGoAsks, place, away, own
<1>3. ASSUME NEW t \in Threads, TakesLetGo(t) PROVE Woken'
  <2> DEFINE s == stopOf[t]
  <2>1. s \in Stops /\ at[t] = "held" /\ mailbox[s] # <<>>
    BY <1>3 DEF TakesLetGo, Registered, InStop
  <2>2. mailbox'[s] = <<>> /\ \A u \in Stops \ {s} : mailbox'[u] = mailbox[u]
    BY <1>3, <2>1 DEF TakesLetGo, Shape
  <2> HIDE DEF s
  <2>3. \A e \in Entries : mailbox[e.stop] = <<>> /\ at[e.thread] = "held" /\ stopOf[e.thread] = e.stop =>
            mailbox'[e.stop] = <<>> /\ at'[e.thread] = "held"
    <3>1. ASSUME NEW e \in Entries, mailbox[e.stop] = <<>>, at[e.thread] = "held", stopOf[e.thread] = e.stop
          PROVE  mailbox'[e.stop] = <<>> /\ at'[e.thread] = "held"
      <4>1. e.stop \in Stops /\ e.thread \in Threads /\ e.stop # s /\ e.thread # t
        BY <2>1, <3>1 DEF Entries, s
      <4>2. QED
        BY <1>3, <2>2, <3>1, <4>1 DEF TakesLetGo, Shape
    <3>2. QED
      BY <3>1
  <2>4. reader.to \subseteq Entries /\ UNCHANGED <<registry, stopOf, reader>>
    BY <1>3 DEF TakesLetGo, Shape, TypedReader
  <2>5. QED
    BY <2>3, <2>4 DEF Woken
<1>4. ASSUME NEW t \in Threads, TakesLive(t) PROVE Woken'
  <2> DEFINE s == stopOf[t]
  <2>1. s \in Stops /\ at[t] = "held" /\ mailbox[s] # <<>>
    BY <1>4 DEF TakesLive, Registered, InStop
  <2>2. mailbox'[s] = <<>> /\ \A u \in Stops \ {s} : mailbox'[u] = mailbox[u]
    BY <1>4, <2>1 DEF TakesLive, Shape
  <2> HIDE DEF s
  <2>3. \A e \in Entries : mailbox[e.stop] = <<>> /\ at[e.thread] = "held" /\ stopOf[e.thread] = e.stop =>
            mailbox'[e.stop] = <<>> /\ at'[e.thread] = "held"
    <3>1. ASSUME NEW e \in Entries, mailbox[e.stop] = <<>>, at[e.thread] = "held", stopOf[e.thread] = e.stop
          PROVE  mailbox'[e.stop] = <<>> /\ at'[e.thread] = "held"
      <4>1. e.stop \in Stops /\ e.thread \in Threads /\ e.stop # s /\ e.thread # t
        BY <2>1, <3>1 DEF Entries, s
      <4>2. QED
        BY <1>4, <2>2, <3>1, <4>1 DEF TakesLive, Shape
    <3>2. QED
      BY <3>1
  <2>4. reader.to \subseteq Entries /\ UNCHANGED <<registry, stopOf, reader>>
    BY <1>4 DEF TakesLive, Shape, TypedReader
  <2>5. QED
    BY <2>3, <2>4 DEF Woken
<1>5. ASSUME NEW t \in Threads, AnswersHeld(t) PROVE Woken'
  BY <1>5 DEF AnswersHeld, Answered, Reply, Woken, Registered, InStop, Shape, TypedReader, Entries, Live, LetGoAsks, place, away, own
<1>6. ASSUME NEW t \in Threads, Arranges(t) PROVE Woken'
  BY <1>6 DEF Arranges, Woken, Registered, InStop, Shape, TypedReader, Entries, Live, LetGoAsks, place, away, own
<1>7. ASSUME NEW t \in Threads, SaysRestarting(t) PROVE Woken'
  BY <1>7 DEF SaysRestarting, Answered, Woken, Registered, InStop, Shape, TypedReader, Entries, Live, LetGoAsks, place, away, own
<1>8. CASE Announces
  BY <1>8 DEF Announces, Woken, Registered, InStop, Shape, TypedReader, Entries, Live, LetGoAsks, place, away, own
<1>9. CASE Exits
  BY <1>9 DEF Exits, Woken, Registered, InStop, Shape, TypedReader, Entries, Live, LetGoAsks, place, away, own
<1>10. CASE RoutesUnheld
  BY <1>10 DEF RoutesUnheld, Routes, Woken, Registered, InStop, Shape, TypedReader, Entries, Live, LetGoAsks, place, away, own
<1>11. CASE LetsGoOf
  <2>1. w = "requests" /\ asked.kind \in LetGoAsks /\ asked.names # {} /\ asked.names \subseteq registry \cap held
    BY <1>11 DEF LetsGoOf, Routes, OnlyAt, OnlyIn, LetGoAsks
  <2>2. ASSUME NEW e \in asked.names
        PROVE  /\ at[e.thread] = "held" /\ stopOf[e.thread] = e.stop /\ mailbox[e.stop] = <<>>
    <3>1. e \in registry /\ e \in held /\ e.thread \in Threads /\ e.stop \in Stops /\ e = [stop |-> e.stop, thread |-> e.thread]
      BY <2>1 DEF Shape, Entries
    <3>2. stopOf[e.thread] = e.stop /\ Entry(e.thread) = e
      BY <3>1 DEF Registered, Entry
    <3>3. at[e.thread] = "held"
      BY <2>1, <3>1, <3>2 DEF Registered, OnlyAt, OnlyIn
    <3>4. mailbox[e.stop] = <<>>
      BY <2>1, <3>1 DEF Posted, OnlyAt, OnlyIn
    <3>5. QED
      BY <3>2, <3>3, <3>4
  <2>3. /\ registry' = registry \ asked.names /\ UNCHANGED <<at, stopOf, mailbox>>
        /\ reader' = [doing |-> "telling", request |-> asked, to |-> asked.names]
    BY <1>11 DEF LetsGoOf, Routes
  <2>4. QED
    BY <2>1, <2>2, <2>3 DEF Woken, Live
<1>12. CASE RoutesPause
  BY <1>12 DEF RoutesPause, Routes, Woken, Registered, InStop, Shape, TypedReader, Entries, Live, LetGoAsks, place, away, own
<1>13. CASE SaysResumed
  BY <1>13 DEF SaysResumed, Answered, Woken, Registered, InStop, Shape, TypedReader, Entries, Live, LetGoAsks, place, away, own
<1>14. ASSUME NEW e \in Entries, RoutesTo(e) PROVE Woken'
  BY <1>14 DEF RoutesTo, Routes, Woken, Registered, InStop, Shape, TypedReader, Entries, Live, LetGoAsks, place, away, own
<1>15. ASSUME NEW e \in Entries, Posts(e) PROVE Woken'
  <2>1. CASE reader'.doing = "reading"
    BY <2>1 DEF Woken
  <2>2. CASE reader'.doing = "posting"
    <3>1. ~Live(reader.request) /\ reader.doing = "posting" /\ e \in reader.to /\ reader'.request = reader.request
      BY <1>15, <2>2 DEF Posts
    <3>2. ASSUME NEW f \in reader.to, f # e PROVE mailbox'[f.stop] = <<>> /\ f.stop # e.stop
      <4>1. f \in Entries /\ e \in Entries
        BY DEF Shape, TypedReader
      <4>2. at[f.thread] = "held" /\ stopOf[f.thread] = f.stop /\ mailbox[f.stop] = <<>> /\ at[e.thread] = "held" /\ stopOf[e.thread] = e.stop
        BY <3>1 DEF Woken
      <4>3. f.stop # e.stop
        BY <3>2, <4>1, <4>2 DEF Registered, InStop, Entries
      <4>4. QED
        BY <1>15, <4>1, <4>2, <4>3 DEF Posts, Entries, Shape
    <3>3. UNCHANGED <<registry, stopOf, at>> /\ reader'.to = reader.to \ {e}
      BY <1>15 DEF Posts
    <3>4. QED
      BY <2>2, <3>1, <3>2, <3>3 DEF Woken
  <2>3. QED
    BY <1>15, <2>1, <2>2 DEF Posts
<1>16. ASSUME NEW e \in Entries, Learns(e) PROVE Woken'
  BY <1>16 DEF Learns, Hears, Woken, Registered, InStop, Shape, TypedReader, Entries, Live, LetGoAsks, place, away, own
<1>17. CASE TakesUnheld
  BY <1>17 DEF TakesUnheld, Woken, Registered, InStop, Shape, TypedReader, Entries, Live, LetGoAsks, place, away, own
<1>18. CASE AnswersUnheld
  BY <1>18 DEF AnswersUnheld, Answered, Reply, Woken, Registered, InStop, Shape, TypedReader, Entries, Live, LetGoAsks, place, away, own
<1>19. CASE SaysPausing
  BY <1>19 DEF SaysPausing, Answered, Reply, Woken, Registered, InStop, Shape, TypedReader, Entries, Live, LetGoAsks, place, away, own
<1>20. CASE Makes
  BY <1>20 DEF Makes, Woken, Registered, InStop, Shape, TypedReader, Entries, Live, LetGoAsks, place, away, own
<1>21. CASE Passes
  BY <1>21 DEF Passes, Hears, Woken, Registered, InStop, Shape, TypedReader, Entries, Live, LetGoAsks, place, away, own
<1>22. CASE Hands
  BY <1>22 DEF Hands, Hears, Woken, Registered, InStop, Shape, TypedReader, Entries, Live, LetGoAsks, place, away, own
<1>23. CASE Waits
  BY <1>23 DEF Waits, Woken, Registered, InStop, Shape, TypedReader, Entries, Live, LetGoAsks, place, away, own
<1>24. CASE Rests
  BY <1>24 DEF Rests, Woken, Registered, InStop, Shape, TypedReader, Entries, Live, LetGoAsks, place, away, own
<1>25. QED
  BY <1>1, <1>2, <1>3, <1>4, <1>5, <1>6, <1>7, <1>8, <1>9, <1>10, <1>11, <1>12, <1>13, <1>14, <1>15, <1>16, <1>17, <1>18, <1>19, <1>20, <1>21, <1>22, <1>23, <1>24 DEF Moves

\* What is posted has a thread to take it.
LEMMA PostedStep == ASSUME Shape, Shape', Going, Moves PROVE Posted'
<1> AskedIsHeld /\ Posted /\ Woken /\ Once /\ Registered
  BY DEF Going
<1> PICK w \in Places : OnlyAt(w)
  BY DEF Going, OnTheWay
<1>1. ASSUME NEW t \in Threads, Enters(t) PROVE Posted'
  <2> DEFINE new == [stop |-> minted + 1, thread |-> t]
  <2>1. /\ at[t] = "running" /\ at' = [at EXCEPT ![t] = "entering"]
        /\ stopOf' = [stopOf EXCEPT ![t] = minted + 1]
        /\ registry' = registry \cup {new} /\ UNCHANGED <<mailbox, reader, asked>>
    BY <1>1 DEF Enters, away
  <2>2. /\ at'[t] = "entering" /\ stopOf'[t] = minted + 1
        /\ \A u \in Threads \ {t} : at'[u] = at[u] /\ stopOf'[u] = stopOf[u]
    BY <2>1 DEF Shape
  <2>3. new.stop = minted + 1 /\ minted \in Nat
    BY DEF Shape
  <2> HIDE DEF new
  <2>4. \A u \in Threads : stopOf[u] \in Nat /\ stopOf[u] <= minted
    BY DEF Shape, Registered
  <2>5. ASSUME NEW s \in Stops, mailbox[s] # <<>>
        PROVE  /\ Len(mailbox'[s]) = 1
               /\ IF Live(mailbox'[s][1])
                  THEN \E e \in registry' : e.stop = s /\ (asked'.kind \in StopAsks => asked'.names = {e})
                  ELSE /\ \E u \in Threads : at'[u] = "held" /\ stopOf'[u] = s
                       /\ \A e \in registry' : e.stop # s
    <3>1. Len(mailbox[s]) = 1
      BY <2>5 DEF Posted
    <3>2. CASE Live(mailbox[s][1])
      BY <2>1, <2>5, <3>1, <3>2 DEF Posted
    <3>3. CASE ~Live(mailbox[s][1])
      <4>1. PICK u \in Threads : at[u] = "held" /\ stopOf[u] = s
        BY <2>5, <3>3 DEF Posted
      <4>2. u # t /\ s # minted + 1
        BY <2>1, <2>3, <2>4, <4>1
      <4>3. \A e \in registry : e.stop # s
        BY <2>5, <3>3 DEF Posted
      <4>4. QED
        BY <2>1, <2>2, <2>3, <3>1, <3>3, <4>1, <4>2, <4>3
    <3>4. QED
      BY <3>2, <3>3
  <2>6. \A u \in Threads : at'[u] \in {"answering", "restarting"} => u # t /\ Entry(u)' = Entry(u)
    BY <2>2 DEF Entry
  <2>7. QED
    BY <2>1, <2>2, <2>5, <2>6 DEF Posted
<1>2. ASSUME NEW t \in Threads, SaysStopped(t) PROVE Posted'
  BY <1>2 DEF SaysStopped, Posted, OnlyAt, OnlyIn, Registered, InStop, Entry, place, away, own
<1>3. ASSUME NEW t \in Threads, TakesLetGo(t) PROVE Posted'
  <2> DEFINE s == stopOf[t]
  <2>1. s \in Stops /\ at[t] = "held" /\ mailbox[s] # <<>>
    BY <1>3 DEF TakesLetGo, Registered, InStop
  <2>2. mailbox'[s] = <<>> /\ \A u \in Stops \ {s} : mailbox'[u] = mailbox[u]
    BY <1>3, <2>1 DEF TakesLetGo, Shape
  <2> HIDE DEF s
  <2>3. \A u \in Stops : mailbox'[u] # <<>> => u # s /\ mailbox'[u] = mailbox[u]
    BY <2>2
  <2>4. at'[t] = "running" /\ \A u \in Threads \ {t} : at'[u] = at[u]
    BY <1>3 DEF TakesLetGo, Shape
  <2>5. UNCHANGED <<registry, stopOf, reader, asked>>
    BY <1>3 DEF TakesLetGo, away
  <2>6. \A u \in Stops : mailbox'[u] # <<>> =>
          \A v \in Threads : at[v] = "held" /\ stopOf[v] = u => at'[v] = "held"
    BY <2>3, <2>4 DEF s
  <2>7. \A u \in Threads : at'[u] \in {"answering", "restarting"} =>
          at'[u] = at[u] /\ stopOf[u] \in Stops /\ mailbox[stopOf[u]] = <<>>
    BY <2>4 DEF Posted, Registered, InStop
  <2>8. \A u \in Stops : mailbox[u] = <<>> => mailbox'[u] = <<>>
    BY <2>2
  <2>9. QED
    BY <2>3, <2>5, <2>6, <2>7, <2>8 DEF Posted, Entry
<1>4. ASSUME NEW t \in Threads, TakesLive(t) PROVE Posted'
  <2> DEFINE s == stopOf[t]
  <2>1. s \in Stops /\ at[t] = "held" /\ mailbox[s] # <<>>
    BY <1>4 DEF TakesLive, Registered, InStop
  <2>2. mailbox'[s] = <<>> /\ \A u \in Stops \ {s} : mailbox'[u] = mailbox[u]
    BY <1>4, <2>1 DEF TakesLive, Shape
  <2> HIDE DEF s
  <2>3. \A u \in Stops : mailbox'[u] # <<>> => u # s /\ mailbox'[u] = mailbox[u]
    BY <2>2
  <2>4. at'[t] = "answering" /\ \A u \in Threads \ {t} : at'[u] = at[u]
    BY <1>4 DEF TakesLive, Shape
  <2>5. UNCHANGED <<registry, stopOf, reader, asked>>
    BY <1>4 DEF TakesLive, away
  <2>6. \A u \in Stops : mailbox'[u] # <<>> =>
          \A v \in Threads : at[v] = "held" /\ stopOf[v] = u => at'[v] = "held"
    BY <2>3, <2>4 DEF s
  <2>7. \A u \in Threads : at'[u] \in {"answering", "restarting"} => u = t
    BY <1>4, <2>1, <2>4 DEF TakesLive, OnlyAt, OnlyIn, s
  <2>8. asked.kind \in StopAsks => asked.names = {Entry(t)}
    <3>1. PICK e \in registry : e.stop = s /\ (asked.kind \in StopAsks => asked.names = {e})
      BY <1>4, <2>1 DEF TakesLive, Posted, s
    <3>2. e = Entry(t)
      BY <2>1, <3>1, SameStop DEF InStop, s
    <3>3. QED
      BY <3>1, <3>2
  <2>9. \A u \in Threads : at'[u] \in {"answering", "restarting"} => mailbox'[stopOf'[u]] = <<>>
    BY <2>2, <2>5, <2>7 DEF s
  <2>10. QED
    BY <2>3, <2>5, <2>6, <2>7, <2>8, <2>9 DEF Posted, Entry
<1>5. ASSUME NEW t \in Threads, AnswersHeld(t) PROVE Posted'
  BY <1>5 DEF AnswersHeld, Answered, Reply, Posted, OnlyAt, OnlyIn, Registered, InStop, Entry, place, away, own
<1>6. ASSUME NEW t \in Threads, Arranges(t) PROVE Posted'
  BY <1>6 DEF Arranges, Posted, OnlyAt, OnlyIn, Registered, InStop, Entry, place, away, own
<1>7. ASSUME NEW t \in Threads, SaysRestarting(t) PROVE Posted'
  BY <1>7 DEF SaysRestarting, Answered, Posted, OnlyAt, OnlyIn, Registered, InStop, Entry, place, away, own
<1>8. CASE Announces
  BY <1>8 DEF Announces, Posted, OnlyAt, OnlyIn, Registered, InStop, Entry, place, away, own
<1>9. CASE Exits
  BY <1>9 DEF Exits, Posted, OnlyAt, OnlyIn, Registered, InStop, Entry, place, away, own
<1>10. CASE RoutesUnheld
  BY <1>10 DEF RoutesUnheld, Routes, Posted, OnlyAt, OnlyIn, Registered, InStop, Entry, place, away, own
<1>11. CASE LetsGoOf
  BY <1>11 DEF LetsGoOf, Routes, Posted, OnlyAt, OnlyIn, Registered, InStop, Entry, place, away, own
<1>12. CASE RoutesPause
  BY <1>12 DEF RoutesPause, Routes, Posted, OnlyAt, OnlyIn, Registered, InStop, Entry, place, away, own
<1>13. CASE SaysResumed
  <2>1. ~Live(asked)
    BY <1>13 DEF SaysResumed, Answered, Live, LetGoAsks
  <2>2. reader'.request = asked /\ UNCHANGED <<registry, mailbox, stopOf, at, asked>>
    BY <1>13 DEF SaysResumed, Answered, place, away
  <2>3. QED
    BY <2>1, <2>2 DEF Posted, Entry
<1>14. ASSUME NEW e \in Entries, RoutesTo(e) PROVE Posted'
  BY <1>14 DEF RoutesTo, Routes, Posted, OnlyAt, OnlyIn, Registered, InStop, Entry, place, away, own
<1>15. ASSUME NEW e \in Entries, Posts(e) PROVE Posted'
  <2> DEFINE s == e.stop
  <2>1. s \in Stops /\ mailbox'[s] = <<reader.request>> /\ \A u \in Stops \ {s} : mailbox'[u] = mailbox[u]
    BY <1>15 DEF Posts, Entries, Shape
  <2>2. UNCHANGED <<registry, stopOf, at, asked>> /\ reader.doing = "posting" /\ e \in reader.to
    BY <1>15 DEF Posts, away
  <2>3. reader'.doing = "posting" => ~Live(reader'.request)
    BY <1>15 DEF Posts
  <2> HIDE DEF s
  <2>4. CASE Live(reader.request)
    <3>1. w = "reader" /\ e \in registry /\ (asked.kind \in StopAsks => asked.names = {e})
      BY <2>2, <2>4 DEF OnlyAt, OnlyIn, Posted
    <3>2. \A u \in Threads : at[u] \notin {"answering", "restarting"}
      BY <3>1 DEF OnlyAt, OnlyIn
    <3>3. Len(<<reader.request>>) = 1 /\ <<reader.request>>[1] = reader.request
      OBVIOUS
    <3>4. ASSUME NEW u \in Stops, mailbox'[u] # <<>>
          PROVE  /\ Len(mailbox'[u]) = 1
                 /\ IF Live(mailbox'[u][1])
                    THEN \E f \in registry' : f.stop = u /\ (asked'.kind \in StopAsks => asked'.names = {f})
                    ELSE /\ \E t \in Threads : at'[t] = "held" /\ stopOf'[t] = u
                         /\ \A f \in registry' : f.stop # u
      <4>1. CASE u = s
        BY <2>1, <2>2, <2>4, <3>1, <3>3, <4>1 DEF s
      <4>2. CASE u # s
        BY <2>1, <2>2, <3>4, <4>2 DEF Posted
      <4>3. QED
        BY <4>1, <4>2
    <3>5. QED
      BY <2>2, <2>3, <3>2, <3>4 DEF Posted
  <2>5. CASE ~Live(reader.request)
    <3>1. at[e.thread] = "held" /\ stopOf[e.thread] = s /\ e \notin registry /\ e.thread \in Threads
      BY <2>2, <2>5 DEF Woken, Entries, s
    <3>2. ASSUME NEW f \in registry, f.stop = s PROVE FALSE
      <4>1. f = Entry(e.thread)
        BY <3>1, <3>2, SameStop DEF InStop
      <4>2. e = Entry(e.thread)
        BY <3>1 DEF Entry, Entries, s
      <4>3. QED
        BY <3>1, <4>1, <4>2
    <3>3. \A u \in Threads : at[u] \in {"answering", "restarting"} => stopOf[u] # s /\ stopOf[u] \in Stops
      BY <3>1 DEF Registered, InStop
    <3>4. Len(<<reader.request>>) = 1 /\ <<reader.request>>[1] = reader.request
      OBVIOUS
    <3>5. ASSUME NEW u \in Stops, mailbox'[u] # <<>>
          PROVE  /\ Len(mailbox'[u]) = 1
                 /\ IF Live(mailbox'[u][1])
                    THEN \E f \in registry' : f.stop = u /\ (asked'.kind \in StopAsks => asked'.names = {f})
                    ELSE /\ \E t \in Threads : at'[t] = "held" /\ stopOf'[t] = u
                         /\ \A f \in registry' : f.stop # u
      <4>1. CASE u = s
        BY <2>1, <2>2, <2>5, <3>1, <3>2, <3>4, <4>1
      <4>2. CASE u # s
        BY <2>1, <2>2, <3>5, <4>2 DEF Posted
      <4>3. QED
        BY <4>1, <4>2
    <3>6. \A u \in Threads : at'[u] \in {"answering", "restarting"} => mailbox'[stopOf'[u]] = <<>>
      BY <2>1, <2>2, <3>3 DEF Posted
    <3>7. QED
      BY <2>2, <2>3, <3>5, <3>6 DEF Posted, Entry
  <2>6. QED
    BY <2>4, <2>5
<1>16. ASSUME NEW e \in Entries, Learns(e) PROVE Posted'
  BY <1>16 DEF Learns, Hears, Posted, OnlyAt, OnlyIn, Registered, InStop, Entry, place, away, own
<1>17. CASE TakesUnheld
  BY <1>17 DEF TakesUnheld, Posted, OnlyAt, OnlyIn, Registered, InStop, Entry, place, away, own
<1>18. CASE AnswersUnheld
  BY <1>18 DEF AnswersUnheld, Answered, Reply, Posted, OnlyAt, OnlyIn, Registered, InStop, Entry, place, away, own
<1>19. CASE SaysPausing
  BY <1>19 DEF SaysPausing, Answered, Reply, Posted, OnlyAt, OnlyIn, Registered, InStop, Entry, place, away, own
<1>20. CASE Makes
  BY <1>20 DEF Makes, Posted, OnlyAt, OnlyIn, Registered, InStop, Entry, place, away, own
<1>21. CASE Passes
  BY <1>21 DEF Passes, Hears, Posted, OnlyAt, OnlyIn, Registered, InStop, Entry, place, away, own
<1>22. CASE Hands
  <2>1. 1 \in Queued
    BY <1>22, Shrunk DEF Hands, Hears
  <2>2. w = "messages"
    BY <1>22, <2>1 DEF Hands, Hears, OnlyAt, OnlyBack
  <2>3. UNCHANGED <<registry, mailbox, stopOf, at, reader>>
    BY <1>22 DEF Hands, Hears, place
  <2>4. \A s \in Stops : mailbox[s] # <<>> => ~Live(mailbox[s][1])
    BY <2>2 DEF OnlyAt, OnlyIn
  <2>5. ~(reader.doing = "posting" /\ Live(reader.request)) /\ \A t \in Threads : at[t] # "answering"
    BY <2>2 DEF OnlyAt, OnlyIn
  <2>6. QED
    BY <2>3, <2>4, <2>5 DEF Posted
<1>23. CASE Waits
  BY <1>23 DEF Waits, Posted, OnlyAt, OnlyIn, Registered, InStop, Entry, place, away, own
<1>24. CASE Rests
  BY <1>24 DEF Rests, Posted, OnlyAt, OnlyIn, Registered, InStop, Entry, place, away, own
<1>25. QED
  BY <1>1, <1>2, <1>3, <1>4, <1>5, <1>6, <1>7, <1>8, <1>9, <1>10, <1>11, <1>12, <1>13, <1>14, <1>15, <1>16, <1>17, <1>18, <1>19, <1>20, <1>21, <1>22, <1>23, <1>24 DEF Moves

-----------------------------------------------------------------------------
\* What was let go and where it is said, when a step neither lets go nor
\* answers nor hands on.
LEMMA LeavesStay ==
    ASSUME Leaves, UNCHANGED <<asked, Leaving>>,
           \A i \in Queued' : Answers(i)' => \E j \in Queued : Answers(j) /\ messages'[i] = messages[j],
           \A j \in Queued : Answers(j) => \E i \in Queued' : Answers(i)',
           reader'.doing = "telling" <=> reader.doing = "telling",
           reader.doing = "telling" => UNCHANGED reader,
           \A t \in Threads : at'[t] = "restarting" <=> at[t] = "restarting",
           \A t \in Threads : at[t] = "restarting" => UNCHANGED Entry(t),
           \A e \in (held \cap registry)', n \in Leaving : e \in held \cap registry \/ n.thread # e.thread
    PROVE  Leaves'
  BY DEF Leaves, LeavingIsHeldUp

\* The same when the answer is said.
LEMMA LeavesAnswered ==
    ASSUME Shape, Leaves, NEW kind \in Reply, NEW names, Answered(kind, names),
           \A i \in Queued : ~Answers(i), UNCHANGED <<asked, held, registry>>,
           names = Leaving, names # {} => kind = Expected(asked.kind),
           reader'.doing # "telling", \A t \in Threads : at'[t] # "restarting", asked.serial # Nobody
    PROVE  Leaves'
<1>1. /\ Queued' = Queued \cup {Len(messages) + 1}
      /\ \A i \in Queued : messages'[i] = messages[i]
      /\ messages'[Len(messages) + 1] = [kind |-> kind, for |-> asked.serial, names |-> names]
  BY AnsweredLast
<1>2. ASSUME NEW i \in Queued', Answers(i)' PROVE messages'[i].names = names /\ messages'[i].kind = kind
  BY <1>1, <1>2 DEF Answers
<1>3. \E i \in Queued' : Answers(i)'
  BY <1>1 DEF Answers
<1>4. Leaving' = Leaving
  BY DEF Leaving
<1>5. QED
  BY <1>2, <1>3, <1>4 DEF Leaves, LeavingIsHeldUp

\* What is queued when nothing is said or read.
LEMMA SameQueue ==
    ASSUME UNCHANGED messages
    PROVE  /\ Queued' = Queued
           /\ \A i \in Queued : Answers(i)' = Answers(i) /\ messages'[i] = messages[i]
           /\ \A i \in Queued, e \in Entries : Told(i, e)' = Told(i, e)
  BY DEF Queued, Answers, Told

\* The stops that are told of, when none is said or learned of.
LEMMA TellingStays ==
    ASSUME Shape, Telling, UNCHANGED <<messages, held>>,
           \A e \in registry \ held : e \in registry' /\ (at[e.thread] # "entering" => at'[e.thread] # "entering"),
           \A e \in registry' : at'[e.thread] # "entering" => e \in registry /\ at[e.thread] # "entering",
           UNCHANGED Leaving \/ \A i \in Queued : ~Answers(i)
    PROVE  Telling'
<1>1. Plain' /\ ToldOnce' /\ AnswersFirst'
  BY SameQueue DEF Telling, Plain, ToldOnce, AnswersFirst
<1>2. News'
  <2>1. ASSUME NEW i \in Queued, messages[i].kind = "Stopped"
        PROVE  ~Answers(i) /\ \E e \in registry' \ held' : Told(i, e)' /\ at'[e.thread] # "entering"
    <3>1. ~Answers(i) /\ \E e \in registry \ held : Told(i, e) /\ at[e.thread] # "entering"
      BY <2>1 DEF Telling, News
    <3>2. PICK e \in registry \ held : Told(i, e) /\ at[e.thread] # "entering"
      BY <3>1
    <3>3. e \in registry' \ held' /\ at'[e.thread] # "entering" /\ Told(i, e)'
      BY <3>2, SameQueue DEF Shape
    <3>4. QED
      BY <3>1, <3>3
  <2>2. QED
    BY <2>1, SameQueue DEF News
<1>3. HeardOf'
  <2>1. ASSUME NEW e \in registry', e \notin held', at'[e.thread] # "entering"
        PROVE  \E i \in Queued' : Told(i, e)'
    <3>1. e \in registry /\ e \in Entries /\ e \notin held /\ at[e.thread] # "entering"
      BY <2>1 DEF Shape
    <3>2. PICK i \in Queued : Told(i, e)
      BY <3>1 DEF Telling, HeardOf
    <3>3. QED
      BY <3>1, <3>2, SameQueue
  <2>2. QED
    BY <2>1 DEF HeardOf
<1>4. QED
  BY <1>1, <1>2, <1>3 DEF Telling

\* What is let go is on its way.
LEMMA LeavesStep == ASSUME Shape, Shape', Going, Moves PROVE Leaves'
<1> AskedIsHeld /\ Posted /\ Woken /\ Once /\ Registered
  BY DEF Going
<1> PICK w \in Places : OnlyAt(w)
  BY DEF Going, OnTheWay
<1> Leaves /\ Telling
  BY DEF Going
<1>1. ASSUME NEW t \in Threads, Enters(t) PROVE Leaves'
  <2>0. registry' = registry \cup {[stop |-> minted + 1, thread |-> t]} /\ UNCHANGED <<held, asked>>
    BY <1>1 DEF Enters, away
  <2> [stop |-> minted + 1, thread |-> t] \notin held
    BY NewIsNotHeld
  <2>1. UNCHANGED <<asked, Leaving>>
    BY <1>1, <2>0 DEF Enters, Leaving, place, away, own
  <2>2. /\ reader'.doing = "telling" <=> reader.doing = "telling"
        /\ reader.doing = "telling" => UNCHANGED reader
        /\ \A u \in Threads : at'[u] = "restarting" <=> at[u] = "restarting"
        /\ \A u \in Threads : at[u] = "restarting" => UNCHANGED Entry(u)
    BY <1>1 DEF Enters, Shape, Entry, place, away, own
  <2>3. /\ \A i \in Queued' : Answers(i)' => \E j \in Queued : Answers(j) /\ messages'[i] = messages[j]
        /\ \A j \in Queued : Answers(j) => \E i \in Queued' : Answers(i)'
    BY <1>1, SameQueue DEF Enters
  <2>4. \A k \in (held \cap registry)', n \in Leaving : k \in held \cap registry \/ n.thread # k.thread
    BY <2>0
  <2>5. QED
    BY <2>1, <2>2, <2>3, <2>4, LeavesStay
<1>2. ASSUME NEW t \in Threads, SaysStopped(t) PROVE Leaves'
  <2>1. UNCHANGED <<asked, Leaving>>
    BY <1>2 DEF SaysStopped, Leaving, place, away, own
  <2>2. /\ reader'.doing = "telling" <=> reader.doing = "telling"
        /\ reader.doing = "telling" => UNCHANGED reader
        /\ \A u \in Threads : at'[u] = "restarting" <=> at[u] = "restarting"
        /\ \A u \in Threads : at[u] = "restarting" => UNCHANGED Entry(u)
    BY <1>2 DEF SaysStopped, Shape, Entry, place, away, own
  <2>3. /\ \A i \in Queued' : Answers(i)' => \E j \in Queued : Answers(j) /\ messages'[i] = messages[j]
        /\ \A j \in Queued : Answers(j) => \E i \in Queued' : Answers(i)'
    <3>1. PICK m : messages' = Append(messages, m) /\ m.for = Nobody
      BY <1>2 DEF SaysStopped
    <3>2. /\ Queued' = Queued \cup {Len(messages) + 1} /\ messages'[Len(messages) + 1] = m
          /\ \A i \in Queued : messages'[i] = messages[i]
      BY <3>1, Grown
    <3>3. QED
      BY <3>1, <3>2 DEF Answers
  <2>4. \A k \in (held \cap registry)', n \in Leaving : k \in held \cap registry \/ n.thread # k.thread
    BY <1>2 DEF SaysStopped, place, away, own
  <2>5. QED
    BY <2>1, <2>2, <2>3, <2>4, LeavesStay
<1>3. ASSUME NEW t \in Threads, TakesLetGo(t) PROVE Leaves'
  <2>1. UNCHANGED <<asked, Leaving>>
    BY <1>3 DEF TakesLetGo, Leaving, place, away, own
  <2>2. /\ reader'.doing = "telling" <=> reader.doing = "telling"
        /\ reader.doing = "telling" => UNCHANGED reader
        /\ \A u \in Threads : at'[u] = "restarting" <=> at[u] = "restarting"
        /\ \A u \in Threads : at[u] = "restarting" => UNCHANGED Entry(u)
    BY <1>3 DEF TakesLetGo, Shape, Entry, place, away, own
  <2>3. /\ \A i \in Queued' : Answers(i)' => \E j \in Queued : Answers(j) /\ messages'[i] = messages[j]
        /\ \A j \in Queued : Answers(j) => \E i \in Queued' : Answers(i)'
    BY <1>3, SameQueue DEF TakesLetGo
  <2>4. \A k \in (held \cap registry)', n \in Leaving : k \in held \cap registry \/ n.thread # k.thread
    BY <1>3 DEF TakesLetGo, place, away, own
  <2>5. QED
    BY <2>1, <2>2, <2>3, <2>4, LeavesStay
<1>4. ASSUME NEW t \in Threads, TakesLive(t) PROVE Leaves'
  <2>1. UNCHANGED <<asked, Leaving>>
    BY <1>4 DEF TakesLive, Leaving, place, away, own
  <2>2. /\ reader'.doing = "telling" <=> reader.doing = "telling"
        /\ reader.doing = "telling" => UNCHANGED reader
        /\ \A u \in Threads : at'[u] = "restarting" <=> at[u] = "restarting"
        /\ \A u \in Threads : at[u] = "restarting" => UNCHANGED Entry(u)
    BY <1>4 DEF TakesLive, Shape, Entry, place, away, own
  <2>3. /\ \A i \in Queued' : Answers(i)' => \E j \in Queued : Answers(j) /\ messages'[i] = messages[j]
        /\ \A j \in Queued : Answers(j) => \E i \in Queued' : Answers(i)'
    BY <1>4, SameQueue DEF TakesLive
  <2>4. \A k \in (held \cap registry)', n \in Leaving : k \in held \cap registry \/ n.thread # k.thread
    BY <1>4 DEF TakesLive, place, away, own
  <2>5. QED
    BY <2>1, <2>2, <2>3, <2>4, LeavesStay
<1>5. ASSUME NEW t \in Threads, AnswersHeld(t) PROVE Leaves'
  <2>1. w = "work" /\ asked.serial # Nobody
    BY <1>5 DEF AnswersHeld, Answered, Reply, OnlyAt, OnlyIn, AskedIsHeld
  <2>2. \A i \in Queued : ~Answers(i)
    BY <2>1 DEF OnlyAt, OnlyBack
  <2>3. Leaving = {}
    <3>1. \A u \in Threads : at[u] # "restarting"
      BY <1>5, <2>1 DEF AnswersHeld, Answered, Reply, OnlyAt, OnlyIn, Once
    <3>2. QED
      BY <2>1, <3>1, NothingLeaves
  <2>4. reader'.doing # "telling" /\ (\A u \in Threads : at'[u] # "restarting") /\ UNCHANGED <<asked, held, registry>>
    BY <1>5, <2>1 DEF AnswersHeld, Answered, Reply, OnlyAt, OnlyIn, Once, Shape, place, away
  <2>5. PICK kind \in Reply : Answered(kind, {})
    BY <1>5 DEF AnswersHeld
  <2>6. QED
    BY <2>1, <2>2, <2>3, <2>4, <2>5, LeavesAnswered
<1>6. ASSUME NEW t \in Threads, Arranges(t) PROVE Leaves'
  <2>1. w = "work" /\ asked.kind \in Asks
    BY <1>6 DEF Arranges, OnlyAt, OnlyIn, AskedIsHeld
  <2>2. Leaving = {}
    <3>1. \A u \in Threads : at[u] # "restarting"
      BY <1>6, <2>1 DEF Arranges, OnlyAt, OnlyIn, Once
    <3>2. QED
      BY <2>1, <3>1, NothingLeaves
  <2>3. \A i \in Queued' : ~Answers(i)'
    BY <1>6, <2>1, SameQueue DEF Arranges, OnlyAt, OnlyBack
  <2>4. {Entry(t)} \subseteq held \cap registry /\ registry' = registry \ {Entry(t)} /\ UNCHANGED <<held, asked>>
    BY <1>6, <2>1 DEF Arranges, OnlyAt, OnlyIn, Posted, AskedIsHeld, Registered, StopAsks, away
  <2>5. Leaving' = {Entry(t)}
    BY <2>2, <2>4 DEF Leaving
  <2>6. \A n \in Leaving', e \in (held \cap registry)' : n.thread # e.thread
    BY <2>4, <2>5, OneStopEach
  <2>7. /\ reader'.doing # "telling"
        /\ \A u \in Threads : at'[u] = "restarting" => u = t /\ Entry(u)' = Entry(t)
        /\ at'[t] = "restarting" /\ asked.kind = "restart"
    BY <1>6, <2>1 DEF Arranges, OnlyAt, OnlyIn, Once, Shape, Entry
  <2>8. QED
    BY <2>3, <2>4, <2>5, <2>6, <2>7 DEF Leaves, LeavingIsHeldUp
<1>7. ASSUME NEW t \in Threads, SaysRestarting(t) PROVE Leaves'
  <2>1. w = "work" /\ asked.serial # Nobody
    BY <1>7 DEF SaysRestarting, Answered, OnlyAt, OnlyIn, AskedIsHeld
  <2>2. \A i \in Queued : ~Answers(i)
    BY <2>1 DEF OnlyAt, OnlyBack
  <2>3. Leaving = {Entry(t)} /\ Expected(asked.kind) = "Restarting"
    BY <1>7 DEF SaysRestarting, Answered, Leaves, Expected
  <2>4. reader'.doing # "telling" /\ (\A u \in Threads : at'[u] # "restarting") /\ UNCHANGED <<asked, held, registry>>
    BY <1>7, <2>1 DEF SaysRestarting, Answered, OnlyAt, OnlyIn, Once, Shape, place, away
  <2>5. "Restarting" \in Reply /\ Answered("Restarting", {Entry(t)})
    BY <1>7, <2>3 DEF SaysRestarting, Reply
  <2>6. QED
    BY <2>1, <2>2, <2>3, <2>4, <2>5, LeavesAnswered
<1>8. CASE Announces
  <2>1. UNCHANGED <<asked, Leaving>>
    BY <1>8 DEF Announces, Leaving, place, away, own
  <2>2. /\ reader'.doing = "telling" <=> reader.doing = "telling"
        /\ reader.doing = "telling" => UNCHANGED reader
        /\ \A u \in Threads : at'[u] = "restarting" <=> at[u] = "restarting"
        /\ \A u \in Threads : at[u] = "restarting" => UNCHANGED Entry(u)
    BY <1>8 DEF Announces, Shape, Entry, place, away, own
  <2>3. /\ \A i \in Queued' : Answers(i)' => \E j \in Queued : Answers(j) /\ messages'[i] = messages[j]
        /\ \A j \in Queued : Answers(j) => \E i \in Queued' : Answers(i)'
    <3>1. PICK m : messages' = Append(messages, m) /\ m.for = Nobody
      BY <1>8 DEF Announces
    <3>2. /\ Queued' = Queued \cup {Len(messages) + 1} /\ messages'[Len(messages) + 1] = m
          /\ \A i \in Queued : messages'[i] = messages[i]
      BY <3>1, Grown
    <3>3. QED
      BY <3>1, <3>2 DEF Answers
  <2>4. \A k \in (held \cap registry)', n \in Leaving : k \in held \cap registry \/ n.thread # k.thread
    BY <1>8 DEF Announces, place, away, own
  <2>5. QED
    BY <2>1, <2>2, <2>3, <2>4, LeavesStay
<1>9. CASE Exits
  <2>1. UNCHANGED <<asked, Leaving>>
    BY <1>9 DEF Exits, Leaving, place, away, own
  <2>2. /\ reader'.doing = "telling" <=> reader.doing = "telling"
        /\ reader.doing = "telling" => UNCHANGED reader
        /\ \A u \in Threads : at'[u] = "restarting" <=> at[u] = "restarting"
        /\ \A u \in Threads : at[u] = "restarting" => UNCHANGED Entry(u)
    BY <1>9 DEF Exits, Shape, Entry, place, away, own
  <2>3. /\ \A i \in Queued' : Answers(i)' => \E j \in Queued : Answers(j) /\ messages'[i] = messages[j]
        /\ \A j \in Queued : Answers(j) => \E i \in Queued' : Answers(i)'
    BY <1>9, SameQueue DEF Exits
  <2>4. \A k \in (held \cap registry)', n \in Leaving : k \in held \cap registry \/ n.thread # k.thread
    BY <1>9 DEF Exits, place, away, own
  <2>5. QED
    BY <2>1, <2>2, <2>3, <2>4, LeavesStay
<1>10. CASE RoutesUnheld
  <2>1. UNCHANGED <<asked, Leaving>>
    BY <1>10 DEF RoutesUnheld, Routes, Leaving, place, away, own
  <2>2. /\ reader'.doing = "telling" <=> reader.doing = "telling"
        /\ reader.doing = "telling" => UNCHANGED reader
        /\ \A u \in Threads : at'[u] = "restarting" <=> at[u] = "restarting"
        /\ \A u \in Threads : at[u] = "restarting" => UNCHANGED Entry(u)
    BY <1>10 DEF RoutesUnheld, Routes, Shape, Entry, place, away, own
  <2>3. /\ \A i \in Queued' : Answers(i)' => \E j \in Queued : Answers(j) /\ messages'[i] = messages[j]
        /\ \A j \in Queued : Answers(j) => \E i \in Queued' : Answers(i)'
    BY <1>10, SameQueue DEF RoutesUnheld, Routes
  <2>4. \A k \in (held \cap registry)', n \in Leaving : k \in held \cap registry \/ n.thread # k.thread
    BY <1>10 DEF RoutesUnheld, Routes, place, away, own
  <2>5. QED
    BY <2>1, <2>2, <2>3, <2>4, LeavesStay
<1>11. CASE LetsGoOf
  <2>1. w = "requests" /\ asked.kind \in Asks
    BY <1>11 DEF LetsGoOf, Routes, OnlyAt, OnlyIn, AskedIsHeld
  <2>2. Leaving = {}
    <3>1. \A u \in Threads : at[u] # "restarting"
      BY <1>11, <2>1 DEF LetsGoOf, Routes, OnlyAt, OnlyIn, Once
    <3>2. QED
      BY <2>1, <3>1, NothingLeaves
  <2>3. \A i \in Queued' : ~Answers(i)'
    BY <1>11, <2>1, SameQueue DEF LetsGoOf, Routes, OnlyAt, OnlyBack
  <2>4. asked.names \subseteq held \cap registry /\ registry' = registry \ asked.names /\ UNCHANGED <<held, asked>>
    BY <1>11, <2>1 DEF LetsGoOf, Routes, OnlyAt, OnlyIn, Posted, AskedIsHeld, Registered, StopAsks, away
  <2>5. Leaving' = asked.names
    BY <2>2, <2>4 DEF Leaving
  <2>6. \A n \in Leaving', e \in (held \cap registry)' : n.thread # e.thread
    BY <2>4, <2>5, OneStopEach
  <2>7. /\ reader'.doing = "telling" /\ reader'.to = asked.names
        /\ \A u \in Threads : at'[u] # "restarting"
    BY <1>11, <2>1 DEF LetsGoOf, Routes, OnlyAt, OnlyIn
  <2>8. QED
    BY <2>3, <2>5, <2>6, <2>7 DEF Leaves, LeavingIsHeldUp
<1>12. CASE RoutesPause
  <2>1. UNCHANGED <<asked, Leaving>>
    BY <1>12 DEF RoutesPause, Routes, Leaving, place, away, own
  <2>2. /\ reader'.doing = "telling" <=> reader.doing = "telling"
        /\ reader.doing = "telling" => UNCHANGED reader
        /\ \A u \in Threads : at'[u] = "restarting" <=> at[u] = "restarting"
        /\ \A u \in Threads : at[u] = "restarting" => UNCHANGED Entry(u)
    BY <1>12 DEF RoutesPause, Routes, Shape, Entry, place, away, own
  <2>3. /\ \A i \in Queued' : Answers(i)' => \E j \in Queued : Answers(j) /\ messages'[i] = messages[j]
        /\ \A j \in Queued : Answers(j) => \E i \in Queued' : Answers(i)'
    BY <1>12, SameQueue DEF RoutesPause, Routes
  <2>4. \A k \in (held \cap registry)', n \in Leaving : k \in held \cap registry \/ n.thread # k.thread
    BY <1>12 DEF RoutesPause, Routes, place, away, own
  <2>5. QED
    BY <2>1, <2>2, <2>3, <2>4, LeavesStay
<1>13. CASE SaysResumed
  <2>1. w = "reader" /\ asked.serial # Nobody
    BY <1>13 DEF SaysResumed, Answered, OnlyAt, OnlyIn, AskedIsHeld
  <2>2. \A i \in Queued : ~Answers(i)
    BY <2>1 DEF OnlyAt, OnlyBack
  <2>3. Leaving = reader.to /\ Expected(asked.kind) = "Resumed"
    BY <1>13 DEF SaysResumed, Answered, Leaves, Expected
  <2>4. reader'.doing # "telling" /\ (\A u \in Threads : at'[u] # "restarting") /\ UNCHANGED <<asked, held, registry>>
    BY <1>13, <2>1 DEF SaysResumed, Answered, OnlyAt, OnlyIn, Once, Shape, place, away
  <2>5. "Resumed" \in Reply /\ Answered("Resumed", reader.to)
    BY <1>13, <2>3 DEF SaysResumed, Reply
  <2>6. QED
    BY <2>1, <2>2, <2>3, <2>4, <2>5, LeavesAnswered
<1>14. ASSUME NEW e \in Entries, RoutesTo(e) PROVE Leaves'
  <2>1. UNCHANGED <<asked, Leaving>>
    BY <1>14 DEF RoutesTo, Routes, Leaving, place, away, own
  <2>2. /\ reader'.doing = "telling" <=> reader.doing = "telling"
        /\ reader.doing = "telling" => UNCHANGED reader
        /\ \A u \in Threads : at'[u] = "restarting" <=> at[u] = "restarting"
        /\ \A u \in Threads : at[u] = "restarting" => UNCHANGED Entry(u)
    BY <1>14 DEF RoutesTo, Routes, Shape, Entry, place, away, own
  <2>3. /\ \A i \in Queued' : Answers(i)' => \E j \in Queued : Answers(j) /\ messages'[i] = messages[j]
        /\ \A j \in Queued : Answers(j) => \E i \in Queued' : Answers(i)'
    BY <1>14, SameQueue DEF RoutesTo, Routes
  <2>4. \A k \in (held \cap registry)', n \in Leaving : k \in held \cap registry \/ n.thread # k.thread
    BY <1>14 DEF RoutesTo, Routes, place, away, own
  <2>5. QED
    BY <2>1, <2>2, <2>3, <2>4, LeavesStay
<1>15. ASSUME NEW e \in Entries, Posts(e) PROVE Leaves'
  <2>1. UNCHANGED <<asked, Leaving>>
    BY <1>15 DEF Posts, Leaving, place, away, own
  <2>2. /\ reader'.doing = "telling" <=> reader.doing = "telling"
        /\ reader.doing = "telling" => UNCHANGED reader
        /\ \A u \in Threads : at'[u] = "restarting" <=> at[u] = "restarting"
        /\ \A u \in Threads : at[u] = "restarting" => UNCHANGED Entry(u)
    BY <1>15 DEF Posts, Shape, Entry, place, away, own
  <2>3. /\ \A i \in Queued' : Answers(i)' => \E j \in Queued : Answers(j) /\ messages'[i] = messages[j]
        /\ \A j \in Queued : Answers(j) => \E i \in Queued' : Answers(i)'
    BY <1>15, SameQueue DEF Posts
  <2>4. \A k \in (held \cap registry)', n \in Leaving : k \in held \cap registry \/ n.thread # k.thread
    BY <1>15 DEF Posts, place, away, own
  <2>5. QED
    BY <2>1, <2>2, <2>3, <2>4, LeavesStay
<1>16. ASSUME NEW e \in Entries, Learns(e) PROVE Leaves'
  <2>0. 1 \in Queued
    BY <1>16, Shrunk DEF Learns, Hears
  <2>1. UNCHANGED <<asked, Leaving>>
    BY <1>16 DEF Learns, Hears, Leaving, place, away, own
  <2>2. /\ reader'.doing = "telling" <=> reader.doing = "telling"
        /\ reader.doing = "telling" => UNCHANGED reader
        /\ \A u \in Threads : at'[u] = "restarting" <=> at[u] = "restarting"
        /\ \A u \in Threads : at[u] = "restarting" => UNCHANGED Entry(u)
    BY <1>16 DEF Learns, Hears, Shape, Entry, place, away, own
  <2>3. /\ \A i \in Queued' : Answers(i)' => \E j \in Queued : Answers(j) /\ messages'[i] = messages[j]
        /\ \A j \in Queued : Answers(j) => \E i \in Queued' : Answers(i)'
    <3>1. /\ \A i \in Queued' : i + 1 \in Queued /\ messages'[i] = messages[i + 1]
          /\ \A i \in Queued : i # 1 => i - 1 \in Queued' /\ messages'[i - 1] = messages[i]
      BY <1>16, Shrunk DEF Learns, Hears
    <3>2. ~Answers(1)
      BY <1>16, <2>0 DEF Learns, Hears, Told, Telling, News
    <3>3. QED
      BY <3>1, <3>2 DEF Answers
  <2>4. \A k \in (held \cap registry)', n \in Leaving : k \in held \cap registry \/ n.thread # k.thread
    <3>1. e \in registry /\ (held \cap registry)' = (held \cap registry) \cup {e}
      BY <1>16 DEF Learns, Hears, place
    <3>2. ASSUME NEW n \in Leaving, n.thread = e.thread PROVE FALSE
      <4>1. /\ n \in Entries /\ n \notin registry /\ stopOf[e.thread] = e.stop
            /\ at[e.thread] \in {"entering", "held", "answering"}
        BY <3>1 DEF Leaving, Shape, Registered
      <4>2. CASE reader.doing = "telling"
        <5>1. n \in reader.to
          BY <4>2 DEF Leaves
        <5>2. stopOf[n.thread] = n.stop
          BY <4>2, <5>1 DEF Woken
        <5>3. n = e
          BY <3>2, <4>1, <5>2 DEF Entries
        <5>4. QED
          BY <3>1, <4>1, <5>3
      <4>3. CASE \E t \in Threads : at[t] = "restarting"
        BY <3>2, <4>1, <4>3 DEF Leaves, Entry
      <4>4. CASE \E i \in Queued : Answers(i)
        <5>1. PICK i \in Queued : Answers(i)
          BY <4>4
        <5>2. Told(1, e) /\ ~Answers(1)
          BY <1>16, <2>0 DEF Learns, Hears, Told, Telling, News
        <5>3. i # 1 /\ i \in Nat \ {0}
          BY <1>16, <5>1, <5>2, Shrunk DEF Learns, Hears
        <5>4. 1 < i
          BY <5>3
        <5>5. QED
          BY <2>0, <3>2, <5>1, <5>2, <5>4 DEF Telling, AnswersFirst
      <4>5. QED
        BY <3>2, <4>2, <4>3, <4>4 DEF Leaves, LeavingIsHeldUp
    <3>3. QED
      BY <3>1, <3>2
  <2>5. QED
    BY <2>1, <2>2, <2>3, <2>4, LeavesStay
<1>17. CASE TakesUnheld
  <2>1. UNCHANGED <<asked, Leaving>>
    BY <1>17 DEF TakesUnheld, Leaving, place, away, own
  <2>2. /\ reader'.doing = "telling" <=> reader.doing = "telling"
        /\ reader.doing = "telling" => UNCHANGED reader
        /\ \A u \in Threads : at'[u] = "restarting" <=> at[u] = "restarting"
        /\ \A u \in Threads : at[u] = "restarting" => UNCHANGED Entry(u)
    BY <1>17 DEF TakesUnheld, Shape, Entry, place, away, own
  <2>3. /\ \A i \in Queued' : Answers(i)' => \E j \in Queued : Answers(j) /\ messages'[i] = messages[j]
        /\ \A j \in Queued : Answers(j) => \E i \in Queued' : Answers(i)'
    BY <1>17, SameQueue DEF TakesUnheld
  <2>4. \A k \in (held \cap registry)', n \in Leaving : k \in held \cap registry \/ n.thread # k.thread
    BY <1>17 DEF TakesUnheld, place, away, own
  <2>5. QED
    BY <2>1, <2>2, <2>3, <2>4, LeavesStay
<1>18. CASE AnswersUnheld
  <2>1. w = "answering" /\ asked.serial # Nobody
    BY <1>18 DEF AnswersUnheld, Answered, Reply, OnlyAt, OnlyIn, AskedIsHeld
  <2>2. \A i \in Queued : ~Answers(i)
    BY <2>1 DEF OnlyAt, OnlyBack
  <2>3. Leaving = {}
    <3>1. \A u \in Threads : at[u] # "restarting"
      BY <1>18, <2>1 DEF AnswersUnheld, Answered, Reply, OnlyAt, OnlyIn, Once
    <3>2. QED
      BY <2>1, <3>1, NothingLeaves
  <2>4. reader'.doing # "telling" /\ (\A u \in Threads : at'[u] # "restarting") /\ UNCHANGED <<asked, held, registry>>
    BY <1>18, <2>1 DEF AnswersUnheld, Answered, Reply, OnlyAt, OnlyIn, Once, Shape, place, away
  <2>5. PICK kind \in Reply : Answered(kind, {})
    BY <1>18 DEF AnswersUnheld
  <2>6. QED
    BY <2>1, <2>2, <2>3, <2>4, <2>5, LeavesAnswered
<1>19. CASE SaysPausing
  <2>1. w = "pausers" /\ asked.serial # Nobody
    BY <1>19 DEF SaysPausing, Answered, Reply, OnlyAt, OnlyIn, AskedIsHeld
  <2>2. \A i \in Queued : ~Answers(i)
    BY <2>1 DEF OnlyAt, OnlyBack
  <2>3. Leaving = {}
    <3>1. \A u \in Threads : at[u] # "restarting"
      BY <1>19, <2>1 DEF SaysPausing, Answered, Reply, OnlyAt, OnlyIn, Once
    <3>2. QED
      BY <2>1, <3>1, NothingLeaves
  <2>4. reader'.doing # "telling" /\ (\A u \in Threads : at'[u] # "restarting") /\ UNCHANGED <<asked, held, registry>>
    BY <1>19, <2>1 DEF SaysPausing, Answered, Reply, OnlyAt, OnlyIn, Once, Shape, place, away
  <2>5. PICK kind \in Reply : Answered(kind, {})
    BY <1>19 DEF SaysPausing
  <2>6. QED
    BY <2>1, <2>2, <2>3, <2>4, <2>5, LeavesAnswered
<1>20. CASE Makes
  <2>1. w = "nowhere"
    BY <1>20 DEF Makes, OnlyAt, OnlyIn
  <2>2. /\ reader.doing # "telling" /\ \A i \in Queued : ~Answers(i)
        /\ \A t \in Threads : at[t] # "restarting"
    BY <2>1 DEF OnlyAt, OnlyIn, OnlyBack
  <2>3. UNCHANGED <<reader, at, held, registry, messages>>
    BY <1>20 DEF Makes, place, own
  <2>4. QED
    BY <2>2, <2>3, SameQueue DEF Leaves, LeavingIsHeldUp, Leaving
<1>21. CASE Passes
  <2>1. UNCHANGED <<asked, Leaving>>
    BY <1>21 DEF Passes, Hears, Leaving, place, away, own
  <2>2. /\ reader'.doing = "telling" <=> reader.doing = "telling"
        /\ reader.doing = "telling" => UNCHANGED reader
        /\ \A u \in Threads : at'[u] = "restarting" <=> at[u] = "restarting"
        /\ \A u \in Threads : at[u] = "restarting" => UNCHANGED Entry(u)
    BY <1>21 DEF Passes, Hears, Shape, Entry, place, away, own
  <2>3. /\ \A i \in Queued' : Answers(i)' => \E j \in Queued : Answers(j) /\ messages'[i] = messages[j]
        /\ \A j \in Queued : Answers(j) => \E i \in Queued' : Answers(i)'
    <3>1. /\ \A i \in Queued' : i + 1 \in Queued /\ messages'[i] = messages[i + 1]
          /\ \A i \in Queued : i # 1 => i - 1 \in Queued' /\ messages'[i - 1] = messages[i]
      BY <1>21, Shrunk DEF Passes, Hears
    <3>2. ~Answers(1)
      BY <1>21 DEF Passes, Hears, Told, Telling, News, Queued, Answers
    <3>3. QED
      BY <3>1, <3>2 DEF Answers
  <2>4. \A k \in (held \cap registry)', n \in Leaving : k \in held \cap registry \/ n.thread # k.thread
    BY <1>21 DEF Passes, Hears, place, away, own
  <2>5. QED
    BY <2>1, <2>2, <2>3, <2>4, LeavesStay
<1>22. CASE Hands
  <2>1. 1 \in Queued /\ w = "messages"
    BY <1>22, Shrunk DEF Hands, Hears, OnlyAt, OnlyBack
  <2>2. \A i \in Queued' : ~Answers(i)'
    <3>1. ASSUME NEW i \in Queued', Answers(i)' PROVE FALSE
      <4>1. i \in Nat \ {0} /\ i + 1 \in Queued /\ Answers(i + 1)
        BY <1>22, <3>1, Shrunk DEF Hands, Hears, Answers
      <4>2. i + 1 = 1
        BY <1>22, <2>1, <4>1 DEF Hands, Once
      <4>3. QED
        BY <4>1, <4>2
    <3>2. QED
      BY <3>1
  <2>3. reader'.doing # "telling" /\ \A u \in Threads : at'[u] # "restarting"
    BY <1>22, <2>1 DEF Hands, Hears, OnlyAt, OnlyIn
  <2>4. Leaving' = {}
    BY <1>22 DEF Hands, Hears, Leaving, place
  <2>5. QED
    BY <2>2, <2>3, <2>4 DEF Leaves, LeavingIsHeldUp
<1>23. CASE Waits
  <2>1. UNCHANGED <<asked, Leaving>>
    BY <1>23 DEF Waits, Leaving, place, away, own
  <2>2. /\ reader'.doing = "telling" <=> reader.doing = "telling"
        /\ reader.doing = "telling" => UNCHANGED reader
        /\ \A u \in Threads : at'[u] = "restarting" <=> at[u] = "restarting"
        /\ \A u \in Threads : at[u] = "restarting" => UNCHANGED Entry(u)
    BY <1>23 DEF Waits, Shape, Entry, place, away, own
  <2>3. /\ \A i \in Queued' : Answers(i)' => \E j \in Queued : Answers(j) /\ messages'[i] = messages[j]
        /\ \A j \in Queued : Answers(j) => \E i \in Queued' : Answers(i)'
    BY <1>23, SameQueue DEF Waits
  <2>4. \A k \in (held \cap registry)', n \in Leaving : k \in held \cap registry \/ n.thread # k.thread
    BY <1>23 DEF Waits, place, away, own
  <2>5. QED
    BY <2>1, <2>2, <2>3, <2>4, LeavesStay
<1>24. CASE Rests
  <2>1. UNCHANGED <<asked, Leaving>>
    BY <1>24 DEF Rests, Leaving, place, away, own
  <2>2. /\ reader'.doing = "telling" <=> reader.doing = "telling"
        /\ reader.doing = "telling" => UNCHANGED reader
        /\ \A u \in Threads : at'[u] = "restarting" <=> at[u] = "restarting"
        /\ \A u \in Threads : at[u] = "restarting" => UNCHANGED Entry(u)
    BY <1>24 DEF Rests, Shape, Entry, place, away, own
  <2>3. /\ \A i \in Queued' : Answers(i)' => \E j \in Queued : Answers(j) /\ messages'[i] = messages[j]
        /\ \A j \in Queued : Answers(j) => \E i \in Queued' : Answers(i)'
    BY <1>24, SameQueue DEF Rests
  <2>4. \A k \in (held \cap registry)', n \in Leaving : k \in held \cap registry \/ n.thread # k.thread
    BY <1>24 DEF Rests, place, away, own
  <2>5. QED
    BY <2>1, <2>2, <2>3, <2>4, LeavesStay
<1>25. QED
  BY <1>1, <1>2, <1>3, <1>4, <1>5, <1>6, <1>7, <1>8, <1>9, <1>10, <1>11, <1>12, <1>13, <1>14, <1>15, <1>16, <1>17, <1>18, <1>19, <1>20, <1>21, <1>22, <1>23, <1>24 DEF Moves

\* The same when something else is said.
LEMMA TellingGrown ==
    ASSUME Shape, Telling, NEW m, messages' = Append(messages, m), m.kind # "Stopped",
           m.for = Nobody => m.kind = "BreakpointsResolved" /\ "setBreakpoints" \notin Asks,
           UNCHANGED <<held, registry>>,
           \A e \in registry : at[e.thread] = "entering" <=> at'[e.thread] = "entering",
           m.for # Nobody => \A j \in Queued, e \in Entries, n \in Leaving : Told(j, e) => e.thread # n.thread
    PROVE  Telling'
<1>1. /\ Queued' = Queued \cup {Len(messages) + 1} /\ messages'[Len(messages) + 1] = m
      /\ \A i \in Queued : messages'[i] = messages[i] /\ i <= Len(messages) /\ i \in Nat
      /\ Len(messages) \in Nat
  BY Grown
<1>2. Plain'
  BY <1>1 DEF Telling, Plain, Answers
<1>3. News'
  BY <1>1 DEF Telling, News, Answers, Told
<1>4. \A i \in Queued', e \in Entries : Told(i, e)' => i \in Queued /\ Told(i, e)
  BY <1>1 DEF Told
<1>5. ToldOnce'
  BY <1>4 DEF Telling, ToldOnce
<1>6. HeardOf'
  <2>1. ASSUME NEW e \in registry, e \notin held, at'[e.thread] # "entering"
        PROVE  \E i \in Queued' : Told(i, e)'
    <3>1. PICK i \in Queued : Told(i, e)
      BY <2>1 DEF Telling, HeardOf
    <3>2. Told(i, e)' /\ i \in Queued'
      BY <1>1, <3>1 DEF Told
    <3>3. QED
      BY <3>2
  <2>2. QED
    BY <2>1 DEF HeardOf
<1>7. AnswersFirst'
  <2>1. ASSUME NEW i \in Queued', NEW j \in Queued', NEW e \in Entries, NEW n \in Leaving,
               Answers(i)', j < i, Told(j, e)'
        PROVE  e.thread # n.thread
    <3>1. j \in Queued /\ Told(j, e)
      BY <1>4, <2>1
    <3>2. CASE i \in Queued
      BY <1>1, <2>1, <3>1, <3>2 DEF Telling, AnswersFirst, Answers
    <3>3. CASE i = Len(messages) + 1
      BY <1>1, <2>1, <3>1, <3>3 DEF Answers
    <3>4. QED
      BY <1>1, <3>2, <3>3
  <2>2. Leaving' = Leaving
    BY DEF Leaving
  <2>3. QED
    BY <2>1, <2>2 DEF AnswersFirst
<1>8. QED
  BY <1>2, <1>3, <1>5, <1>6, <1>7 DEF Telling

\* And when what came first is read.
LEMMA TellingShrunk ==
    ASSUME Shape, Telling, messages # <<>>, messages' = Tail(messages), UNCHANGED <<registry, at>>,
           \A e \in registry \ held : e \notin held' \/ Told(1, e),
           \A e \in registry \cap held : e \in held',
           \A e \in registry : Told(1, e) => e \in held',
           Leaving' \subseteq Leaving
    PROVE  Telling'
<1>1. /\ 1 \in Queued /\ Queued \subseteq Nat \ {0}
      /\ \A i \in Queued' : i \in Nat \ {0} /\ i + 1 \in Queued /\ messages'[i] = messages[i + 1]
      /\ \A i \in Queued : i # 1 => i - 1 \in Queued' /\ messages'[i - 1] = messages[i]
  BY Shrunk
<1>2. /\ \A i \in Queued' : Answers(i)' <=> Answers(i + 1)
      /\ \A i \in Queued', e \in Entries : Told(i, e)' <=> Told(i + 1, e)
      /\ \A i \in Queued, e \in Entries : Told(i, e) /\ i # 1 => Told(i - 1, e)'
  BY <1>1 DEF Answers, Told
<1>3. Plain'
  <2>1. ASSUME NEW i \in Queued', ~Answers(i)'
        PROVE  \/ messages'[i].kind = "Stopped"
               \/ messages'[i].kind = "BreakpointsResolved" /\ "setBreakpoints" \notin Asks
    <3>1. i + 1 \in Queued /\ messages'[i] = messages[i + 1] /\ ~Answers(i + 1)
      BY <1>1, <1>2, <2>1
    <3>2. QED
      BY <3>1 DEF Telling, Plain
  <2>2. QED
    BY <2>1 DEF Plain
<1>4. News'
  <2>1. ASSUME NEW i \in Queued', messages'[i].kind = "Stopped"
        PROVE  ~Answers(i)' /\ \E e \in registry' \ held' : Told(i, e)' /\ at'[e.thread] # "entering"
    <3>0. i \in Nat \ {0} /\ i + 1 \in Queued /\ messages'[i] = messages[i + 1]
      BY <1>1
    <3>1. i + 1 \in Queued /\ messages[i + 1].kind = "Stopped" /\ i + 1 # 1
      <4>1. i + 1 # 1
        BY <3>0
      <4>2. QED
        BY <2>1, <3>0, <4>1
    <3>2. PICK e \in registry \ held : Told(i + 1, e) /\ at[e.thread] # "entering"
      BY <3>1 DEF Telling, News
    <3>3. e \in Entries /\ ~Told(1, e)
      BY <1>1, <3>1, <3>2 DEF Telling, ToldOnce, Shape
    <3>4. ~Answers(i + 1)
      BY <3>1 DEF Telling, News
    <3>5. QED
      BY <1>2, <3>2, <3>3, <3>4
  <2>2. QED
    BY <2>1 DEF News
<1>5. ToldOnce'
  <2>1. ASSUME NEW i \in Queued', NEW j \in Queued', NEW e \in Entries, Told(i, e)', Told(j, e)'
        PROVE  i = j
    <3>1. i + 1 \in Queued /\ j + 1 \in Queued /\ Told(i + 1, e) /\ Told(j + 1, e)
      BY <1>1, <1>2, <2>1
    <3>2. i + 1 = j + 1 /\ i \in Nat /\ j \in Nat
      BY <1>1, <3>1 DEF Telling, ToldOnce
    <3>3. QED
      BY <3>2
  <2>2. QED
    BY <2>1 DEF ToldOnce
<1>6. HeardOf'
  <2>1. ASSUME NEW e \in registry, e \notin held', at[e.thread] # "entering"
        PROVE  \E i \in Queued' : Told(i, e)'
    <3>1. e \in Entries /\ e \notin held /\ ~Told(1, e)
      BY <2>1 DEF Shape
    <3>2. PICK i \in Queued : Told(i, e)
      BY <2>1, <3>1 DEF Telling, HeardOf
    <3>3. i # 1
      BY <3>1, <3>2
    <3>4. i - 1 \in Queued' /\ Told(i - 1, e)'
      BY <1>1, <1>2, <3>1, <3>2, <3>3
    <3>5. QED
      BY <3>4
  <2>2. QED
    BY <2>1 DEF HeardOf
<1>7. AnswersFirst'
  <2>1. ASSUME NEW i \in Queued', NEW j \in Queued', NEW e \in Entries, NEW n \in Leaving',
               Answers(i)', j < i, Told(j, e)'
        PROVE  e.thread # n.thread
    <3>1. i + 1 \in Queued /\ j + 1 \in Queued /\ j + 1 < i + 1 /\ Answers(i + 1) /\ Told(j + 1, e)
      BY <1>1, <1>2, <2>1
    <3>2. QED
      BY <3>1 DEF Telling, AnswersFirst
  <2>2. QED
    BY <2>1 DEF AnswersFirst
<1>8. QED
  BY <1>3, <1>4, <1>5, <1>6, <1>7 DEF Telling

\* What is told is not known yet.
LEMMA TellingStep == ASSUME Shape, Shape', Going, Moves PROVE Telling'
<1> AskedIsHeld /\ Posted /\ Woken /\ Once /\ Registered
  BY DEF Going
<1> PICK w \in Places : OnlyAt(w)
  BY DEF Going, OnTheWay
<1> Leaves /\ Telling
  BY DEF Going
<1>1. ASSUME NEW t \in Threads, Enters(t) PROVE Telling'
  <2>0. registry' = registry \cup {[stop |-> minted + 1, thread |-> t]} /\ UNCHANGED <<held, asked>>
    BY <1>1 DEF Enters, away
  <2> at' = [at EXCEPT ![t] = "entering"] /\ at[t] = "running"
    BY <1>1 DEF Enters
  <2> [stop |-> minted + 1, thread |-> t] \notin held
    BY NewIsNotHeld
  <2>1. UNCHANGED <<messages, held>>
    BY <1>1 DEF Enters, place, away, own
  <2>2. \A k \in registry \ held : k \in registry' /\ (at[k.thread] # "entering" => at'[k.thread] # "entering")
    BY <1>1 DEF Enters, Registered, Entries, Shape, place, away, own
  <2>3. \A k \in registry' : at'[k.thread] # "entering" => k \in registry /\ at[k.thread] # "entering"
    BY <1>1 DEF Enters, Registered, Entries, Shape, place, away, own
  <2>4. UNCHANGED Leaving \/ \A i \in Queued : ~Answers(i)
    BY <1>1, <2>0 DEF Enters, Leaving, place, away, own
  <2>5. QED
    BY <2>1, <2>2, <2>3, <2>4, TellingStays
<1>2. ASSUME NEW t \in Threads, SaysStopped(t) PROVE Telling'
  <2> DEFINE new == Entry(t)
  <2> DEFINE l == Len(messages) + 1
  <2>1. /\ Queued' = Queued \cup {l} /\ l \notin Queued
        /\ \A i \in Queued : messages'[i] = messages[i] /\ i \in Nat /\ i < l
        /\ messages'[l] = [kind |-> "Stopped", for |-> Nobody, names |-> {new}] /\ l \in Nat
    <3>1. messages' = Append(messages, [kind |-> "Stopped", for |-> Nobody, names |-> {new}])
      BY <1>2 DEF SaysStopped
    <3>2. PICK m : /\ messages' = Append(messages, m)
                   /\ m = [kind |-> "Stopped", for |-> Nobody, names |-> {new}]
      BY <3>1
    <3>3. /\ Queued' = Queued \cup {Len(messages) + 1} /\ Len(messages) + 1 \notin Queued
          /\ Len(messages) \in Nat /\ messages'[Len(messages) + 1] = m
          /\ \A i \in Queued : messages'[i] = messages[i] /\ i \in Nat /\ i <= Len(messages)
      BY <3>2, Grown
    <3>4. l \in Nat /\ l = Len(messages) + 1 /\ \A i \in Queued : i < l
      BY <3>3
    <3> HIDE DEF l
    <3>5. messages'[l] = [kind |-> "Stopped", for |-> Nobody, names |-> {new}]
      BY <3>2, <3>3, <3>4
    <3>6. QED
      BY <3>3, <3>4, <3>5
  <2>2. /\ new \in registry /\ new \notin held /\ new \in Entries /\ new.thread = t
    BY <1>2 DEF SaysStopped, Registered, Shape, Entry
  <2>3. /\ at[t] = "entering" /\ at'[t] = "held" /\ \A u \in Threads \ {t} : at'[u] = at[u]
        /\ UNCHANGED <<registry, held, stopOf>>
    BY <1>2 DEF SaysStopped, Shape, place, away
  <2>4. \A e \in registry : e.thread \in Threads /\ (e.thread = t => e = new)
    BY <2>2, OneStopEach DEF Shape, Entries
  <2> HIDE DEF new, l
  <2>5. \A i \in Queued : messages[i].kind = "Stopped" =>
          ~Answers(i) /\ \E e \in registry \ held : Told(i, e) /\ at[e.thread] # "entering" /\ at'[e.thread] # "entering"
    BY <2>3, <2>4 DEF Telling, News
  <2>6. \A i \in Queued : ~Told(i, new)
    <3>1. ASSUME NEW i \in Queued, Told(i, new) PROVE FALSE
      <4>1. PICK e \in registry : Told(i, e) /\ at[e.thread] # "entering"
        BY <2>5, <3>1 DEF Told
      <4>2. e = new
        BY <3>1, <4>1 DEF Told
      <4>3. QED
        BY <2>2, <2>3, <4>1, <4>2
    <3>2. QED
      BY <3>1
  <2>7. \A e \in Entries : (messages'[l].kind = "Stopped" /\ messages'[l].names = {e}) <=> e = new
    BY <2>1
  <2>8. Plain'
    BY <2>1 DEF Telling, Plain, Answers
  <2>9. News'
    <3>1. \A i \in Queued : messages'[i].kind = "Stopped" =>
            /\ messages'[i].for = Nobody
            /\ \E e \in registry \ held : messages'[i].names = {e} /\ at'[e.thread] # "entering"
      BY <2>1, <2>5 DEF Answers, Told
    <3>2. /\ messages'[l].for = Nobody /\ messages'[l].names = {new} /\ at'[new.thread] # "entering"
      BY <2>1, <2>2, <2>3
    <3>3. QED
      BY <2>1, <2>2, <2>3, <3>1, <3>2 DEF News, Told, Answers
  <2>10. ToldOnce'
    BY <2>1, <2>6, <2>7 DEF Telling, ToldOnce, Told
  <2>11. HeardOf'
    BY <2>1, <2>3, <2>4, <2>7 DEF Telling, HeardOf, Told
  <2>12. AnswersFirst'
    <3>1. ASSUME NEW i \in Queued', Answers(i)', NEW j \in Queued', j < i, NEW e \in Entries, Told(j, e)'
          PROVE  i \in Queued /\ j \in Queued /\ Answers(i) /\ Told(j, e)
      <4>1. i # l
        BY <2>1, <3>1 DEF Answers
      <4>2. i \in Queued /\ i < l /\ i \in Nat
        BY <2>1, <4>1
      <4>3. j # l
        BY <3>1, <4>2, <2>1
      <4>4. QED
        BY <2>1, <3>1, <4>2, <4>3 DEF Answers, Told
    <3>2. Leaving' = Leaving
      BY <2>3 DEF Leaving
    <3>3. QED
      BY <3>1, <3>2 DEF Telling, AnswersFirst
  <2>13. QED
    BY <2>8, <2>9, <2>10, <2>11, <2>12 DEF Telling
<1>3. ASSUME NEW t \in Threads, TakesLetGo(t) PROVE Telling'
  <2>1. UNCHANGED <<messages, held>>
    BY <1>3 DEF TakesLetGo, place, away, own
  <2>2. \A k \in registry \ held : k \in registry' /\ (at[k.thread] # "entering" => at'[k.thread] # "entering")
    BY <1>3 DEF TakesLetGo, Registered, Entries, Shape, place, away, own
  <2>3. \A k \in registry' : at'[k.thread] # "entering" => k \in registry /\ at[k.thread] # "entering"
    BY <1>3 DEF TakesLetGo, Registered, Entries, Shape, place, away, own
  <2>4. UNCHANGED Leaving \/ \A i \in Queued : ~Answers(i)
    BY <1>3 DEF TakesLetGo, Leaving, place, away, own
  <2>5. QED
    BY <2>1, <2>2, <2>3, <2>4, TellingStays
<1>4. ASSUME NEW t \in Threads, TakesLive(t) PROVE Telling'
  <2>1. UNCHANGED <<messages, held>>
    BY <1>4 DEF TakesLive, place, away, own
  <2>2. \A k \in registry \ held : k \in registry' /\ (at[k.thread] # "entering" => at'[k.thread] # "entering")
    BY <1>4 DEF TakesLive, Registered, Entries, Shape, place, away, own
  <2>3. \A k \in registry' : at'[k.thread] # "entering" => k \in registry /\ at[k.thread] # "entering"
    BY <1>4 DEF TakesLive, Registered, Entries, Shape, place, away, own
  <2>4. UNCHANGED Leaving \/ \A i \in Queued : ~Answers(i)
    BY <1>4 DEF TakesLive, Leaving, place, away, own
  <2>5. QED
    BY <2>1, <2>2, <2>3, <2>4, TellingStays
<1>5. ASSUME NEW t \in Threads, AnswersHeld(t) PROVE Telling'
  <2>0. asked.serial # Nobody
    BY <1>5 DEF AnswersHeld, Answered, Reply, OnlyAt, OnlyIn, AskedIsHeld
  <2>1. PICK m : /\ messages' = Append(messages, m) /\ m.for = asked.serial
                 /\ m.kind \in Reply \cup {"Restarting", "Resumed"}
    BY <1>5 DEF AnswersHeld, Answered, Reply
  <2>2. m.kind # "Stopped" /\ m.for # Nobody
    BY <2>0, <2>1 DEF Reply, Expected
  <2>3. \A j \in Queued, e \in Entries, n \in Leaving : Told(j, e) => e.thread # n.thread
    <3>1. w = "work"
      BY <1>5 DEF AnswersHeld, Answered, Reply, OnlyAt, OnlyIn
    <3>2. \A u \in Threads : at[u] # "restarting"
      BY <1>5, <3>1 DEF AnswersHeld, Answered, Reply, OnlyAt, OnlyIn, Once
    <3>3. QED
      BY <3>1, <3>2, NothingLeaves
  <2>5. UNCHANGED <<held, registry>> /\ \A e \in registry : at[e.thread] = "entering" <=> at'[e.thread] = "entering"
    BY <1>5 DEF AnswersHeld, Answered, Reply, Shape, Entries, place, away
  <2>6. QED
    BY <2>1, <2>2, <2>3, <2>5, TellingGrown
<1>6. ASSUME NEW t \in Threads, Arranges(t) PROVE Telling'
  <2>0. Entry(t) \in held
    <3>1. w = "work"
      BY <1>6 DEF Arranges, OnlyAt, OnlyIn
    <3>2. QED
      BY <1>6, <3>1 DEF Arranges, OnlyAt, OnlyIn, Posted, AskedIsHeld, StopAsks
  <2>1. UNCHANGED <<messages, held>>
    BY <1>6 DEF Arranges, place, away, own
  <2>2. \A k \in registry \ held : k \in registry' /\ (at[k.thread] # "entering" => at'[k.thread] # "entering")
    BY <1>6, <2>0 DEF Arranges, Registered, Entries, Shape, place, away, own
  <2>3. \A k \in registry' : at'[k.thread] # "entering" => k \in registry /\ at[k.thread] # "entering"
    BY <1>6, <2>0 DEF Arranges, Registered, Entries, Shape, place, away, own
  <2>4. UNCHANGED Leaving \/ \A i \in Queued : ~Answers(i)
    BY <1>6 DEF Arranges, OnlyAt, OnlyIn, OnlyBack, Answers, place, away, own
  <2>5. QED
    BY <2>1, <2>2, <2>3, <2>4, TellingStays
<1>7. ASSUME NEW t \in Threads, SaysRestarting(t) PROVE Telling'
  <2>0. asked.serial # Nobody
    BY <1>7 DEF SaysRestarting, Answered, OnlyAt, OnlyIn, AskedIsHeld
  <2>1. PICK m : /\ messages' = Append(messages, m) /\ m.for = asked.serial
                 /\ m.kind \in Reply \cup {"Restarting", "Resumed"}
    BY <1>7 DEF SaysRestarting, Answered
  <2>2. m.kind # "Stopped" /\ m.for # Nobody
    BY <2>0, <2>1 DEF Reply, Expected
  <2>3. \A j \in Queued, e \in Entries, n \in Leaving : Told(j, e) => e.thread # n.thread
    <3>1. ASSUME NEW j \in Queued, NEW e \in Entries, Told(j, e) PROVE e \in registry
      <4>1. PICK f \in registry : Told(j, f)
        BY <3>1 DEF Telling, News, Told
      <4>2. f = e
        BY <3>1, <4>1 DEF Told
      <4>3. QED
        BY <4>1, <4>2
    <3>2. \A e \in registry : e.thread # t
      BY <1>7 DEF SaysRestarting, Answered, Registered
    <3>3. Leaving = {Entry(t)} /\ Entry(t).thread = t
      BY <1>7 DEF SaysRestarting, Answered, Leaves, Entry
    <3>4. QED
      BY <3>1, <3>2, <3>3
  <2>5. UNCHANGED <<held, registry>> /\ \A e \in registry : at[e.thread] = "entering" <=> at'[e.thread] = "entering"
    BY <1>7 DEF SaysRestarting, Answered, Shape, Entries, place, away
  <2>6. QED
    BY <2>1, <2>2, <2>3, <2>5, TellingGrown
<1>8. CASE Announces
  <2>1. PICK m : messages' = Append(messages, m) /\ m.for = Nobody /\ m.kind = "BreakpointsResolved"
    BY <1>8 DEF Announces
  <2>2. m.kind # "Stopped" /\ "setBreakpoints" \notin Asks
    BY <1>8, <2>1 DEF Announces
  <2>3. m.for = Nobody
    BY <2>1
  <2>5. UNCHANGED <<held, registry>> /\ \A e \in registry : at[e.thread] = "entering" <=> at'[e.thread] = "entering"
    BY <1>8 DEF Announces, Shape, Entries, place, away
  <2>6. QED
    BY <2>1, <2>2, <2>3, <2>5, TellingGrown
<1>9. CASE Exits
  <2>1. UNCHANGED <<messages, held>>
    BY <1>9 DEF Exits, place, away, own
  <2>2. \A k \in registry \ held : k \in registry' /\ (at[k.thread] # "entering" => at'[k.thread] # "entering")
    BY <1>9 DEF Exits, Registered, Entries, Shape, place, away, own
  <2>3. \A k \in registry' : at'[k.thread] # "entering" => k \in registry /\ at[k.thread] # "entering"
    BY <1>9 DEF Exits, Registered, Entries, Shape, place, away, own
  <2>4. UNCHANGED Leaving \/ \A i \in Queued : ~Answers(i)
    BY <1>9 DEF Exits, Leaving, place, away, own
  <2>5. QED
    BY <2>1, <2>2, <2>3, <2>4, TellingStays
<1>10. CASE RoutesUnheld
  <2>1. UNCHANGED <<messages, held>>
    BY <1>10 DEF RoutesUnheld, Routes, place, away, own
  <2>2. \A k \in registry \ held : k \in registry' /\ (at[k.thread] # "entering" => at'[k.thread] # "entering")
    BY <1>10 DEF RoutesUnheld, Routes, Registered, Entries, Shape, place, away, own
  <2>3. \A k \in registry' : at'[k.thread] # "entering" => k \in registry /\ at[k.thread] # "entering"
    BY <1>10 DEF RoutesUnheld, Routes, Registered, Entries, Shape, place, away, own
  <2>4. UNCHANGED Leaving \/ \A i \in Queued : ~Answers(i)
    BY <1>10 DEF RoutesUnheld, Routes, Leaving, place, away, own
  <2>5. QED
    BY <2>1, <2>2, <2>3, <2>4, TellingStays
<1>11. CASE LetsGoOf
  <2>1. UNCHANGED <<messages, held>>
    BY <1>11 DEF LetsGoOf, Routes, place, away, own
  <2>2. \A k \in registry \ held : k \in registry' /\ (at[k.thread] # "entering" => at'[k.thread] # "entering")
    BY <1>11 DEF LetsGoOf, Routes, Registered, Entries, Shape, place, away, own
  <2>3. \A k \in registry' : at'[k.thread] # "entering" => k \in registry /\ at[k.thread] # "entering"
    BY <1>11 DEF LetsGoOf, Routes, Registered, Entries, Shape, place, away, own
  <2>4. UNCHANGED Leaving \/ \A i \in Queued : ~Answers(i)
    BY <1>11 DEF LetsGoOf, Routes, OnlyAt, OnlyIn, OnlyBack, Answers, place, away, own
  <2>5. QED
    BY <2>1, <2>2, <2>3, <2>4, TellingStays
<1>12. CASE RoutesPause
  <2>1. UNCHANGED <<messages, held>>
    BY <1>12 DEF RoutesPause, Routes, place, away, own
  <2>2. \A k \in registry \ held : k \in registry' /\ (at[k.thread] # "entering" => at'[k.thread] # "entering")
    BY <1>12 DEF RoutesPause, Routes, Registered, Entries, Shape, place, away, own
  <2>3. \A k \in registry' : at'[k.thread] # "entering" => k \in registry /\ at[k.thread] # "entering"
    BY <1>12 DEF RoutesPause, Routes, Registered, Entries, Shape, place, away, own
  <2>4. UNCHANGED Leaving \/ \A i \in Queued : ~Answers(i)
    BY <1>12 DEF RoutesPause, Routes, Leaving, place, away, own
  <2>5. QED
    BY <2>1, <2>2, <2>3, <2>4, TellingStays
<1>13. CASE SaysResumed
  <2>0. asked.serial # Nobody
    BY <1>13 DEF SaysResumed, Answered, OnlyAt, OnlyIn, AskedIsHeld
  <2>1. PICK m : /\ messages' = Append(messages, m) /\ m.for = asked.serial
                 /\ m.kind \in Reply \cup {"Restarting", "Resumed"}
    BY <1>13 DEF SaysResumed, Answered
  <2>2. m.kind # "Stopped" /\ m.for # Nobody
    BY <2>0, <2>1 DEF Reply, Expected
  <2>3. \A j \in Queued, e \in Entries, n \in Leaving : Told(j, e) => e.thread # n.thread
    <3>1. ASSUME NEW j \in Queued, NEW e \in Entries, Told(j, e) PROVE e \in registry
      <4>1. PICK f \in registry : Told(j, f)
        BY <3>1 DEF Telling, News, Told
      <4>2. f = e
        BY <3>1, <4>1 DEF Told
      <4>3. QED
        BY <4>1, <4>2
    <3>2. Leaving = reader.to
      BY <1>13 DEF SaysResumed, Answered, Leaves
    <3>3. ASSUME NEW n \in reader.to, NEW e \in registry, e.thread = n.thread PROVE FALSE
      <4>1. n \in Entries /\ e \in Entries
        BY DEF Shape, TypedReader
      <4>2. stopOf[n.thread] = n.stop /\ n \notin registry
        BY <1>13 DEF SaysResumed, Answered, Woken
      <4>3. stopOf[e.thread] = e.stop
        BY DEF Registered
      <4>4. QED
        BY <3>3, <4>1, <4>2, <4>3 DEF Entries
    <3>4. QED
      BY <3>1, <3>2, <3>3
  <2>5. UNCHANGED <<held, registry>> /\ \A e \in registry : at[e.thread] = "entering" <=> at'[e.thread] = "entering"
    BY <1>13 DEF SaysResumed, Answered, Shape, Entries, place, away
  <2>6. QED
    BY <2>1, <2>2, <2>3, <2>5, TellingGrown
<1>14. ASSUME NEW e \in Entries, RoutesTo(e) PROVE Telling'
  <2>1. UNCHANGED <<messages, held>>
    BY <1>14 DEF RoutesTo, Routes, place, away, own
  <2>2. \A k \in registry \ held : k \in registry' /\ (at[k.thread] # "entering" => at'[k.thread] # "entering")
    BY <1>14 DEF RoutesTo, Routes, Registered, Entries, Shape, place, away, own
  <2>3. \A k \in registry' : at'[k.thread] # "entering" => k \in registry /\ at[k.thread] # "entering"
    BY <1>14 DEF RoutesTo, Routes, Registered, Entries, Shape, place, away, own
  <2>4. UNCHANGED Leaving \/ \A i \in Queued : ~Answers(i)
    BY <1>14 DEF RoutesTo, Routes, Leaving, place, away, own
  <2>5. QED
    BY <2>1, <2>2, <2>3, <2>4, TellingStays
<1>15. ASSUME NEW e \in Entries, Posts(e) PROVE Telling'
  <2>1. UNCHANGED <<messages, held>>
    BY <1>15 DEF Posts, place, away, own
  <2>2. \A k \in registry \ held : k \in registry' /\ (at[k.thread] # "entering" => at'[k.thread] # "entering")
    BY <1>15 DEF Posts, Registered, Entries, Shape, place, away, own
  <2>3. \A k \in registry' : at'[k.thread] # "entering" => k \in registry /\ at[k.thread] # "entering"
    BY <1>15 DEF Posts, Registered, Entries, Shape, place, away, own
  <2>4. UNCHANGED Leaving \/ \A i \in Queued : ~Answers(i)
    BY <1>15 DEF Posts, Leaving, place, away, own
  <2>5. QED
    BY <2>1, <2>2, <2>3, <2>4, TellingStays
<1>16. ASSUME NEW e \in Entries, Learns(e) PROVE Telling'
  <2>1. messages # <<>> /\ messages' = Tail(messages) /\ UNCHANGED <<registry, at>>
    BY <1>16 DEF Learns, Hears, place
  <2>2. Told(1, e) /\ e \in registry \ held /\ held' = held \cup {e} /\ Leaving' \subseteq Leaving
    BY <1>16 DEF Learns, Hears, Leaving, place
  <2>3. \A f \in registry : Told(1, f) => f = e
    BY <2>2 DEF Told
  <2>4. QED
    BY <2>1, <2>2, <2>3, TellingShrunk
<1>17. CASE TakesUnheld
  <2>1. UNCHANGED <<messages, held>>
    BY <1>17 DEF TakesUnheld, place, away, own
  <2>2. \A k \in registry \ held : k \in registry' /\ (at[k.thread] # "entering" => at'[k.thread] # "entering")
    BY <1>17 DEF TakesUnheld, Registered, Entries, Shape, place, away, own
  <2>3. \A k \in registry' : at'[k.thread] # "entering" => k \in registry /\ at[k.thread] # "entering"
    BY <1>17 DEF TakesUnheld, Registered, Entries, Shape, place, away, own
  <2>4. UNCHANGED Leaving \/ \A i \in Queued : ~Answers(i)
    BY <1>17 DEF TakesUnheld, Leaving, place, away, own
  <2>5. QED
    BY <2>1, <2>2, <2>3, <2>4, TellingStays
<1>18. CASE AnswersUnheld
  <2>0. asked.serial # Nobody
    BY <1>18 DEF AnswersUnheld, Answered, Reply, OnlyAt, OnlyIn, AskedIsHeld
  <2>1. PICK m : /\ messages' = Append(messages, m) /\ m.for = asked.serial
                 /\ m.kind \in Reply \cup {"Restarting", "Resumed"}
    BY <1>18 DEF AnswersUnheld, Answered, Reply
  <2>2. m.kind # "Stopped" /\ m.for # Nobody
    BY <2>0, <2>1 DEF Reply, Expected
  <2>3. \A j \in Queued, e \in Entries, n \in Leaving : Told(j, e) => e.thread # n.thread
    <3>1. w = "answering"
      BY <1>18 DEF AnswersUnheld, Answered, Reply, OnlyAt, OnlyIn
    <3>2. \A u \in Threads : at[u] # "restarting"
      BY <1>18, <3>1 DEF AnswersUnheld, Answered, Reply, OnlyAt, OnlyIn, Once
    <3>3. QED
      BY <3>1, <3>2, NothingLeaves
  <2>5. UNCHANGED <<held, registry>> /\ \A e \in registry : at[e.thread] = "entering" <=> at'[e.thread] = "entering"
    BY <1>18 DEF AnswersUnheld, Answered, Reply, Shape, Entries, place, away
  <2>6. QED
    BY <2>1, <2>2, <2>3, <2>5, TellingGrown
<1>19. CASE SaysPausing
  <2>0. asked.serial # Nobody
    BY <1>19 DEF SaysPausing, Answered, Reply, OnlyAt, OnlyIn, AskedIsHeld
  <2>1. PICK m : /\ messages' = Append(messages, m) /\ m.for = asked.serial
                 /\ m.kind \in Reply \cup {"Restarting", "Resumed"}
    BY <1>19 DEF SaysPausing, Answered, Reply
  <2>2. m.kind # "Stopped" /\ m.for # Nobody
    BY <2>0, <2>1 DEF Reply, Expected
  <2>3. \A j \in Queued, e \in Entries, n \in Leaving : Told(j, e) => e.thread # n.thread
    <3>1. w = "pausers"
      BY <1>19 DEF SaysPausing, Answered, Reply, OnlyAt, OnlyIn
    <3>2. \A u \in Threads : at[u] # "restarting"
      BY <1>19, <3>1 DEF SaysPausing, Answered, Reply, OnlyAt, OnlyIn, Once
    <3>3. QED
      BY <3>1, <3>2, NothingLeaves
  <2>5. UNCHANGED <<held, registry>> /\ \A e \in registry : at[e.thread] = "entering" <=> at'[e.thread] = "entering"
    BY <1>19 DEF SaysPausing, Answered, Reply, Shape, Entries, place, away
  <2>6. QED
    BY <2>1, <2>2, <2>3, <2>5, TellingGrown
<1>20. CASE Makes
  <2>1. UNCHANGED <<messages, held>>
    BY <1>20 DEF Makes, place, away, own
  <2>2. \A k \in registry \ held : k \in registry' /\ (at[k.thread] # "entering" => at'[k.thread] # "entering")
    BY <1>20 DEF Makes, Registered, Entries, Shape, place, away, own
  <2>3. \A k \in registry' : at'[k.thread] # "entering" => k \in registry /\ at[k.thread] # "entering"
    BY <1>20 DEF Makes, Registered, Entries, Shape, place, away, own
  <2>4. UNCHANGED Leaving \/ \A i \in Queued : ~Answers(i)
    BY <1>20 DEF Makes, Leaving, place, away, own
  <2>5. QED
    BY <2>1, <2>2, <2>3, <2>4, TellingStays
<1>21. CASE Passes
  <2>1. messages # <<>> /\ messages' = Tail(messages) /\ UNCHANGED <<registry, at, held>>
    BY <1>21 DEF Passes, Hears, place
  <2>2. \A f \in registry : ~Told(1, f)
    BY <1>21 DEF Passes, Hears, Told
  <2>3. QED
    BY <2>1, <2>2, TellingShrunk DEF Leaving
<1>22. CASE Hands
  <2>1. messages # <<>> /\ messages' = Tail(messages) /\ UNCHANGED <<registry, at>>
    BY <1>22 DEF Hands, Hears, place
  <2>2. held' = held \ Leaving /\ Leaving' = {} /\ \A f \in registry \cap held : f \in held'
    BY <1>22 DEF Hands, Hears, Leaving, place
  <2>3. \A f \in registry : ~Told(1, f)
    <3>1. 1 \in Queued
      BY <1>22, Shrunk DEF Hands, Hears
    <3>2. messages[1].kind # "Stopped"
      BY <1>22, <3>1 DEF Hands, Hears, Telling, News
    <3>3. QED
      BY <3>2 DEF Told
  <2>4. QED
    BY <2>1, <2>2, <2>3, TellingShrunk
<1>23. CASE Waits
  <2>1. UNCHANGED <<messages, held>>
    BY <1>23 DEF Waits, place, away, own
  <2>2. \A k \in registry \ held : k \in registry' /\ (at[k.thread] # "entering" => at'[k.thread] # "entering")
    BY <1>23 DEF Waits, Registered, Entries, Shape, place, away, own
  <2>3. \A k \in registry' : at'[k.thread] # "entering" => k \in registry /\ at[k.thread] # "entering"
    BY <1>23 DEF Waits, Registered, Entries, Shape, place, away, own
  <2>4. UNCHANGED Leaving \/ \A i \in Queued : ~Answers(i)
    BY <1>23 DEF Waits, Leaving, place, away, own
  <2>5. QED
    BY <2>1, <2>2, <2>3, <2>4, TellingStays
<1>24. CASE Rests
  <2>1. UNCHANGED <<messages, held>>
    BY <1>24 DEF Rests, place, away, own
  <2>2. \A k \in registry \ held : k \in registry' /\ (at[k.thread] # "entering" => at'[k.thread] # "entering")
    BY <1>24 DEF Rests, Registered, Entries, Shape, place, away, own
  <2>3. \A k \in registry' : at'[k.thread] # "entering" => k \in registry /\ at[k.thread] # "entering"
    BY <1>24 DEF Rests, Registered, Entries, Shape, place, away, own
  <2>4. UNCHANGED Leaving \/ \A i \in Queued : ~Answers(i)
    BY <1>24 DEF Rests, Leaving, place, away, own
  <2>5. QED
    BY <2>1, <2>2, <2>3, <2>4, TellingStays
<1>25. QED
  BY <1>1, <1>2, <1>3, <1>4, <1>5, <1>6, <1>7, <1>8, <1>9, <1>10, <1>11, <1>12, <1>13, <1>14, <1>15, <1>16, <1>17, <1>18, <1>19, <1>20, <1>21, <1>22, <1>23, <1>24 DEF Moves

-----------------------------------------------------------------------------
(***************************************************************************)
(* The rebindings: how many are on the connection.                         *)
(***************************************************************************)
Kept == RebindsAreKept /\ (engine # "waiting" => carried = 0)

Rebinds(m) == m.kind = "BreakpointsResolved" /\ m.for = Nobody

LEMMA UnreadIs ==
    ASSUME NEW q \in Seq(Messages)
    PROVE  LET S == {i \in DOMAIN q : q[i].kind = "BreakpointsResolved" /\ q[i].for = Nobody} IN
           /\ S = {i \in 1..Len(q) : Rebinds(q[i])}
           /\ IsFiniteSet(S) /\ Cardinality(S) \in Nat
<1> DEFINE S == {i \in DOMAIN q : q[i].kind = "BreakpointsResolved" /\ q[i].for = Nobody}
<1>1. Len(q) \in Nat /\ DOMAIN q = 1..Len(q)
  BY LenProperties
<1>2. S \in SUBSET (1..Len(q)) /\ S = {i \in 1..Len(q) : Rebinds(q[i])}
  BY <1>1 DEF Rebinds
<1>3. IsFiniteSet(1..Len(q))
  BY <1>1, FS_Interval
<1> HIDE DEF S
<1>4. IsFiniteSet(S)
  BY <1>2, <1>3, FS_Subset
<1>5. QED
  BY <1>2, <1>4, FS_CardinalityType DEF S

LEMMA UnreadNow ==
    ASSUME Shape
    PROVE  /\ Unread = {i \in Queued : Rebinds(messages[i])}
           /\ IsFiniteSet(Unread) /\ Cardinality(Unread) \in Nat
  BY UnreadIs DEF Unread, Queued, Shape

LEMMA UnreadNext ==
    ASSUME Shape'
    PROVE  /\ Unread' = {i \in Queued' : Rebinds(messages'[i])}
           /\ IsFiniteSet(Unread') /\ Cardinality(Unread') \in Nat
  BY UnreadIs DEF Unread, Queued, Shape

LEMMA UnreadGrown ==
    ASSUME Shape, Shape', NEW m, messages' = Append(messages, m)
    PROVE  Cardinality(Unread)' = IF Rebinds(m) THEN Cardinality(Unread) + 1 ELSE Cardinality(Unread)
<1> DEFINE l == Len(messages) + 1
<1>1. /\ Queued' = Queued \cup {l} /\ l \notin Queued /\ messages'[l] = m
      /\ \A i \in Queued : messages'[i] = messages[i]
  BY Grown
<1>2. Unread = {i \in Queued : Rebinds(messages[i])} /\ Unread' = {i \in Queued' : Rebinds(messages'[i])}
  BY UnreadNow, UnreadNext
<1> HIDE DEF l
<1>3. l \notin Unread /\ Unread' = IF Rebinds(m) THEN Unread \cup {l} ELSE Unread
  BY <1>1, <1>2
<1>4. QED
  BY <1>3, UnreadNow, FS_AddElement

LEMMA UnreadShrunk ==
    ASSUME Shape, Shape', messages # <<>>, messages' = Tail(messages)
    PROVE  /\ Cardinality(Unread) = Cardinality(Unread)' + (IF Rebinds(messages[1]) THEN 1 ELSE 0)
           /\ Cardinality(Unread)' \in Nat
<1>1. /\ 1 \in Queued /\ Queued \subseteq Nat \ {0}
      /\ \A i \in Queued' : i \in Nat \ {0} /\ i + 1 \in Queued /\ messages'[i] = messages[i + 1]
      /\ \A i \in Queued : i # 1 => i - 1 \in Queued' /\ messages'[i - 1] = messages[i]
  BY Shrunk
<1>2. Unread = {i \in Queued : Rebinds(messages[i])} /\ Unread' = {i \in Queued' : Rebinds(messages'[i])}
  BY UnreadNow, UnreadNext
<1> DEFINE later == Unread \ {1}
           up    == [i \in Unread' |-> i + 1]
<1>3. ASSUME NEW i \in Unread' PROVE i \in Nat \ {0} /\ up[i] \in later
  <2>1. i \in Nat \ {0} /\ i + 1 \in Queued /\ messages'[i] = messages[i + 1] /\ Rebinds(messages'[i])
    BY <1>1, <1>2
  <2>2. i + 1 # 1
    BY <2>1
  <2>3. QED
    BY <1>2, <2>1, <2>2
<1>4. ASSUME NEW j \in later PROVE j - 1 \in Unread' /\ up[j - 1] = j
  <2>1. j \in Queued /\ j # 1 /\ j \in Nat /\ Rebinds(messages[j])
    BY <1>1, <1>2
  <2>2. j - 1 \in Queued' /\ Rebinds(messages'[j - 1])
    BY <1>1, <2>1
  <2>3. j - 1 \in Unread'
    BY <1>2, <2>2
  <2>4. QED
    BY <2>1, <2>3
<1>5. \A i, j \in Unread' : up[i] = up[j] => i = j
  BY <1>3
<1>6. up \in Bijection(Unread', later)
  <2>1. up \in [Unread' -> later]
    BY <1>3
  <2> HIDE DEF up, later
  <2>2. QED
    BY <1>4, <1>5, <2>1, Fun_IsBij
<1>7. IsFiniteSet(Unread') /\ Cardinality(Unread') \in Nat
  BY UnreadNext
<1>8. Cardinality(later) = Cardinality(Unread')
  <2>1. ExistsBijection(Unread', later)
    BY <1>6 DEF ExistsBijection
  <2>2. QED
    BY <1>7, <2>1, FS_Bijection
<1>9. IsFiniteSet(Unread) /\ (1 \in Unread <=> Rebinds(messages[1])) /\ Cardinality(Unread) \in Nat
  BY <1>1, <1>2, UnreadNow
<1>10. Cardinality(later) = IF 1 \in Unread THEN Cardinality(Unread) - 1 ELSE Cardinality(Unread)
  BY <1>9, FS_RemoveElement
<1> HIDE DEF later
<1>11. QED
  BY <1>7, <1>8, <1>9, <1>10

LEMMA KeptSame ==
    ASSUME Kept, UNCHANGED <<messages, announced, told, carried, rebinds>>,
           engine' # "waiting" => carried' = 0
    PROVE  Kept'
  BY DEF Kept, RebindsAreKept, Unread

LEMMA KeptSaid ==
    ASSUME Shape, Shape', Kept, NEW m, messages' = Append(messages, m), ~Rebinds(m),
           UNCHANGED <<announced, told, carried, rebinds, engine>>
    PROVE  Kept'
<1>1. Cardinality(Unread)' = Cardinality(Unread)
  BY UnreadGrown
<1>2. QED
  BY <1>1 DEF Kept, RebindsAreKept

\* No rebinding is lost, and none is counted twice.
LEMMA KeptStep ==
    ASSUME AsksByName, Shape, Shape', Dead \/ Going, Kept, [Next]_vars PROVE Kept'
<1>1. ASSUME NEW t \in Threads, Enter(t) PROVE Kept'
  BY <1>1, KeptSame DEF Enter, Kept, agent, stops, thread, client
<1>2. ASSUME NEW t \in Threads, SayStopped(t) PROVE Kept'
  <2>1. PICK m : messages' = Append(messages, m) /\ ~Rebinds(m)
    BY <1>2 DEF SayStopped, Send, Message, Rebinds, Nobody
  <2>2. UNCHANGED <<announced, told, carried, rebinds, engine>>
    BY <1>2 DEF SayStopped, agent, stops, thread, client
  <2>3. QED
    BY <2>1, <2>2, KeptSaid
<1>3. ASSUME NEW t \in Threads, TakeCommand(t) PROVE Kept'
  BY <1>3, KeptSame DEF TakeCommand, Kept, agent, stops, thread, client
<1>4. ASSUME NEW t \in Threads, AnswerHeld(t) PROVE Kept'
  <2>0. work[t] = asked /\ asked.serial # Nobody
    BY <1>4 DEF AnswerHeld, Dead, Going, OnTheWay, OnlyAt, OnlyIn, AskedIsHeld
  <2>1. PICK m : messages' = Append(messages, m) /\ ~Rebinds(m)
    BY <1>4, <2>0 DEF AnswerHeld, Send, Message, Rebinds, Nobody
  <2>2. UNCHANGED <<announced, told, carried, rebinds, engine>>
    BY <1>4 DEF AnswerHeld, agent, stops, thread, client
  <2>3. QED
    BY <2>1, <2>2, KeptSaid
<1>5. ASSUME NEW t \in Threads, ArrangeRestart(t) PROVE Kept'
  BY <1>5, KeptSame DEF ArrangeRestart, Kept, agent, stops, thread, client
<1>6. ASSUME NEW t \in Threads, SayRestarting(t) PROVE Kept'
  <2>1. PICK m : messages' = Append(messages, m) /\ ~Rebinds(m)
    BY <1>6 DEF SayRestarting, Send, Message, Rebinds, Nobody
  <2>2. UNCHANGED <<announced, told, carried, rebinds, engine>>
    BY <1>6 DEF SayRestarting, agent, stops, thread, client
  <2>3. QED
    BY <2>1, <2>2, KeptSaid
<1>7. ASSUME NEW t \in Threads, AnnounceRebinding(t) PROVE Kept'
  <2>1. PICK m : messages' = Append(messages, m) /\ Rebinds(m)
    BY <1>7 DEF AnnounceRebinding, Send, Message, Rebinds
  <2>2. UNCHANGED <<told, carried, rebinds, engine>> /\ announced' = announced + 1
    BY <1>7 DEF AnnounceRebinding, agent, stops, thread, client
  <2>3. Cardinality(Unread)' = Cardinality(Unread) + 1 /\ Cardinality(Unread) \in Nat
    BY <2>1, UnreadGrown, UnreadNow
  <2>4. {told, carried, rebinds, announced} \subseteq Nat
    BY DEF Shape
  <2>5. QED
    BY <2>2, <2>3, <2>4 DEF Kept, RebindsAreKept
<1>8. CASE Finish
  BY <1>8 DEF Finish, AsksByName
<1>9. CASE Exit
  BY <1>9, KeptSame DEF Exit, Kept, agent, stops, thread, client
<1>10. CASE Route
  <2>1. UNCHANGED <<announced, told, carried, rebinds, engine>>
    BY <1>10 DEF Route, agent, stops, thread, client, RouteToAny, RouteToStop, RouteLetGo, RoutePause
  <2>2. UNCHANGED messages \/ Send(Message("NoSuchStop", Head(requests).serial, {}))
    BY <1>10 DEF Route, RouteToAny, RouteToStop, RouteLetGo, RoutePause
  <2>3. CASE UNCHANGED messages
    BY <2>1, <2>3, KeptSame DEF Kept
  <2>4. CASE Send(Message("NoSuchStop", Head(requests).serial, {}))
    <3>1. PICK m : messages' = Append(messages, m) /\ ~Rebinds(m)
      BY <2>4 DEF Send, Message, Rebinds
    <3>2. QED
      BY <2>1, <3>1, KeptSaid
  <2>5. QED
    BY <2>2, <2>3, <2>4
<1>11. CASE SayResumed
  <2>1. PICK m : messages' = Append(messages, m) /\ ~Rebinds(m)
    BY <1>11 DEF SayResumed, Send, Message, Rebinds, Nobody
  <2>2. UNCHANGED <<announced, told, carried, rebinds, engine>>
    BY <1>11 DEF SayResumed, agent, stops, thread, client
  <2>3. QED
    BY <2>1, <2>2, KeptSaid
<1>12. CASE PostCommand
  BY <1>12, KeptSame DEF PostCommand, Kept, agent, stops, thread, client
<1>13. CASE TakeUnheld
  BY <1>13, KeptSame DEF TakeUnheld, Kept, agent, stops, thread, client
<1>14. CASE AnswerUnheld
  <2>0. answering = asked /\ asked.serial # Nobody
    BY <1>14 DEF AnswerUnheld, Dead, Going, OnTheWay, OnlyAt, OnlyIn, AskedIsHeld
  <2>1. PICK m : messages' = Append(messages, m) /\ ~Rebinds(m)
    BY <1>14, <2>0 DEF AnswerUnheld, Send, Message, Rebinds, Nobody
  <2>2. UNCHANGED <<announced, told, carried, rebinds, engine>>
    BY <1>14 DEF AnswerUnheld, agent, stops, thread, client
  <2>3. QED
    BY <2>1, <2>2, KeptSaid
<1>15. CASE SayPausing
  <2>1. PICK m : messages' = Append(messages, m) /\ ~Rebinds(m)
    BY <1>15 DEF SayPausing, Send, Message, Rebinds, Nobody
  <2>2. UNCHANGED <<announced, told, carried, rebinds, engine>>
    BY <1>15 DEF SayPausing, agent, stops, thread, client
  <2>3. QED
    BY <2>1, <2>2, KeptSaid
<1>16. CASE Ask
  BY <1>16, KeptSame DEF Ask, Kept, agent, stops, thread, client
<1>17. CASE Interrupt
  BY <1>17 DEF Interrupt, AsksByName, Shape
<1>18. CASE KeepAside
  <2>1. messages # <<>> /\ messages' = Tail(messages) /\ Head(messages) = messages[1] /\ Going /\ 1 \in Queued
    <3>1. messages # <<>> /\ messages' = Tail(messages) /\ messages \in Seq(Messages)
      BY <1>18 DEF KeepAside, Shape
    <3>2. Head(messages) = messages[1] /\ 1 \in 1..Len(messages)
      BY <3>1, First
    <3>3. QED
      BY <3>1, <3>2 DEF Dead, Queued
  <2>2. /\ Cardinality(Unread) = Cardinality(Unread)' + (IF Rebinds(messages[1]) THEN 1 ELSE 0)
        /\ Cardinality(Unread)' \in Nat
    BY <2>1, UnreadShrunk
  <2>3. messages[1].kind = "BreakpointsResolved" => ~Answers(1)
    BY <1>18, <2>1 DEF KeepAside, agent, KeptAside, Expected, Going, OnTheWay, OnlyAt, OnlyBack
  <2>4. Rebinds(messages[1]) <=> messages[1].kind = "BreakpointsResolved"
    BY <2>3 DEF Answers, Rebinds
  <2>5. {told, carried, rebinds, announced} \subseteq Nat
    BY DEF Shape
  <2>6. QED
    BY <1>18, <2>1, <2>2, <2>4, <2>5 DEF KeepAside, agent, Kept, RebindsAreKept
<1>19. CASE TakeAnswer
  <2>1. messages # <<>> /\ messages' = Tail(messages) /\ Head(messages) = messages[1] /\ Going /\ 1 \in Queued
    <3>1. messages # <<>> /\ messages' = Tail(messages) /\ messages \in Seq(Messages)
      BY <1>19 DEF TakeAnswer, Shape
    <3>2. Head(messages) = messages[1] /\ 1 \in 1..Len(messages)
      BY <3>1, First
    <3>3. QED
      BY <3>1, <3>2 DEF Dead, Queued
  <2>2. /\ Cardinality(Unread) = Cardinality(Unread)' + (IF Rebinds(messages[1]) THEN 1 ELSE 0)
        /\ Cardinality(Unread)' \in Nat
    BY <2>1, UnreadShrunk
  <2>3. messages[1].kind # "Stopped" /\ asked.kind \in Asks
    BY <1>19, <2>1 DEF TakeAnswer, agent, KeptAside, Going, AskedIsHeld
  <2>4. ~Rebinds(messages[1])
    BY <1>19, <2>1, <2>3 DEF TakeAnswer, agent, KeptAside, Going, Telling, Plain, Answers, Rebinds
  <2>5. {told, carried, rebinds, announced} \subseteq Nat
    BY DEF Shape
  <2>6. QED
    BY <1>19, <2>1, <2>2, <2>4, <2>5 DEF TakeAnswer, Came, agent, Kept, RebindsAreKept
<1>20. CASE AgentGone
  BY <1>20, KeptSame DEF AgentGone, Kept, agent, stops, thread, client, Came
<1>21. CASE Wait
  <2>1. Cardinality(Unread) \in Nat /\ UNCHANGED Unread
    BY <1>21, UnreadNow DEF Unread, Wait
  <2>2. QED
    BY <1>21, <2>1 DEF Wait, agent, Kept, RebindsAreKept, Shape
<1>22. CASE WaitGathers
  <2>1. messages # <<>> /\ messages' = Tail(messages) /\ Head(messages) = messages[1] /\ Going /\ 1 \in Queued
    <3>1. messages # <<>> /\ messages' = Tail(messages) /\ messages \in Seq(Messages)
      BY <1>22 DEF WaitGathers, Shape
    <3>2. Head(messages) = messages[1] /\ 1 \in 1..Len(messages)
      BY <3>1, First
    <3>3. QED
      BY <3>1, <3>2 DEF Dead, Queued
  <2>2. /\ Cardinality(Unread) = Cardinality(Unread)' + (IF Rebinds(messages[1]) THEN 1 ELSE 0)
        /\ Cardinality(Unread)' \in Nat
    BY <2>1, UnreadShrunk
  <2>4. Rebinds(messages[1]) <=> messages[1].kind = "BreakpointsResolved"
    BY <1>22, <2>1 DEF WaitGathers, Going, OnTheWay, OnlyAt, OnlyIn, OnlyBack, Answers, Rebinds
  <2>5. {told, carried, rebinds, announced} \subseteq Nat
    BY DEF Shape
  <2>6. /\ carried' = IF Rebinds(messages[1]) THEN carried + 1 ELSE carried
        /\ UNCHANGED <<told, rebinds, announced, engine>> /\ engine = "waiting"
    BY <1>22, <2>1, <2>4 DEF WaitGathers, agent
  <2>7. QED
    BY <2>2, <2>5, <2>6 DEF Kept, RebindsAreKept
<1>23. CASE WaitEnds
  <2>1. messages # <<>> /\ messages' = Tail(messages) /\ Head(messages) = messages[1] /\ Going /\ 1 \in Queued
    <3>1. messages # <<>> /\ messages' = Tail(messages) /\ messages \in Seq(Messages)
      BY <1>23 DEF WaitEnds, Shape
    <3>2. Head(messages) = messages[1] /\ 1 \in 1..Len(messages)
      BY <3>1, First
    <3>3. QED
      BY <3>1, <3>2 DEF Dead, Queued
  <2>2. /\ Cardinality(Unread) = Cardinality(Unread)' + (IF Rebinds(messages[1]) THEN 1 ELSE 0)
        /\ Cardinality(Unread)' \in Nat
    BY <2>1, UnreadShrunk
  <2>3. ~Answers(1)
    BY <1>23, <2>1 DEF WaitEnds, Going, OnTheWay, OnlyAt, OnlyIn, OnlyBack
  <2>4. messages[1].kind = "Stopped" /\ ~Rebinds(messages[1])
    BY <1>23, <2>1, <2>3 DEF WaitEnds, Going, Telling, Plain, Rebinds
  <2>5. {told, carried, rebinds, announced} \subseteq Nat
    BY DEF Shape
  <2>6. QED
    BY <1>23, <2>1, <2>2, <2>4, <2>5 DEF WaitEnds, EndWait, agent, Kept, RebindsAreKept
<1>24. CASE WaitTimesOut
  <2>1. Cardinality(Unread) \in Nat /\ UNCHANGED Unread
    BY <1>24, UnreadNow DEF Unread, WaitTimesOut, EndWait
  <2>2. QED
    BY <1>24, <2>1 DEF WaitTimesOut, EndWait, agent, Kept, RebindsAreKept, Shape
<1>25. CASE UNCHANGED vars
  BY <1>25, KeptSame DEF vars, Kept, agent, stops, thread, client
<1>26. QED
  BY <1>1, <1>2, <1>3, <1>4, <1>5, <1>6, <1>7, <1>8, <1>9, <1>10, <1>11, <1>12, <1>13, <1>14, <1>15, <1>16, <1>17, <1>18, <1>19, <1>20, <1>21, <1>22, <1>23, <1>24, <1>25
  DEF Next, HoldsAndAnswers, Reads, Unheld, Listens

-----------------------------------------------------------------------------
(***************************************************************************)
(* All of it together.                                                     *)
(***************************************************************************)
IndInv == Shape /\ (Dead \/ Going) /\ OwnAnswer /\ NothingStranded /\ Kept

LEMMA InitInd == ASSUME AsksByName, Init PROVE IndInv
<1> USE ControlAssumption DEF Init, Nobody
<1>1. Queued = {}
  BY DEF Queued
<1>2. Shape
  <2>1. MaxStops \in Nat /\ MaxRequests \in Nat /\ MaxInterrupts \in Nat
    OBVIOUS
  <2>2. /\ minted \in 0..MaxStops /\ registry \subseteq Entries /\ held \subseteq Entries
        /\ at \in [Threads -> {"running", "entering", "held", "answering", "restarting"}]
        /\ stopOf \in [Threads -> 0..MaxStops]
        /\ work \in [Threads -> Requests \cup {NoRequest}]
        /\ serial \in 0..MaxRequests
    BY <2>1
  <2>3. mailbox \in [Stops -> Seq(Requests)] /\ unheld \in Seq(Requests) /\ requests \in Seq(Requests)
        /\ messages \in Seq(Messages)
    BY EmptySeq
  <2>4. TypedReader
    BY DEF TypedReader
  <2>5. QED
    BY <2>2, <2>3, <2>4 DEF Shape
<1>3. OnlyAt("nowhere")
  BY <1>1 DEF OnlyAt, OnlyIn, OnlyBack
<1>4. Once /\ AskedIsHeld
  BY <1>1 DEF Once, AskedIsHeld
<1>5. Registered
  BY DEF Registered, InStop
<1>6. Woken /\ Posted
  BY DEF Woken, Posted
<1>7. Leaves
  BY <1>1 DEF Leaves, LeavingIsHeldUp, Leaving
<1>8. Telling
  BY <1>1 DEF Telling, Plain, News, ToldOnce, HeardOf, AnswersFirst
<1>9. Going
  BY <1>3, <1>4, <1>5, <1>6, <1>7, <1>8 DEF Going, OnTheWay, Places
<1>10. OwnAnswer /\ NothingStranded
  BY DEF OwnAnswer, NothingStranded
<1>11. Kept
  <2>1. Unread = {}
    BY <1>1, <1>2, UnreadNow
  <2>2. Cardinality(Unread) = 0
    BY <2>1, FS_EmptySet
  <2>3. QED
    BY <2>2 DEF Kept, RebindsAreKept
<1>12. QED
  BY <1>2, <1>9, <1>10, <1>11 DEF IndInv

\* Where the thread is that a command waits for.
LEMMA PostedIsTaken == ASSUME Shape, Registered, Posted PROVE NothingStranded
<1>1. ASSUME NEW s \in Stops, mailbox[s] # <<>>
      PROVE  \E t \in Threads : stopOf[t] = s /\ at[t] \in {"entering", "held", "answering"}
  <2>1. CASE Live(mailbox[s][1])
    <3>1. PICK e \in registry : e.stop = s
      BY <1>1, <2>1 DEF Posted
    <3>2. e.thread \in Threads /\ stopOf[e.thread] = s /\ at[e.thread] \in {"entering", "held", "answering"}
      BY <3>1 DEF Registered, Shape, Entries
    <3>3. QED
      BY <3>2
  <2>2. CASE ~Live(mailbox[s][1])
    BY <1>1, <2>2 DEF Posted
  <2>3. QED
    BY <2>1, <2>2
<1>2. QED
  BY <1>1 DEF NothingStranded

LEMMA GoingStep ==
    ASSUME Shape, Shape', Going, Moves PROVE Going'
<1>1. OnTheWay' /\ Once' /\ AskedIsHeld'
  BY OnTheWayStep, OnceStep, AskedIsHeldStep
<1>2. Registered' /\ Woken' /\ Posted'
  BY RegisteredStep, WokenStep, PostedStep
<1>3. Leaves' /\ Telling'
  BY LeavesStep, TellingStep
<1>4. QED
  BY <1>1, <1>2, <1>3 DEF Going

\* When the process is gone and all is read, the engine is by itself.
LEMMA DeadStep ==
    ASSUME AsksByName, Shape, Dead, [Next]_vars
    PROVE  Dead' /\ UNCHANGED <<minted, registry, held, mailbox, stopOf, at>>
<1> USE DEF Dead
<1>1. ASSUME NEW t \in Threads, Enter(t) PROVE Dead' /\ UNCHANGED <<minted, registry, held, mailbox, stopOf, at>>
  BY <1>1 DEF Enter
<1>2. ASSUME NEW t \in Threads, SayStopped(t) PROVE Dead' /\ UNCHANGED <<minted, registry, held, mailbox, stopOf, at>>
  BY <1>2 DEF SayStopped
<1>3. ASSUME NEW t \in Threads, TakeCommand(t) PROVE Dead' /\ UNCHANGED <<minted, registry, held, mailbox, stopOf, at>>
  BY <1>3 DEF TakeCommand
<1>4. ASSUME NEW t \in Threads, AnswerHeld(t) PROVE Dead' /\ UNCHANGED <<minted, registry, held, mailbox, stopOf, at>>
  BY <1>4 DEF AnswerHeld
<1>5. ASSUME NEW t \in Threads, ArrangeRestart(t) PROVE Dead' /\ UNCHANGED <<minted, registry, held, mailbox, stopOf, at>>
  BY <1>5 DEF ArrangeRestart
<1>6. ASSUME NEW t \in Threads, SayRestarting(t) PROVE Dead' /\ UNCHANGED <<minted, registry, held, mailbox, stopOf, at>>
  BY <1>6 DEF SayRestarting
<1>7. ASSUME NEW t \in Threads, AnnounceRebinding(t) PROVE Dead' /\ UNCHANGED <<minted, registry, held, mailbox, stopOf, at>>
  BY <1>7 DEF AnnounceRebinding
<1>8. CASE Finish
  BY <1>8 DEF Finish
<1>9. CASE Exit
  BY <1>9 DEF Exit
<1>10. CASE Route
  BY <1>10 DEF Route
<1>11. CASE SayResumed
  BY <1>11 DEF SayResumed
<1>12. CASE PostCommand
  BY <1>12 DEF PostCommand
<1>13. CASE TakeUnheld
  BY <1>13 DEF TakeUnheld
<1>14. CASE AnswerUnheld
  BY <1>14 DEF AnswerUnheld
<1>15. CASE SayPausing
  BY <1>15 DEF SayPausing
<1>16. CASE Ask
  BY <1>16 DEF Ask, agent, stops, thread, client
<1>17. CASE Interrupt
  BY <1>17 DEF Interrupt, AsksByName, Shape
<1>18. CASE KeepAside
  BY <1>18 DEF KeepAside
<1>19. CASE TakeAnswer
  BY <1>19 DEF TakeAnswer
<1>20. CASE AgentGone
  BY <1>20 DEF AgentGone, agent, stops, thread, client, Came
<1>21. CASE Wait
  BY <1>21 DEF Wait, agent, stops, thread, client
<1>22. CASE WaitGathers
  BY <1>22 DEF WaitGathers
<1>23. CASE WaitEnds
  BY <1>23 DEF WaitEnds
<1>24. CASE WaitTimesOut
  BY <1>24 DEF WaitTimesOut, agent, stops, thread, client, EndWait
<1>25. CASE UNCHANGED vars
  BY <1>25 DEF vars, agent, stops, thread, client
<1>26. QED
  BY <1>1, <1>2, <1>3, <1>4, <1>5, <1>6, <1>7, <1>8, <1>9, <1>10, <1>11, <1>12, <1>13, <1>14, <1>15, <1>16, <1>17, <1>18, <1>19, <1>20, <1>21, <1>22, <1>23, <1>24, <1>25
  DEF Next, HoldsAndAnswers, Reads, Unheld, Listens

\* What the engine hands on is what came, and it came for what is asked.
LEMMA OwnStep ==
    ASSUME AsksByName, Shape, Dead \/ Going, OwnAnswer, [Next]_vars PROVE OwnAnswer'
<1> USE DEF OwnAnswer
<1>1. ASSUME NEW t \in Threads, Enter(t) PROVE OwnAnswer'
  BY <1>1 DEF Enter, client
<1>2. ASSUME NEW t \in Threads, SayStopped(t) PROVE OwnAnswer'
  BY <1>2 DEF SayStopped, client
<1>3. ASSUME NEW t \in Threads, TakeCommand(t) PROVE OwnAnswer'
  BY <1>3 DEF TakeCommand, client
<1>4. ASSUME NEW t \in Threads, AnswerHeld(t) PROVE OwnAnswer'
  BY <1>4 DEF AnswerHeld, client
<1>5. ASSUME NEW t \in Threads, ArrangeRestart(t) PROVE OwnAnswer'
  BY <1>5 DEF ArrangeRestart, client
<1>6. ASSUME NEW t \in Threads, SayRestarting(t) PROVE OwnAnswer'
  BY <1>6 DEF SayRestarting, client
<1>7. ASSUME NEW t \in Threads, AnnounceRebinding(t) PROVE OwnAnswer'
  BY <1>7 DEF AnnounceRebinding, client
<1>8. CASE Finish
  BY <1>8 DEF Finish, client
<1>9. CASE Exit
  BY <1>9 DEF Exit, client
<1>10. CASE Route
  BY <1>10 DEF Route, client
<1>11. CASE SayResumed
  BY <1>11 DEF SayResumed, client
<1>12. CASE PostCommand
  BY <1>12 DEF PostCommand, client
<1>13. CASE TakeUnheld
  BY <1>13 DEF TakeUnheld, client
<1>14. CASE AnswerUnheld
  BY <1>14 DEF AnswerUnheld, client
<1>15. CASE SayPausing
  BY <1>15 DEF SayPausing, client
<1>16. CASE Ask
  BY <1>16 DEF Ask, client
<1>17. CASE Interrupt
  BY <1>17 DEF Interrupt, client
<1>18. CASE KeepAside
  BY <1>18 DEF KeepAside, client
<1>19. CASE TakeAnswer
  <2>1. messages # <<>> /\ messages \in Seq(Messages) /\ Going
    BY <1>19 DEF TakeAnswer, Shape, Dead
  <2>2. Head(messages) = messages[1] /\ 1 \in Queued
    BY <2>1, First DEF Queued
  <2>3. messages[1].kind # "Stopped" /\ asked.kind \in Asks
    BY <1>19, <2>1, <2>2 DEF TakeAnswer, KeptAside, Going, AskedIsHeld
  <2>4. Answers(1)
    BY <1>19, <2>1, <2>2, <2>3 DEF TakeAnswer, KeptAside, Going, Telling, Plain
  <2>5. messages[1].for = asked.serial
    BY <2>1, <2>2, <2>4 DEF Going, OnTheWay, OnlyAt, OnlyBack
  <2>6. QED
    BY <1>19, <2>2, <2>5 DEF TakeAnswer, Came
<1>20. CASE AgentGone
  BY <1>20 DEF AgentGone, client, Came
<1>21. CASE Wait
  BY <1>21 DEF Wait, client
<1>22. CASE WaitGathers
  BY <1>22 DEF WaitGathers, client
<1>23. CASE WaitEnds
  BY <1>23 DEF WaitEnds, EndWait
<1>24. CASE WaitTimesOut
  BY <1>24 DEF WaitTimesOut, client, EndWait
<1>25. CASE UNCHANGED vars
  BY <1>25 DEF vars, client
<1>26. QED
  BY <1>1, <1>2, <1>3, <1>4, <1>5, <1>6, <1>7, <1>8, <1>9, <1>10, <1>11, <1>12, <1>13, <1>14, <1>15, <1>16, <1>17, <1>18, <1>19, <1>20, <1>21, <1>22, <1>23, <1>24, <1>25
  DEF Next, HoldsAndAnswers, Reads, Unheld, Listens

LEMMA IndStep == ASSUME AsksByName, IndInv, [Next]_vars PROVE IndInv'
<1>1. Shape'
  BY ShapeStep DEF IndInv
<1>2. OwnAnswer' /\ Kept'
  BY <1>1, OwnStep, KeptStep DEF IndInv
<1>3. CASE Dead
  <2>1. Dead' /\ UNCHANGED <<minted, registry, held, mailbox, stopOf, at>>
    BY <1>3, DeadStep DEF IndInv
  <2>2. NothingStranded'
    BY <2>1 DEF IndInv, NothingStranded
  <2>3. QED
    BY <1>1, <1>2, <2>1, <2>2 DEF IndInv
<1>4. CASE ~Dead
  <2>1. Going'
    BY <1>1, <1>4, MovesStep, GoingStep DEF IndInv
  <2>2. NothingStranded'
    BY <1>1, <2>1, PostedIsTaken, PTL DEF Going
  <2>3. QED
    BY <1>1, <1>2, <2>1, <2>2 DEF IndInv
<1>5. QED
  BY <1>3, <1>4

THEOREM Inductive == ASSUME AsksByName PROVE Spec => []IndInv
<1>1. Init => IndInv
  BY InitInd
<1>2. IndInv /\ [Next]_vars => IndInv'
  BY IndStep
<1>3. QED
  BY <1>1, <1>2, PTL DEF Spec

\* OwnAnswer: whatever is asked, the engine's caller gets what the agent said
\* to that, and nothing that was said to something else or to nothing.
THEOREM AnswersAreOwn == ASSUME AsksByName PROVE Spec => []OwnAnswer
<1>1. IndInv => OwnAnswer
  BY DEF IndInv
<1>2. QED
  BY <1>1, Inductive, PTL

\* ViewsAgree: whenever nothing is on the way, the engine's idea of what is held
\* is the agent's.
THEOREM ViewsComeToAgree == ASSUME AsksByName PROVE Spec => []ViewsAgree
<1>1. IndInv => ViewsAgree
  <2>1. SUFFICES ASSUME IndInv, Settled PROVE held = registry
    BY DEF ViewsAgree
  <2>2. Going /\ Queued = {}
    BY <2>1 DEF IndInv, Dead, Settled, Queued
  <2>3. held \ registry = {}
    BY <2>1, <2>2 DEF Going, Leaves, LeavingIsHeldUp, Leaving, Settled
  <2>4. ASSUME NEW e \in registry PROVE e \in held
    <3>1. e.thread \in Threads
      BY <2>1 DEF IndInv, Shape, Entries
    <3>2. at[e.thread] # "entering"
      BY <2>1, <3>1 DEF Settled
    <3>3. QED
      BY <2>2, <3>2 DEF Going, Telling, HeardOf
  <2>5. QED
    BY <2>3, <2>4
<1>2. QED
  BY <1>1, Inductive, PTL

\* NothingIsLost: a posted command has a thread to take it, and a rebinding
\* that was announced is queued, kept, gathered or told.
THEOREM NothingGetsLost == ASSUME AsksByName PROVE Spec => []NothingIsLost
<1>1. IndInv => NothingIsLost
  BY DEF IndInv, Kept, NothingIsLost
<1>2. QED
  BY <1>1, Inductive, PTL

-----------------------------------------------------------------------------
(***************************************************************************)
(* The two ends implement Holding.                                         *)
(***************************************************************************)
LEMMA MoveKeepsPromise ==
    ASSUME Shape, Shape', Going, Moves PROVE [Promise!Next]_(Promise!vars)
<1> OnTheWay /\ Once /\ AskedIsHeld /\ Registered /\ Posted
  BY DEF Going
<1> PICK w \in Places : OnlyAt(w)
  BY DEF OnTheWay
<1>1. ASSUME NEW t \in Threads, Enters(t) PROVE [Promise!Next]_(Promise!vars)
  <2>1. Promise!Stop(t)
    BY <1>1 DEF Enters, away, Promise!Stop, Registered
  <2>2. QED
    BY <2>1 DEF Promise!Next
<1>2. ASSUME NEW t \in Threads, SaysStopped(t) PROVE [Promise!Next]_(Promise!vars)
  <2>1. UNCHANGED <<registry, held, minted>>
    BY <1>2 DEF SaysStopped, place, away
  <2>2. QED
    BY <2>1 DEF Promise!vars
<1>3. ASSUME NEW t \in Threads, TakesLetGo(t) PROVE [Promise!Next]_(Promise!vars)
  <2>1. UNCHANGED <<registry, held, minted>>
    BY <1>3 DEF TakesLetGo, place, away
  <2>2. QED
    BY <2>1 DEF Promise!vars
<1>4. ASSUME NEW t \in Threads, TakesLive(t) PROVE [Promise!Next]_(Promise!vars)
  <2>1. UNCHANGED <<registry, held, minted>>
    BY <1>4 DEF TakesLive, place, away
  <2>2. QED
    BY <2>1 DEF Promise!vars
<1>5. ASSUME NEW t \in Threads, AnswersHeld(t) PROVE [Promise!Next]_(Promise!vars)
  <2>1. UNCHANGED <<registry, held, minted>>
    BY <1>5 DEF AnswersHeld, Answered, Reply, place, away
  <2>2. QED
    BY <2>1 DEF Promise!vars
<1>6. ASSUME NEW t \in Threads, Arranges(t) PROVE [Promise!Next]_(Promise!vars)
  <2>1. w = "work"
    BY <1>6 DEF Arranges, OnlyAt, OnlyIn
  <2>2. {Entry(t)} \subseteq registry \cap held /\ UNCHANGED <<held, minted>>
    BY <1>6, <2>1 DEF Arranges, OnlyAt, OnlyIn, Posted, AskedIsHeld, Registered, StopAsks, away
  <2>3. registry' = registry \ {Entry(t)}
    BY <1>6 DEF Arranges
  <2>4. Promise!LetGo({Entry(t)})
    BY <2>2, <2>3 DEF Promise!LetGo
  <2>5. QED
    BY <2>2, <2>4 DEF Promise!Next
<1>7. ASSUME NEW t \in Threads, SaysRestarting(t) PROVE [Promise!Next]_(Promise!vars)
  <2>1. UNCHANGED <<registry, held, minted>>
    BY <1>7 DEF SaysRestarting, Answered, place, away
  <2>2. QED
    BY <2>1 DEF Promise!vars
<1>8. CASE Announces
  <2>1. UNCHANGED <<registry, held, minted>>
    BY <1>8 DEF Announces, place, away
  <2>2. QED
    BY <2>1 DEF Promise!vars
<1>9. CASE Exits
  <2>1. UNCHANGED <<registry, held, minted>>
    BY <1>9 DEF Exits, place, away
  <2>2. QED
    BY <2>1 DEF Promise!vars
<1>10. CASE RoutesUnheld
  <2>1. UNCHANGED <<registry, held, minted>>
    BY <1>10 DEF RoutesUnheld, Routes, place, away
  <2>2. QED
    BY <2>1 DEF Promise!vars
<1>11. CASE LetsGoOf
  <2>1. Promise!LetGo(asked.names) /\ asked.names \in SUBSET registry
    BY <1>11 DEF LetsGoOf, Routes, away, Promise!LetGo
  <2>2. QED
    BY <2>1 DEF Promise!Next
<1>12. CASE RoutesPause
  <2>1. UNCHANGED <<registry, held, minted>>
    BY <1>12 DEF RoutesPause, Routes, place, away
  <2>2. QED
    BY <2>1 DEF Promise!vars
<1>13. CASE SaysResumed
  <2>1. UNCHANGED <<registry, held, minted>>
    BY <1>13 DEF SaysResumed, Answered, place, away
  <2>2. QED
    BY <2>1 DEF Promise!vars
<1>14. ASSUME NEW e \in Entries, RoutesTo(e) PROVE [Promise!Next]_(Promise!vars)
  <2>1. UNCHANGED <<registry, held, minted>>
    BY <1>14 DEF RoutesTo, Routes, place, away
  <2>2. QED
    BY <2>1 DEF Promise!vars
<1>15. ASSUME NEW e \in Entries, Posts(e) PROVE [Promise!Next]_(Promise!vars)
  <2>1. UNCHANGED <<registry, held, minted>>
    BY <1>15 DEF Posts, place, away
  <2>2. QED
    BY <2>1 DEF Promise!vars
<1>16. ASSUME NEW e \in Entries, Learns(e) PROVE [Promise!Next]_(Promise!vars)
  <2>1. Promise!Learn(e) /\ e \in registry
    BY <1>16 DEF Learns, Hears, place, Promise!Learn
  <2>2. QED
    BY <2>1 DEF Promise!Next
<1>17. CASE TakesUnheld
  <2>1. UNCHANGED <<registry, held, minted>>
    BY <1>17 DEF TakesUnheld, place, away
  <2>2. QED
    BY <2>1 DEF Promise!vars
<1>18. CASE AnswersUnheld
  <2>1. UNCHANGED <<registry, held, minted>>
    BY <1>18 DEF AnswersUnheld, Answered, Reply, place, away
  <2>2. QED
    BY <2>1 DEF Promise!vars
<1>19. CASE SaysPausing
  <2>1. UNCHANGED <<registry, held, minted>>
    BY <1>19 DEF SaysPausing, Answered, Reply, place, away
  <2>2. QED
    BY <2>1 DEF Promise!vars
<1>20. CASE Makes
  <2>1. UNCHANGED <<registry, held, minted>>
    BY <1>20 DEF Makes, place, away
  <2>2. QED
    BY <2>1 DEF Promise!vars
<1>21. CASE Passes
  <2>1. UNCHANGED <<registry, held, minted>>
    BY <1>21 DEF Passes, Hears, place, away
  <2>2. QED
    BY <2>1 DEF Promise!vars
<1>22. CASE Hands
  <2>1. held' = held \cap registry /\ UNCHANGED <<registry, minted>>
    BY <1>22 DEF Hands, Hears, place, Leaving
  <2>2. CASE held \ registry = {}
    BY <2>1, <2>2 DEF Promise!vars
  <2>3. CASE held \ registry # {}
    BY <2>1, <2>3 DEF Promise!Next, Promise!Forget
  <2>4. QED
    BY <2>2, <2>3
<1>23. CASE Waits
  <2>1. UNCHANGED <<registry, held, minted>>
    BY <1>23 DEF Waits, place, away
  <2>2. QED
    BY <2>1 DEF Promise!vars
<1>24. CASE Rests
  <2>1. UNCHANGED <<registry, held, minted>>
    BY <1>24 DEF Rests, place, away
  <2>2. QED
    BY <2>1 DEF Promise!vars
<1>25. QED
  BY <1>1, <1>2, <1>3, <1>4, <1>5, <1>6, <1>7, <1>8, <1>9, <1>10, <1>11, <1>12, <1>13, <1>14, <1>15, <1>16, <1>17, <1>18, <1>19, <1>20, <1>21, <1>22, <1>23, <1>24 DEF Moves

\* KeepsPromise: no stop is let go that the client did not know of, none is
\* learned of late, and what is let go together is forgotten together.
THEOREM PromiseIsKept == ASSUME AsksByName PROVE Spec => KeepsPromise
<1>1. Init => Promise!Init
  BY DEF Init, Promise!Init
<1>2. IndInv /\ IndInv' /\ [Next]_vars => [Promise!Next]_(Promise!vars)
  <2> SUFFICES ASSUME IndInv, IndInv', [Next]_vars PROVE [Promise!Next]_(Promise!vars)
    OBVIOUS
  <2>1. CASE Dead
    <3>1. UNCHANGED <<registry, held, minted>>
      BY <2>1, DeadStep DEF IndInv
    <3>2. QED
      BY <3>1 DEF Promise!vars
  <2>2. CASE ~Dead
    BY <2>2, MovesStep, MoveKeepsPromise DEF IndInv
  <2>3. QED
    BY <2>1, <2>2
<1>3. QED
  BY <1>1, <1>2, Inductive, PTL DEF Spec, KeepsPromise, Promise!Spec
================================================================================
