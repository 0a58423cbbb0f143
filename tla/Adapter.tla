------------------------------ MODULE Adapter ------------------------------
(***************************************************************************)
(* One DAP connection: bpd_dap/src/adapter.rs with the references of       *)
(* handles.rs.  Two threads serve it.  `Read' is the thread that reads the *)
(* client (read_client): it answers `pause' and `disconnect' itself, so    *)
(* that a running program can be asked both, and queues everything else.   *)
(* The other thread is the loop of `run': each turn it looks at the        *)
(* program, takes one request and answers it, and tells the client of      *)
(* every stop the session holds that it was not told of.                   *)
(*                                                                         *)
(* The client, the program and the engine's half of a session are external *)
(* and are modelled by what the adapter sees of them: the connection of    *)
(* the program is `line', what the session holds is `held'.  A request     *)
(* asked of the session reads everything that is on the connection ahead   *)
(* of its answer.                                                          *)
(***************************************************************************)
EXTENDS Integers, FiniteSets, SequencesExt

CONSTANTS
  Ids,         \* requests the client may have outstanding
  Threads,     \* threads of the program
  Main,        \* the one held before its first statement
  Files,       \* files with a breakpoint
  After,       \* pairs <<f, g>>: the breakpoint of f may wait for that of g
  MaxStops,    \* bound: stops the program makes
  MaxMints,    \* bound: breakpoint ids the adapter mints
  Commands,    \* the requests the client sends
  Overtaking,  \* those it sends while another is outstanding
  StopOnEntry, \* the configuration: the client wants the entry stop
  Patient,     \* the client asks for `threads' only of a program it has
  Fails        \* the agent may fail to do what it never refuses to

Stops == 1..MaxStops
Settings == {"exceptions", "watch"}

ASSUME AdapterAssumption ==
  /\ Main \in Threads
  /\ After \subseteq Files \X Files
  /\ MaxStops \in Nat \ {0} /\ MaxMints \in Nat
  /\ 0 \notin Ids /\ "eof" \notin Ids /\ "none" \notin Commands
  /\ Overtaking \subseteq Commands
  /\ StopOnEntry \in BOOLEAN /\ Patient \in BOOLEAN /\ Fails \in BOOLEAN

VARIABLES
  request,    \* per id: what the client waits for under it, or NoRequest
  answers,    \* per id: how many responses its last use got
  inbox,      \* the client's half of the connection, ids and "eof"
  launched,   \* the client has been told its launch succeeded
  reader,     \* "reading" or "ended"
  queue,      \* from the reader to the loop
  stopping,   \* set by the reader, read by the loop
  interrupt,  \* the reader can reach the program
  pc, hand, then, \* the loop: where it is, the request in hand, what follows
  deferred,   \* requests taken off the queue and not handled
  pending,    \* this turn has one
  session, configuration, configured, begun, exited, arrival,
  announced,  \* the stops the loop has taken note of
  untold,     \* of those, the ones whose event is not written, in order
  worlds,     \* the stops whose hold on the world has been decided
  handles,    \* the stops at which references that resolve were minted
  byFile,     \* per file: its breakpoint's id and the id it waits for, or 0
  wants,      \* per file: the file whose breakpoint it was linked to
  mints,      \* ids handed out
  unarmed,    \* ids answered while there was no program
  kept,       \* settings asked for while there was no program
  ended,      \* how `run' returned: "no", "client" or "nothing"
  program,    \* "none", "live" or "over"
  owner,      \* per stop: its thread
  reached,    \* the last stop the program made
  line,       \* stops on the connection that the engine has not read
  held,       \* stops the session holds
  pausing,    \* a pause is armed in the agent
  armed,      \* the agent's breakpoint table, as byFile
  settings,   \* the settings the agent took
  asked,      \* the settings the client was told are on or will be
  told,       \* per stop: `stopped' events that reported it
  overs       \* `terminated' events the loop wrote

client == <<request, answers, inbox, launched>>
reading == <<reader, stopping, interrupt>>
loop == <<pc, hand, then, deferred, pending, ended>>
life == <<session, configuration, configured, begun, exited, arrival>>
telling == <<announced, untold, worlds, handles, told>>
table == <<byFile, wants, mints, unarmed, kept, asked>>
agent == <<program, owner, reached, line, held, pausing, armed, settings>>
vars == <<client, reading, queue, loop, life, telling, table, agent, overs>>

\* The numbers of a set, the least first.
InOrder(S) ==
  [k \in 1..Cardinality(S) |-> CHOOSE n \in S : Cardinality({m \in S : m <= n}) = k]

NoRequest == [command |-> "none"]
NoBreakpoint == [id |-> 0, after |-> 0]

(***************************************************************************)
(* The client.                                                             *)
(***************************************************************************)
OfThread == {"stackTrace", "exceptionInfo", "bpd/state", "bpd/runScript",
             "continue", "continueOne", "next"}
OfReference == {"scopes", "variables", "setVariable", "evaluate", "bpd/facts",
                "bpd/retainers", "stepInTargets", "stepIn", "goto", "restartFrame"}

\* What a client can send: a request about a thread or a reference names a
\* stop it has been told of, current or not.
Requests(c) ==
  IF c = "setBreakpoints"
  THEN {[command |-> c, file |-> f, after |-> {}] : f \in Files} \cup
       {[command |-> c, file |-> a[1], after |-> {a[2]}] : a \in After}
  ELSE IF c \in OfThread \cup OfReference
  THEN {[command |-> c, of |-> n] : n \in {m \in Stops : told[m] > 0}}
  ELSE {[command |-> c]}

Outstanding == {i \in Ids : request[i] # NoRequest}

\* A client starts one program and finishes its configuration once.
Once == {"launch", "attach", "configurationDone", "disconnect"}
Sends(c) == \E i \in Ids : request[i].command = c

Send(i) ==
  /\ i \notin Outstanding
  /\ \A k \in 1..Len(inbox) : inbox[k] # "eof"
  /\ \E c \in Commands \ {"eof"} : \E r \in Requests(c) :
       /\ c \in Overtaking \/ Outstanding = {}
       /\ c \in {"launch", "attach"} => ~launched /\ ~Sends("launch") /\ ~Sends("attach")
       /\ c = "configurationDone" => ~configured /\ ~Sends(c)
       /\ c = "setBreakpoints" => mints < MaxMints /\ ~Sends(c)
       /\ c = "threads" /\ Patient => launched /\ configuration
       /\ request' = [request EXCEPT ![i] = r]
       /\ answers' = [answers EXCEPT ![i] = 0]
       /\ inbox' = Append(inbox, i)
  /\ UNCHANGED <<launched, reading, queue, loop, life, telling, table, agent, overs>>

HangUp ==
  /\ "eof" \in Commands
  /\ \A k \in 1..Len(inbox) : inbox[k] # "eof"
  /\ inbox' = Append(inbox, "eof")
  /\ UNCHANGED <<request, answers, launched, reading, queue, loop, life, telling,
                 table, agent, overs>>

\* A response to request i, refusal or not.
Responds(i) ==
  /\ answers' = [answers EXCEPT ![i] = @ + 1]
  /\ request' = [request EXCEPT ![i] = NoRequest]

(***************************************************************************)
(* What the loop knows, and its two ways of being with a program: waiting  *)
(* for one that runs, or holding one that is stopped.                      *)
(***************************************************************************)
Live == session /\ begun /\ ~exited
Waiting == Live /\ announced = {}
Holding == Live /\ announced # {}

\* The stop of the thread a request names, of those taken note of.
StopOf(r) == {n \in announced : owner[n] = owner[r.of]}

OnLine == ToSet(line)
AgentHolds == held \cup OnLine

Init ==
  /\ request = [i \in Ids |-> NoRequest] /\ answers = [i \in Ids |-> 0]
  /\ inbox = <<>> /\ launched = FALSE
  /\ reader = "reading" /\ stopping = FALSE /\ interrupt = FALSE
  /\ queue = <<>>
  /\ pc = "turn" /\ hand = 0 /\ then = "turn" /\ deferred = <<>>
  /\ pending = FALSE /\ ended = "no"
  /\ session = FALSE /\ configuration = FALSE /\ configured = FALSE
  /\ begun = FALSE /\ exited = FALSE /\ arrival = "Launched"
  /\ announced = {} /\ untold = <<>> /\ worlds = {} /\ handles = {}
  /\ told = [n \in Stops |-> 0]
  /\ byFile = [f \in Files |-> NoBreakpoint] /\ wants = [f \in Files |-> {}]
  /\ mints = 0 /\ unarmed = {} /\ kept = {} /\ asked = {}
  /\ program = "none" /\ owner = [n \in Stops |-> Main] /\ reached = 0
  /\ line = <<>> /\ held = {} /\ pausing = FALSE
  /\ armed = byFile /\ settings = {}
  /\ overs = 0

(***************************************************************************)
(* The thread that reads the client.  Ending the program is only possible  *)
(* for one this connection started; taking the last message of a client    *)
(* that hung up is the same without an answer.                             *)
(***************************************************************************)
EndDebuggee ==
  program' = IF interrupt /\ arrival = "Launched" /\ program = "live" THEN "over" ELSE program

Reads(m) == reader = "reading" /\ pc \notin {"done", "panicked"} /\ inbox # <<>> /\ Head(inbox) = m

ReadPause(i) ==
  /\ Reads(i) /\ request[i].command = "pause"
  /\ inbox' = Tail(inbox) /\ Responds(i)
  /\ pausing' = (pausing \/ (interrupt /\ program = "live"))
  /\ UNCHANGED <<launched, reading, queue, loop, life, telling, table, program,
                 owner, reached, line, held, armed, settings, overs>>

ReadDisconnect(i) ==
  /\ Reads(i) /\ request[i].command = "disconnect"
  /\ inbox' = Tail(inbox) /\ Responds(i)
  /\ stopping' = TRUE /\ reader' = "ended" /\ EndDebuggee
  /\ UNCHANGED <<launched, interrupt, queue, loop, life, telling, table, owner,
                 reached, line, held, pausing, armed, settings, overs>>

ReadEnd ==
  /\ Reads("eof")
  /\ inbox' = Tail(inbox)
  /\ stopping' = TRUE /\ reader' = "ended" /\ EndDebuggee
  /\ UNCHANGED <<request, answers, launched, interrupt, queue, loop, life, telling, table,
                 owner, reached, line, held, pausing, armed, settings, overs>>

ReadRequest(i) ==
  /\ Reads(i) /\ request[i].command \notin {"pause", "disconnect"}
  /\ inbox' = Tail(inbox) /\ queue' = Append(queue, i)
  /\ UNCHANGED <<request, answers, launched, reading, loop, life, telling, table, agent, overs>>

Read == ReadEnd \/ \E i \in Ids : ReadPause(i) \/ ReadDisconnect(i) \/ ReadRequest(i)

(***************************************************************************)
(* Announcing: stops that are no longer held take their references with    *)
(* them, and those that are held and were not announced are to be told.    *)
(* `announced' is set before any of them is, because telling asks the      *)
(* session for more and announces in its turn.                             *)
(***************************************************************************)
\* Mutant: the references of a stop that ended are kept.
AnnouncingKeepsHandles(h, next) ==
  /\ held' = h /\ announced' = h
  /\ worlds' = worlds \cap h
  /\ untold' = InOrder(h \ announced) \o untold
  /\ then' = next
  /\ pc' = IF untold' = <<>> THEN next ELSE "tell"
  /\ UNCHANGED handles

\* The session holds h: the stops among it that are new are to be told.
Announcing(h, next) ==
  /\ held' = h /\ announced' = h
  /\ worlds' = worlds \cap h
  /\ handles' = handles \cap h
  /\ untold' = InOrder(h \ announced) \o untold
  /\ then' = next
  /\ pc' = IF untold' = <<>> THEN next ELSE "tell"

\* The client is owed nothing more for the request in hand.
Puts(i, next) == Responds(i) /\ hand' = 0 /\ pc' = next

\* Mutant: a request the program did not answer is forgotten.
AbortsQuietly(next) ==
  /\ UNCHANGED <<request, answers>>
  /\ IF next = "respond" THEN hand' = 0 /\ pc' = "turn"
     ELSE UNCHANGED hand /\ pc' = IF next = "arm" THEN "turn" ELSE next

\* Something asked of the session failed: the request in hand is refused, and
\* where there is none the reason is written to the console.
Aborts(next) ==
  IF next = "respond" THEN Puts(hand, "turn")
  ELSE UNCHANGED <<request, answers, hand>> /\ pc' = IF next = "arm" THEN "turn" ELSE next

\* What is on the connection ahead of a refusal is read, and kept; nothing is
\* read where the engine refuses before it sends anything.
Hears ==
  \/ line' = <<>> /\ held' = AgentHolds
  \/ UNCHANGED <<line, held>>

\* A request that fails: the program is over, or the agent or the engine
\* refuses it.  Nothing is announced of what was read on the way.
Refused(next) ==
  /\ Hears /\ Aborts(next)
  /\ UNCHANGED <<announced, untold, worlds, handles, then>>

\* Mutant: stops are announced from when the client finished configuring.
AskAnnouncesEarly(h, next) ==
  /\ program = "live" /\ line' = <<>>
  /\ UNCHANGED <<request, answers, hand>>
  /\ IF configured THEN Announcing(h, next)
     ELSE held' = h /\ pc' = next /\ UNCHANGED <<announced, untold, worlds, handles, then>>

\* Ask the session, which answers; what it holds afterwards is h.
Ask(h, next) ==
  /\ program = "live" /\ line' = <<>>
  /\ UNCHANGED <<request, answers, hand>>
  /\ IF begun THEN Announcing(h, next)
     ELSE held' = h /\ pc' = next /\ UNCHANGED <<announced, untold, worlds, handles, then>>

\* What the agent refuses to nobody it may still fail to do.
MayFail == program # "live" \/ Fails

\* What it has when it failed: what it had, or what it was sent.
MayTake(had, sent) == IF Fails THEN {had, sent} ELSE {had}

\* The stop at the head of what is to be told decides whether it holds the
\* world, which is a request of its own, and is then told.
TellAsks ==
  /\ pc = "tell" /\ Head(untold) \notin worlds
  /\ \/ /\ program = "live"
        /\ line' = <<>> /\ held' = AgentHolds /\ announced' = AgentHolds
        /\ worlds' = worlds \cup {Head(untold)}
        /\ untold' = InOrder(AgentHolds \ announced) \o untold
        /\ UNCHANGED <<request, answers, pc, hand>>
     \/ /\ MayFail /\ Hears
        /\ untold' = <<>> /\ Aborts(then)
        /\ UNCHANGED <<announced, worlds>>
     \/ /\ worlds' = worlds \cup {Head(untold)}
        /\ UNCHANGED <<line, held, announced, untold, request, answers, pc, hand>>
  /\ UNCHANGED <<inbox, launched, reading, queue, then, deferred, pending, ended, life,
                 handles, told, table, program, owner, reached, pausing, armed, settings, overs>>

Tell ==
  /\ pc = "tell" /\ Head(untold) \in worlds
  /\ told' = [told EXCEPT ![Head(untold)] = @ + 1]
  /\ untold' = Tail(untold)
  /\ pc' = IF untold' = <<>> THEN then ELSE pc
  /\ UNCHANGED <<client, reading, queue, hand, then, deferred, pending, ended, life, announced,
                 worlds, handles, table, agent, overs>>

(***************************************************************************)
(* The turns of the loop.                                                  *)
(***************************************************************************)
Leaves(how) == pc' = "leaving" /\ ended' = how

Turn ==
  /\ pc = "turn"
  /\ IF stopping \/ (deferred = <<>> /\ queue = <<>> /\ reader = "ended")
     THEN Leaves("client") /\ UNCHANGED <<deferred, pending, queue>>
     ELSE /\ pc' = IF Waiting THEN "wait" ELSE "take"
          /\ pending' = (deferred # <<>> \/ queue # <<>>)
          /\ IF deferred = <<>> /\ queue # <<>>
             THEN deferred' = <<Head(queue)>> /\ queue' = Tail(queue)
             ELSE UNCHANGED <<deferred, queue>>
          /\ UNCHANGED ended
  /\ UNCHANGED <<client, reading, hand, then, life, telling, table, agent, overs>>

\* The main thread is done, and its end waits for the threads that are held.
Finishing == program = "live" /\ held # {} /\ \A n \in AgentHolds : owner[n] # Main

\* A wait on the program that ends in a stop, in nothing, in the message that
\* it is finishing, or in its end.
LooksAt(next) ==
  /\ \/ /\ line # <<>>
        /\ line' = Tail(line) /\ Announcing(held \cup {Head(line)}, next)
        /\ UNCHANGED <<exited, overs, ended>>
     \/ /\ line = <<>> /\ program = "live" /\ pc' = next
        /\ UNCHANGED <<line, held, announced, untold, worlds, handles, then, exited, overs, ended>>
     \/ /\ line = <<>> /\ Finishing /\ Announcing(held, next)
        /\ UNCHANGED <<line, exited, overs, ended>>
     \/ /\ line = <<>> /\ program = "over"
        /\ \/ exited' = TRUE /\ overs' = overs + 1 /\ pc' = next /\ UNCHANGED ended
           \/ stopping /\ UNCHANGED <<exited, overs>> /\
              IF pc = "wait" THEN Leaves("client") ELSE pc' = next /\ UNCHANGED ended
        /\ UNCHANGED <<line, held, announced, untold, worlds, handles, then>>
  /\ UNCHANGED <<client, reading, pending, told, session, configuration, configured, begun,
                 arrival, table, program, owner, reached, pausing, armed, settings>>

WaitForProgram ==
  /\ pc = "wait" /\ LooksAt(IF pending THEN "take" ELSE "turn")
  /\ UNCHANGED <<queue, hand, deferred>>

\* Mutant: a client that asks is answered before the program is looked at.
TakesAtOnce(i) == hand' = i /\ pc' = "handle"

Takes(i) == hand' = i /\ pc' = IF Holding THEN "look" ELSE "handle"

Take ==
  /\ pc = "take"
  /\ \/ /\ deferred # <<>> /\ Takes(Head(deferred)) /\ deferred' = Tail(deferred)
        /\ UNCHANGED <<queue, ended>>
     \/ /\ deferred = <<>> /\ queue # <<>> /\ Takes(Head(queue)) /\ queue' = Tail(queue)
        /\ UNCHANGED <<deferred, ended>>
     \/ /\ deferred = <<>> /\ queue = <<>> /\ reader = "ended" /\ Leaves("client")
        /\ UNCHANGED <<hand, queue, deferred>>
  /\ UNCHANGED <<client, reading, then, pending, life, telling, table, agent, overs>>

\* The client said nothing for a slice.
TakeNothing ==
  /\ pc = "take" /\ deferred = <<>> /\ queue = <<>> /\ reader = "reading"
  /\ session /\ ~exited /\ LooksAt("turn")
  /\ UNCHANGED <<queue, hand, deferred>>

LookFirst == pc = "look" /\ LooksAt("handle") /\ UNCHANGED <<queue, hand, deferred>>

(***************************************************************************)
(* The handlers.  `Asking' is a handler that asks the session once: what   *)
(* it holds afterwards is h, and the answer follows once everything read   *)
(* on the way is told, or the request is refused by who was asked.  A      *)
(* refusal by the adapter and an answer that needs no session are          *)
(* `Answering'.                                                            *)
(***************************************************************************)
Handles(c) == pc = "handle" /\ request[hand].command = c
InHand == request[hand]

quiet == <<inbox, launched, reading, queue, deferred, pending, ended, told, program,
           owner, reached, pausing, overs>>
asks == <<line, held, announced, untold, worlds, handles, then>>

Answering == Puts(hand, "turn") /\ UNCHANGED <<quiet, asks>>
Asking(h) == (Ask(h, "respond") \/ Refused("respond")) /\ UNCHANGED quiet
Plain == UNCHANGED <<life, table, armed, settings>>

\* A handler of a request about a held thread, and of one about a reference:
\* one that resolves may be of another kind than the request needs, and a
\* value that was read once is opened without asking again.
AboutThread(h) ==
  IF StopOf(InHand) = {} THEN Answering ELSE Asking(h)
AboutReference ==
  Answering \/ (InHand.of \in handles /\ Asking(AgentHolds))

Initialize == Handles("initialize") /\ Answering /\ Plain
Understands == Handles("bpd/understands") /\ Answering /\ Plain

\* Answered once the program is there or has failed to be: `launching'.
Launch ==
  /\ Handles("launch")
  /\ IF session
     THEN Responds(hand) /\ hand' = 0 /\ overs' = overs + 1 /\ Leaves("nothing")
     ELSE pc' = "launching" /\ UNCHANGED <<request, answers, hand, overs, ended>>
  /\ UNCHANGED <<inbox, launched, reading, queue, deferred, pending, then, told,
                 program, owner, reached, pausing, line, held, announced, untold, worlds,
                 handles>>
  /\ Plain

\* What arrives while the client is asked to run the program in a terminal.
SetAside ==
  /\ pc = "launching" /\ queue # <<>>
  /\ deferred' = Append(deferred, Head(queue)) /\ queue' = Tail(queue)
  /\ UNCHANGED <<client, reading, pc, hand, then, pending, ended, life, telling, table, agent,
                 overs>>

Starts(how, h, l) ==
  /\ session' = TRUE /\ configuration' = TRUE /\ interrupt' = TRUE /\ arrival' = how
  /\ program' = "live" /\ reached' = 1 /\ held' = h /\ line' = l
  /\ Puts(hand, "arm")
  /\ UNCHANGED <<configured, begun, exited, owner, overs, ended>>

NothingToDebug ==
  /\ Responds(hand) /\ hand' = 0 /\ overs' = overs + 1 /\ Leaves("nothing")
  /\ UNCHANGED <<life, interrupt, program, reached, held, line, owner>>

\* The program is held before its first statement, ended before it got there,
\* or was not started.
Launched ==
  /\ pc = "launching"
  /\ \/ Starts("Launched", {1}, <<>>) /\ launched' = TRUE
     \/ /\ Puts(hand, "turn") /\ exited' = TRUE /\ overs' = overs + 1 /\ launched' = TRUE
        /\ UNCHANGED <<session, configuration, configured, begun, arrival, interrupt, program,
                       reached, held, line, owner, ended>>
     \/ NothingToDebug /\ UNCHANGED launched
  /\ UNCHANGED <<inbox, reader, stopping, queue, then, deferred, pending, telling,
                 table, pausing, armed, settings>>

\* A child that is held already; its stop may not have been read yet.
Attach ==
  /\ Handles("attach")
  /\ \/ ~session /\ Starts("TakenUp", {}, <<1>>) /\ launched' = TRUE
     \/ NothingToDebug /\ UNCHANGED launched
  /\ UNCHANGED <<inbox, reader, stopping, queue, then, deferred, pending, telling,
                 table, pausing, armed, settings>>

\* What was asked for while there was no program is asked of it, before it is
\* let go, one request after another.
ArmSetting(s) ==
  /\ kept' = kept \ {s} /\ UNCHANGED unarmed
  /\ \/ Ask(AgentHolds, "arm") /\ settings' = settings \cup {s}
     \/ MayFail /\ Refused("arm") /\ settings' \in MayTake(settings, settings \cup {s})
  /\ UNCHANGED armed

ArmBreakpoints ==
  /\ unarmed' = {} /\ UNCHANGED <<kept, settings>>
  /\ \/ Ask(AgentHolds, "arm") /\ armed' = byFile
     \/ MayFail /\ Refused("arm") /\ armed' \in MayTake(armed, byFile)

\* Mutant: the program is let go ahead of what it was to be told.
ArmLast ==
  /\ pc = "arm"
  /\ pc' = IF configured THEN "begin" ELSE "turn"
  /\ UNCHANGED <<kept, unarmed, settings, armed, request, answers, hand, asks>>
  /\ UNCHANGED <<quiet, life, byFile, wants, mints, asked>>

Arm ==
  /\ pc = "arm"
  /\ IF "exceptions" \in kept THEN ArmSetting("exceptions")
     ELSE IF "watch" \in kept THEN ArmSetting("watch")
     ELSE IF unarmed # {} THEN ArmBreakpoints
     ELSE /\ pc' = IF configured THEN "begin" ELSE "turn"
          /\ UNCHANGED <<kept, unarmed, settings, armed, request, answers, hand, asks>>
  /\ UNCHANGED <<quiet, life, byFile, wants, mints, asked>>

ConfigurationDone ==
  /\ Handles("configurationDone")
  /\ configured' = TRUE
  /\ Puts(hand, IF session THEN "begin" ELSE "turn")
  /\ UNCHANGED <<quiet, asks, session, configuration, begun, exited, arrival, table, armed,
                 settings>>

\* `justMyCode' and `debugChildren' are asked of the program if configured,
\* and the second is refused where there is no fork.
Begin ==
  /\ pc = "begin" /\ Hears
  /\ \/ begun' = TRUE /\ pc' = "go"
     \/ UNCHANGED begun /\ pc' = "turn"
  /\ UNCHANGED <<quiet, request, answers, hand, announced, untold, worlds, handles, then, session,
                 configuration, configured, exited, arrival, table, armed, settings>>

Go ==
  /\ pc = "go"
  /\ IF StopOnEntry \/ arrival = "TakenUp"
     THEN Announcing(held, "turn") /\ UNCHANGED <<line, request, answers, hand>>
     ELSE Ask({}, "turn") \/ (MayFail /\ Refused("turn"))
  /\ UNCHANGED quiet /\ Plain

Linked(f, g) == [id |-> mints + 1, after |-> IF g = {} THEN 0 ELSE byFile[CHOOSE x \in g : TRUE].id]
IdsOf(t) == {t[f].id : f \in Files} \ {0}

\* The agent is sent the whole set.
Sent(t) ==
  /\ \/ Ask(AgentHolds, "respond") /\ armed' = t
     \/ MayFail /\ Refused("respond") /\ armed' \in MayTake(armed, t)
  /\ UNCHANGED quiet

\* One file's breakpoints are replaced, with ids of their own and those they
\* wait for looked up among the ids of now, before the agent is sent anything.
SetBreakpoints ==
  /\ Handles("setBreakpoints")
  /\ mints' = mints + 1
  /\ byFile' = [byFile EXCEPT ![InHand.file] = Linked(InHand.file, InHand.after)]
  /\ wants' = [wants EXCEPT ![InHand.file] = {g \in InHand.after : byFile[g].id # 0}]
  /\ IF ~session THEN Answering /\ unarmed' = IdsOf(byFile') /\ UNCHANGED armed
     ELSE Sent(byFile') /\ UNCHANGED unarmed
  /\ UNCHANGED <<life, kept, asked, settings>>

\* A breakpoint's suspend policy changes nothing else about the set.
SetSuspendPolicies ==
  /\ Handles("bpd/setSuspendPolicies")
  /\ IF ~session \/ IdsOf(byFile) = {} THEN Answering /\ UNCHANGED armed
     ELSE Sent(byFile)
  /\ UNCHANGED <<life, table, settings>>

Sets(s) ==
  /\ IF ~session
     THEN Answering /\ kept' = kept \cup {s} /\ asked' = asked \cup {s} /\ UNCHANGED settings
     ELSE /\ \/ Ask(AgentHolds, "respond") /\ settings' = settings \cup {s} /\ asked' = asked \cup {s}
             \/ /\ MayFail /\ Refused("respond")
                /\ settings' \in MayTake(settings, settings \cup {s}) /\ UNCHANGED asked
          /\ UNCHANGED <<kept, quiet>>
  /\ UNCHANGED <<life, byFile, wants, mints, unarmed, armed>>

SetExceptionBreakpoints == Handles("setExceptionBreakpoints") /\ Sets("exceptions")
SetExceptionClasses == Handles("bpd/setExceptionClasses") /\ Sets("exceptions")
WatchRecompositions == Handles("bpd/watchRecompositions") /\ Sets("watch")

\* The configuration is read for how long to settle before the session is
\* asked; there is none before a launch stored one.
ThreadsOf ==
  /\ Handles("threads")
  /\ IF configuration THEN Asking(AgentHolds)
     ELSE pc' = "panicked" /\ UNCHANGED <<request, answers, hand, quiet, asks>>
  /\ Plain

StackTrace == Handles("stackTrace") /\ AboutThread(AgentHolds) /\ Plain
ExceptionInfo == Handles("exceptionInfo") /\ Answering /\ Plain
State == Handles("bpd/state") /\ AboutThread(AgentHolds) /\ Plain

\* A script may end with its thread held or with it running.
RunScript ==
  /\ Handles("bpd/runScript")
  /\ AboutThread(AgentHolds) \/ AboutThread(AgentHolds \ StopOf(InHand))
  /\ Plain

\* Requests about the process, whatever is held.
OfProgram == {"bpd/diff", "bpd/record", "bpd/trail", "bpd/recompositions", "bpd/replaceCode"}
AboutProgram == InHand.command \in OfProgram /\ Asking(AgentHolds) /\ Plain
Diff == Handles("bpd/diff") /\ AboutProgram
Record == Handles("bpd/record") /\ AboutProgram
Trail == Handles("bpd/trail") /\ AboutProgram
Recompositions == Handles("bpd/recompositions") /\ AboutProgram
ReplaceCode == Handles("bpd/replaceCode") /\ AboutProgram

Scopes == Handles("scopes") /\ AboutReference /\ Plain
Variables == Handles("variables") /\ AboutReference /\ Plain
SetVariable == Handles("setVariable") /\ AboutReference /\ Plain
Evaluate == Handles("evaluate") /\ AboutReference /\ Plain
Facts == Handles("bpd/facts") /\ AboutReference /\ Plain
Retainers == Handles("bpd/retainers") /\ AboutReference /\ Plain
StepInTargets == Handles("stepInTargets") /\ AboutReference /\ Plain
\* Every stop the client knows of is asked for its frame.
GotoTargets ==
  /\ Handles("gotoTargets")
  /\ IF announced = {} THEN Answering ELSE Asking(AgentHolds)
  /\ Plain

\* A place belongs to the stop it was minted at, and so must the thread.
Goto ==
  /\ Handles("goto")
  /\ IF InHand.of \in StopOf(InHand) THEN AboutReference ELSE Answering
  /\ Plain

\* The frame is reset where it is held, or its thread is let go to a call
\* that is made again.
RestartFrame ==
  /\ Handles("restartFrame")
  /\ \/ AboutReference
     \/ InHand.of \in handles /\ Asking(AgentHolds \ {InHand.of})
  /\ Plain

\* With nothing held there is nothing to let go, and nothing is sent.
Continue ==
  /\ Handles("continue")
  /\ IF held = {} THEN Answering ELSE Asking({})
  /\ Plain
ContinueOne == Handles("continueOne") /\ AboutThread(AgentHolds \ StopOf(InHand)) /\ Plain
Step == Handles("next") /\ AboutThread(AgentHolds \ StopOf(InHand)) /\ Plain

\* A step into a call needs the reference the call was offered under.
StepInto ==
  /\ Handles("stepIn")
  /\ \/ Answering
     \/ InHand.of \in StopOf(InHand) \cap handles /\ Asking(AgentHolds \ {InHand.of})
  /\ Plain

\* What an answer mints references at.
Mints(r) ==
  CASE r.command = "stackTrace" -> StopOf(r)
    [] r.command \in {"scopes", "variables", "setVariable", "evaluate", "stepInTargets"} -> {r.of}
    [] r.command = "gotoTargets" -> announced
    [] OTHER -> {}

Respond ==
  /\ pc = "respond"
  /\ Puts(hand, "turn")
  /\ \E m \in {{}, Mints(InHand)} : handles' = handles \cup m
  /\ UNCHANGED <<quiet, line, held, announced, untold, worlds, then>> /\ Plain

Handle ==
  \/ Initialize \/ Understands \/ Launch \/ Attach \/ ConfigurationDone
  \/ SetBreakpoints \/ SetSuspendPolicies \/ SetExceptionBreakpoints
  \/ SetExceptionClasses \/ WatchRecompositions \/ ThreadsOf \/ StackTrace
  \/ ExceptionInfo \/ State \/ RunScript \/ Diff \/ Record \/ Trail
  \/ Recompositions \/ ReplaceCode \/ Scopes \/ Variables \/ SetVariable
  \/ Evaluate \/ Facts \/ Retainers \/ StepInTargets \/ GotoTargets \/ Goto
  \/ RestartFrame \/ Continue \/ ContinueOne \/ Step \/ StepInto

\* Mutant: what was set aside while the program was started is forgotten.
RefuseWhatIsQueued ==
  /\ pc = "leaving"
  /\ LET left == ToSet(queue)
     IN  /\ answers' = [i \in Ids |-> answers[i] + (IF i \in left THEN 1 ELSE 0)]
         /\ request' = [i \in Ids |-> IF i \in left THEN NoRequest ELSE request[i]]
  /\ deferred' = <<>> /\ queue' = <<>> /\ pc' = "joining"
  /\ UNCHANGED <<inbox, launched, reading, hand, then, pending, ended, life, telling,
                 table, agent, overs>>

\* Everything the client said that this session will not get to is refused.
RefuseWhatIsLeft ==
  /\ pc = "leaving"
  /\ LET left == ToSet(deferred) \cup ToSet(queue)
     IN  /\ answers' = [i \in Ids |-> answers[i] + (IF i \in left THEN 1 ELSE 0)]
         /\ request' = [i \in Ids |-> IF i \in left THEN NoRequest ELSE request[i]]
  /\ deferred' = <<>> /\ queue' = <<>> /\ pc' = "joining"
  /\ UNCHANGED <<inbox, launched, reading, hand, then, pending, ended, life, telling,
                 table, agent, overs>>

\* The reader is waited for, and after a refused launch only for so long.
Join ==
  /\ pc = "joining" /\ (reader = "ended" \/ ended = "nothing")
  /\ pc' = "done"
  /\ UNCHANGED <<client, reading, queue, hand, then, deferred, pending, ended, life, telling,
                 table, agent, overs>>

Loop ==
  \/ Turn \/ WaitForProgram \/ Take \/ TakeNothing \/ LookFirst \/ Handle
  \/ SetAside \/ Launched \/ Arm \/ Begin \/ Go \/ TellAsks \/ Tell \/ Respond
  \/ RefuseWhatIsLeft \/ Join

(***************************************************************************)
(* The program: a thread that runs stops at a breakpoint or for a pause;   *)
(* other threads than the main one exist once that was let go.             *)
(***************************************************************************)
Runs(t) == program = "live" /\ \A n \in AgentHolds : owner[n] # t

Stop(t) ==
  /\ Runs(t) /\ 1 \notin AgentHolds /\ reached < MaxStops
  /\ reached' = reached + 1
  /\ owner' = [owner EXCEPT ![reached + 1] = t]
  /\ line' = Append(line, reached + 1) /\ pausing' = FALSE
  /\ UNCHANGED <<client, reading, queue, loop, life, telling, table, program, held, armed,
                 settings, overs>>

\* It ends by itself, or is ended with threads held.
Finish ==
  /\ program = "live"
  /\ program' = "over"
  /\ UNCHANGED <<client, reading, queue, loop, life, telling, table, owner, reached, line, held,
                 pausing, armed, settings, overs>>

Client == HangUp \/ \E i \in Ids : Send(i)
Program == Finish \/ \E t \in Threads : Stop(t)
Finished == pc \in {"done", "panicked"} /\ UNCHANGED vars

Next == Client \/ Read \/ Loop \/ Program \/ Finished

Spec == Init /\ [][Next]_vars

\* The adapter's two threads are scheduled; nothing is assumed of the client
\* or of the program.
FairSpec == Spec /\ WF_vars(Read) /\ WF_vars(Loop)

(***************************************************************************)
(* Properties.                                                             *)
(***************************************************************************)

\* No request is answered twice, and when the connection ends with its client
\* everything the reader took off it was answered: the requests a disconnect
\* overtook, and those set aside while a program was being started.
OneAnswer ==
  /\ \A i \in Ids : answers[i] <= 1
  /\ pc = "done" /\ ended = "client" =>
       \A i \in Outstanding : i \in ToSet(inbox)

\* A stop is told once, however announcements nest, and every one the loop
\* took note of is told by the end of the turn; the entry stop is not told to
\* a client that asked for its program to run.
TellsOnce ==
  /\ \A n \in Stops : told[n] <= 1
  /\ pc = "turn" /\ program = "live" => \A n \in announced : told[n] = 1
  /\ arrival = "Launched" /\ ~StopOnEntry => told[1] = 0

\* From the first announcement after the client finished configuring, every
\* reference that resolves is about a stop that is still held: one whose
\* thread ran on would be answered about a frame that moved.
ReferencesAreHeld == begun /\ pc # "go" => handles \subseteq held

\* What announce keeps for the client: what it was told, once, and what it may
\* ask about.
ClientIsCurrent == TellsOnce /\ ReferencesAreHeld

\* Whatever the client was told is set or will be is what the agent has by
\* the time the program is let go, in either order of launching and
\* configuring, and at every turn after.
ArmedIsAsked ==
  pc \in {"turn", "go"} /\ session /\ program = "live" =>
    armed = byFile /\ unarmed = {} /\ asked \subseteq settings

\* The ways a stop comes to be told no more: its thread ran on, the program
\* is over, or the connection is.
Lapsed(n) == n \notin AgentHolds \/ exited \/ ended # "no" \/ program = "over"

\* A stop on the connection of a program that was let go is told, however
\* busy the client keeps the loop, unless it ends first or the session does,
\* or a request reads it that is then refused.
StopIsTold ==
  \A n \in Stops :
    (n \in OnLine /\ begun) ~> (told[n] > 0 \/ Lapsed(n) \/ n \in held \ announced)

\* A stop that a refused request has read is told as well.
RefusedReadIsTold ==
  \A n \in Stops :
    (n \in OnLine /\ begun) ~> (told[n] > 0 \/ Lapsed(n))

\* A request taken off the connection is answered, unless a launch was refused.
RequestIsAnswered ==
  \A i \in Ids :
    (i \in ToSet(queue)) ~> (answers[i] > 0 \/ ended = "nothing")

\* Both: neither a busy client nor a busy program starves the other.
NothingIsOwed == StopIsTold /\ RequestIsAnswered

\* The client is told of no stop before it has finished configuring.
NothingBeforeBegun == \A n \in Stops : told[n] > 0 => begun

\* A breakpoint that waits for another waits for the id that one has now.
ChainsAreCurrent ==
  \A f \in Files : \A g \in wants[f] : byFile[f].after = byFile[g].id

\* Nothing reads the configuration before a launch has stored one.
ConfigurationIsThere == pc # "panicked"

\* What reaches the reader of a refused launch before the adapter goes is
\* answered too.
FarewellAnswers == pc = "done" => \A i \in Outstanding : i \in ToSet(inbox)
=============================================================================
