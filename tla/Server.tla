------------------------------- MODULE Server -------------------------------
(***************************************************************************)
(* The MCP server over a debuggee of several sessions: bpd_mcp/server.rs,  *)
(* the Debuggee of bpd_engine/launch.rs and the addressing rules of        *)
(* bpd_core/session.rs.                                                    *)
(*                                                                         *)
(* The server has one thread.  A tool call is a sequence of dispatches,    *)
(* and between any two of them the debugged programs go on: they stop,     *)
(* fork a child that connects, or die.  A dispatch is addressed by a stop, *)
(* by a session or by neither.  Stops are numbered by each program for     *)
(* itself, so the same number may be held in two sessions.  A call before  *)
(* there is a debuggee, a launch beside one and a launch that fails touch  *)
(* nothing and are left out.                                               *)
(*                                                                         *)
(* One request and its answer are one step here: what may happen on the    *)
(* wire between them is the subject of Control.  The contents of answers,  *)
(* breakpoint sets, scripts and the end of a program with threads held     *)
(* (also in Control) are left out.                                         *)
(***************************************************************************)
EXTENDS Naturals, Sequences, FiniteSets, SequencesExt

CONSTANTS
    Mains,      \* programs a launch starts
    Kids,       \* processes they fork, which connect to the retained listener
    None,       \* no session named
    Tools,      \* the tools the client calls
    MaxStops,   \* bound: stops of one program
    MaxNews,    \* bound: log records and the like of one program
    MaxCalls,   \* bound: calls of the client
    Chatty,     \* whether a program may go on logging for ever
    Resyncs     \* whether a client reads what is held after a call that failed

Programs == Mains \cup Kids

ASSUME ServerAssumption ==
    /\ Mains \cap Kids = {} /\ None \notin Programs
    /\ MaxStops \in Nat \ {0} /\ {MaxNews, MaxCalls} \subseteq Nat
    /\ {Chatty, Resyncs} \subseteq BOOLEAN

VARIABLES
    \* the programs
    life,      \* not there, in the listener's backlog, open, or gone
    inForce,   \* the stops the agent of each holds
    minted,    \* the number of its last stop
    said,      \* how many records it has sent
    wire,      \* what it has announced and the engine has not read
    \* the engine: Debuggee and Attached
    attached,  \* the sessions, in the order their agents attached
    held,      \* the stops each is taken to hold
    \* the server
    holds,     \* whether there is a debuggee: session.is_some()
    joined,    \* Said::joined: sessions to tell of with the next answer
    call,      \* the tool call being performed
    calls,     \* how many there have been
    \* what the client knows
    seen,      \* the sessions it was told of
    believed,  \* the stops it takes to be held
    unsure     \* whether a call of its failed half way, maybe, since it last knew

programs == <<life, inForce, minted, said, wire>>
debuggee == <<attached, held>>
client   == <<seen, believed, unsure>>
vars     == <<programs, debuggee, holds, joined, call, calls, client>>

Attached == ToSet(attached)
HeldNow  == {h \in Attached \X (1..MaxStops) : h[2] \in held[h[1]]}

NoCall == [tool |-> "none", session |-> None, todo |-> <<>>, at |-> None, looked |-> FALSE,
           timed |-> FALSE, got |-> {}, freed |-> {}, acted |-> {}, meant |-> {}]

ByStop    == {"step", "read", "world"}
ByProgram == {"continue", "wait", "pause", "resume", "process"}

-----------------------------------------------------------------------------
(***************************************************************************)
(* The programs.                                                           *)
(***************************************************************************)

\* A thread reaches a breakpoint: it is held and says so.  A child has the one
\* thread that forked, and the program no other until its first has run.
Reach(p) ==
    /\ life[p] = "open" /\ minted[p] < MaxStops
    /\ inForce[p] = {} \/ (p \in Mains /\ minted[p] > Cardinality(inForce[p]))
    /\ minted'  = [minted EXCEPT ![p] = @ + 1]
    /\ inForce' = [inForce EXCEPT ![p] = @ \cup {minted'[p]}]
    /\ wire'    = [wire EXCEPT ![p] = Append(@, minted'[p])]
    /\ UNCHANGED <<life, said, debuggee, holds, joined, call, calls, client>>

\* A logpoint, a rebinding, a child that is not debugged: announced, and nothing waits.
Announce(p) ==
    /\ life[p] = "open"
    /\ IF Chatty THEN wire[p] = <<>> /\ UNCHANGED said
                 ELSE said[p] < MaxNews /\ said' = [said EXCEPT ![p] = @ + 1]
    /\ wire' = [wire EXCEPT ![p] = Append(@, 0)]
    /\ UNCHANGED <<life, inForce, minted, debuggee, holds, joined, call, calls, client>>

\* A debugged child connects, and is held: where it forked, counting its stops on
\* from its parent's, or at its interpreter's start, counting from one.
Fork(q) ==
    /\ q \in Kids /\ life[q] = "none"
    /\ \E p \in Mains : \E inherited \in {0, minted[p]} :
          /\ life[p] = "open" /\ minted[p] > Cardinality(inForce[p]) /\ inherited < MaxStops
          /\ life'    = [life EXCEPT ![q] = "knocking"]
          /\ minted'  = [minted EXCEPT ![q] = inherited + 1]
          /\ inForce' = [inForce EXCEPT ![q] = {minted'[q]}]
          /\ wire'    = [wire EXCEPT ![q] = <<minted'[q]>>]
    /\ UNCHANGED <<said, debuggee, holds, joined, call, calls, client>>

\* A program runs to its end or is killed; what it sent can still be read.
Die(p) ==
    /\ life[p] \in {"knocking", "open"}
    /\ life'    = [life EXCEPT ![p] = "gone"]
    /\ inForce' = [inForce EXCEPT ![p] = {}]
    /\ UNCHANGED <<minted, said, wire, debuggee, holds, joined, call, calls, client>>

-----------------------------------------------------------------------------
(***************************************************************************)
(* Which session a request is for.                                         *)
(***************************************************************************)

\* only_session: the one named, or the only one there is; refused otherwise.
OnlySession(named) ==
    IF named # None THEN {named} \cap Attached
    ELSE IF Len(attached) = 1 THEN Attached ELSE {}

\* A mutant: of two sessions that hold the number, the first answers.
FirstHolder(n) ==
    LET holding == SelectSeq(attached, LAMBDA p : n \in held[p])
    IN IF holding = <<>> THEN None ELSE Head(holding)

\* Addressed::of: the session that holds stop n, if one only does.
Of(n) ==
    LET holding == {p \in Attached : n \in held[p]}
    IN IF Cardinality(holding) = 1 THEN CHOOSE p \in holding : TRUE ELSE None

\* A mutant: the address is the one the call named, whatever the stop.
AskedByName(named, n) == OnlySession(named)

\* ask_in and dispatch: the session a request about stop n, or about none (0),
\* reaches, given the one the call named; none when it is refused.
AskedOf(named, n) ==
    IF n = 0 \/ Of(n) = None THEN OnlySession(named)
    ELSE IF named \in {None, Of(n)} THEN {Of(n)} ELSE {}

\* stop_of: the stop named, or the only one held in the sessions meant.
StopOf(named, n) ==
    IF n # 0 THEN {n}
    ELSE LET in == {h \in HeldNow : named \in {None, h[1]}}
         IN IF Cardinality(in) = 1 THEN {h[2] : h \in in} ELSE {}

-----------------------------------------------------------------------------
(***************************************************************************)
(* The beginning and the end of a call.                                    *)
(***************************************************************************)

Requests(tool, n) ==
    CASE tool = "step"     -> <<[kind |-> "step", stop |-> n], [kind |-> "wait", stop |-> 0]>>
      [] tool = "pause"    -> <<[kind |-> "pause", stop |-> 0], [kind |-> "wait", stop |-> 0]>>
      [] tool = "continue" -> <<[kind |-> "run", stop |-> 0]>>
      [] OTHER             -> <<[kind |-> tool, stop |-> n]>>

\* A mutant: what was to be told with the answer goes with the failure.
FailsAndForgets(c) ==
    /\ call' = NoCall /\ unsure' = TRUE
    /\ joined' = {}
    /\ UNCHANGED <<seen, believed>>

\* The tool failed: the client reads why, and nothing is attached to that.
Fails(c) ==
    /\ call' = NoCall /\ unsure' = TRUE
    /\ UNCHANGED <<joined, seen, believed>>

\* Nothing but the call is touched while a tool begins.
Begins(c) ==
    /\ call' = c /\ calls' = calls + 1
    /\ UNCHANGED <<programs, debuggee, holds, joined, client>>

\* The client names a stop it takes to be held, or leaves it out.
CallAboutStop ==
    \E tool \in Tools \cap ByStop, named \in seen \cup {None}, n \in 0..MaxStops :
        LET meant == {h \in believed : named \in {None, h[1]} /\ n \in {0, h[2]}}
            c == [NoCall EXCEPT !.tool = tool, !.session = named, !.meant = meant]
        IN /\ call = NoCall /\ calls < MaxCalls /\ holds
           /\ meant # {} /\ ~(Resyncs /\ unsure)
           /\ IF StopOf(named, n) = {}
                THEN /\ Fails(c) /\ calls' = calls + 1
                     /\ UNCHANGED <<programs, debuggee, holds>>
                ELSE \E s \in StopOf(named, n) : Begins([c EXCEPT !.todo = Requests(tool, s)])

\* The client asks about a program, the only one it knows or one it names.
CallAboutProgram ==
    \E tool \in Tools \cap ByProgram, named \in seen \cup {None} :
        /\ call = NoCall /\ calls < MaxCalls /\ holds
        /\ Begins([NoCall EXCEPT
              !.tool = tool, !.session = named, !.todo = Requests(tool, 0),
              !.meant = {<<p, 0>> : p \in IF named # None THEN {named} ELSE seen}])

\* sessions: every session and what it holds, off the engine's list.
CallSessions ==
    /\ "sessions" \in Tools /\ call = NoCall /\ calls < MaxCalls /\ holds
    /\ Begins([NoCall EXCEPT !.tool = "sessions"])

\* launch: a debuggee held before its first statement, or one that never was.
CallLaunch ==
    /\ "launch" \in Tools /\ call = NoCall /\ calls < MaxCalls /\ ~holds
    /\ calls' = calls + 1
    /\ \E p \in Mains :
          /\ life[p] = "none"
          /\ \/ /\ life' = [life EXCEPT ![p] = "gone"]
                /\ call' = [NoCall EXCEPT !.tool = "launch"]
                /\ UNCHANGED <<inForce, minted, debuggee, holds>>
             \/ /\ life'     = [life EXCEPT ![p] = "open"]
                /\ minted'   = [minted EXCEPT ![p] = 1]
                /\ inForce'  = [inForce EXCEPT ![p] = {1}]
                /\ attached' = <<p>> /\ holds' = TRUE
                /\ held'     = [q \in Programs |-> IF q = p THEN {1} ELSE {}]
                /\ call'     = [NoCall EXCEPT !.tool = "launch", !.got = {<<p, 1>>},
                                  !.todo = <<[kind |-> "read", stop |-> 1]>>]
    /\ UNCHANGED <<said, wire, joined, client>>

\* terminate: the process bpd started is killed, one it did not is refused, and
\* the debuggee is forgotten with its last session.
CallTerminate ==
    /\ "terminate" \in Tools /\ call = NoCall /\ calls < MaxCalls /\ holds
    /\ calls' = calls + 1
    /\ \E named \in seen \cup {None} :
         IF OnlySession(named) \subseteq Kids
           THEN Fails(NoCall) /\ UNCHANGED <<programs, holds>>
           ELSE \E p \in OnlySession(named) :
                  /\ life'    = [life EXCEPT ![p] = "gone"]
                  /\ inForce' = [inForce EXCEPT ![p] = {}]
                  /\ holds'   = (Len(attached) > 1)
                  /\ call'    = [NoCall EXCEPT !.tool = "terminate", !.freed = {p} \X (1..MaxStops)]
                  /\ UNCHANGED <<minted, said, wire, joined, client>>
    /\ UNCHANGED debuggee

\* Everything the tool asked has been answered, and the client reads it: what
\* stopped, what is held where the answer lists it, and who joined.
Answer ==
    LET lists == call.tool \in {"sessions", "resume"} \/ call.timed
    IN /\ call.tool # "none" /\ call.todo = <<>> /\ call.at = None
       /\ believed' = call.got \cup IF lists THEN IF holds THEN HeldNow ELSE {}
                                             ELSE believed \ call.freed
       /\ seen'   = seen \cup joined \cup {h[1] : h \in call.got}
                      \cup IF call.tool = "sessions" THEN Attached ELSE {}
       /\ unsure' = (unsure /\ ~lists)
       /\ joined' = {} /\ call' = NoCall
       /\ UNCHANGED <<programs, debuggee, holds, calls>>

-----------------------------------------------------------------------------
(***************************************************************************)
(* One dispatch: Debuggee::dispatch, Attached::ask and send_and_wait.      *)
(***************************************************************************)

\* exit_code: a child that was reaped, a connection closed with nothing left on it.
Over(p) == life[p] = "gone" /\ (p \in Mains \/ wire[p] = <<>>)

\* Refused before anything is sent: nothing is held, and the program is over or
\* the request needs a held thread.  A pause is sent without looking.
Unsendable(p, r) == /\ r.kind # "pause" /\ held[p] = {}
                    /\ Over(p) \/ r.kind # "process"

\* What is read on the way to an answer, and kept: the stops announced before it.
ReadUpTo(p, freed) ==
    /\ wire' = [wire EXCEPT ![p] = <<>>]
    /\ held' = [held EXCEPT ![p] = (@ \cup (ToSet(wire[p]) \ {0})) \ freed]

Answers(c) == call' = c /\ UNCHANGED <<joined, client>>

\* Refused by the addressing rules, by the engine, or by the agent.
Refuse ==
    LET r == Head(call.todo)
        to == AskedOf(call.session, r.stop)
    IN /\ call.todo # <<>> /\ call.at = None
       /\ \/ /\ \A p \in to : r.kind # "wait" /\ Unsendable(p, r)
             /\ UNCHANGED <<wire, debuggee>>
          \/ \E p \in to : /\ r.kind # "wait" /\ ~Unsendable(p, r) /\ life[p] = "open"
                           /\ r.stop # 0 /\ r.stop \notin inForce[p]
                           /\ ReadUpTo(p, {}) /\ UNCHANGED attached
       /\ Fails(call)
       /\ UNCHANGED <<life, inForce, minted, said, holds, calls>>

\* The agent is gone: the send fails, or the answer never comes.  Of a Run that
\* is not a failure, for the wait reads how the program ended.
Lose ==
    LET r == Head(call.todo) IN
    /\ call.todo # <<>> /\ call.at = None
    /\ \E p \in AskedOf(call.session, r.stop) :
          /\ r.kind # "wait" /\ ~Unsendable(p, r) /\ life[p] = "gone"
          /\ ReadUpTo(p, {}) \/ UNCHANGED <<wire, held>>
          /\ IF r.kind = "run"
               THEN Answers([call EXCEPT !.todo = Tail(@), !.at = p, !.looked = FALSE])
               ELSE Fails(call)
    /\ UNCHANGED <<life, inForce, minted, said, attached, holds, calls>>

\* Answered: what the request lets go is let go, at both ends.
Perform ==
    LET r == Head(call.todo) IN
    /\ call.todo # <<>> /\ call.at = None
    /\ \E p \in AskedOf(call.session, r.stop) :
          /\ r.kind # "wait" /\ ~Unsendable(p, r) /\ life[p] = "open"
          /\ r.stop # 0 => r.stop \in inForce[p]
          /\ \E freed \in CASE r.kind = "step"   -> {{r.stop}}
                            [] r.kind = "run"    -> {inForce[p]}
                            [] r.kind = "resume" -> {inForce[p]} \cup {{n} : n \in inForce[p]}
                            [] OTHER             -> {{}} :
                /\ ReadUpTo(p, freed)
                /\ inForce' = [inForce EXCEPT ![p] = @ \ freed]
                /\ Answers([call EXCEPT !.todo = Tail(@), !.looked = FALSE,
                              !.at = IF r.kind = "run" THEN p ELSE None,
                              !.acted = @ \cup {<<p, r.stop>>},
                              !.freed = @ \cup {p} \X freed])
    /\ UNCHANGED <<life, minted, said, attached, holds, calls>>

-----------------------------------------------------------------------------
(***************************************************************************)
(* Debuggee::wait_for, and what outcome asks of the stop it returns.       *)
(***************************************************************************)

StartWait ==
    /\ call.todo # <<>> /\ call.at = None /\ Head(call.todo).kind = "wait"
    /\ \E p \in OnlySession(call.session) :
          Answers([call EXCEPT !.todo = Tail(@), !.at = p, !.looked = FALSE])
    /\ UNCHANGED <<programs, debuggee, holds, calls>>

Knocking == {q \in Programs : life[q] = "knocking"}

\* The listener is looked at before the connection: one agent at most joins.
Look ==
    /\ call.at # None /\ ~call.looked
    /\ call' = [call EXCEPT !.looked = TRUE]
    /\ IF Knocking = {}
         THEN UNCHANGED <<life, attached, joined>>
         ELSE \E q \in Knocking : /\ life'     = [life EXCEPT ![q] = "open"]
                                  /\ attached' = Append(attached, q)
                                  /\ joined'   = joined \cup {q}
    /\ UNCHANGED <<inForce, minted, said, wire, held, holds, calls, client>>

\* A message is read: a stop ends the wait, and the answer to it is put
\* together with requests of their own; anything else sends it round again.
Read ==
    LET p == call.at  n == Head(wire[p]) IN
    /\ p # None /\ call.looked /\ wire[p] # <<>>
    /\ wire' = [wire EXCEPT ![p] = Tail(@)]
    /\ IF n = 0
         THEN Answers([call EXCEPT !.looked = FALSE]) /\ UNCHANGED held
         ELSE /\ held' = [held EXCEPT ![p] = @ \cup {n}]
              /\ \E kinds \in {<<>>, <<"read">>, <<"world">>, <<"world", "read">>} :
                    Answers([call EXCEPT !.at = None, !.got = @ \cup {<<p, n>>},
                               !.todo = [i \in DOMAIN kinds |-> [kind |-> kinds[i], stop |-> n]]])
    /\ UNCHANGED <<life, inForce, minted, said, attached, holds, calls>>

\* A slice of the wait passes, and somebody knocks.
Slice ==
    /\ call.at # None /\ call.looked /\ wire[call.at] = <<>>
    /\ life[call.at] # "gone" /\ Knocking # {}
    /\ Answers([call EXCEPT !.looked = FALSE])
    /\ UNCHANGED <<programs, debuggee, holds, calls>>

\* A mutant: the wait that follows a step carries no deadline.
TimesOutUnlessStepping ==
    /\ call.at # None /\ call.looked /\ wire[call.at] = <<>>
    /\ life[call.at] # "gone" /\ call.tool # "step"
    /\ Answers([call EXCEPT !.at = None, !.timed = TRUE])
    /\ UNCHANGED <<programs, debuggee, holds, calls>>

\* The deadline passes with nothing to read.
TimesOut ==
    /\ call.at # None /\ call.looked /\ wire[call.at] = <<>>
    /\ life[call.at] # "gone"
    /\ Answers([call EXCEPT !.at = None, !.timed = TRUE])
    /\ UNCHANGED <<programs, debuggee, holds, calls>>

\* The connection is at its end: the program exited, or ended unread.
End ==
    /\ call.at # None /\ call.looked /\ wire[call.at] = <<>>
    /\ life[call.at] = "gone"
    /\ Answers([call EXCEPT !.at = None, !.freed = @ \cup {call.at} \X (1..MaxStops)])
    /\ UNCHANGED <<programs, debuggee, holds, calls>>

-----------------------------------------------------------------------------

Init ==
    /\ life = [p \in Programs |-> "none"]
    /\ inForce = [p \in Programs |-> {}]
    /\ minted = [p \in Programs |-> 0] /\ said = [p \in Programs |-> 0]
    /\ wire = [p \in Programs |-> <<>>]
    /\ attached = <<>> /\ held = [p \in Programs |-> {}]
    /\ holds = FALSE /\ joined = {} /\ call = NoCall /\ calls = 0
    /\ seen = {} /\ believed = {} /\ unsure = FALSE

Runs(p)  == Reach(p) \/ Announce(p) \/ Fork(p) \/ Die(p)
Calls    == CallAboutStop \/ CallAboutProgram \/ CallSessions \/ CallLaunch \/ CallTerminate
Dispatch == Refuse \/ Lose \/ Perform \/ StartWait
Waits    == Look \/ Read \/ Slice \/ TimesOut \/ End

Next == (\E p \in Programs : Runs(p)) \/ Calls \/ Dispatch \/ Waits \/ Answer

Spec == Init /\ [][Next]_vars

\* The server's thread is scheduled, and an agent that is there answers.
\* Nothing makes a program do anything, or the client call.
FairSpec == Spec /\ WF_vars(Dispatch \/ Waits \/ Answer)

-----------------------------------------------------------------------------
(***************************************************************************)
(* Properties.                                                             *)
(***************************************************************************)

\* A call acts where its caller meant: on a stop the client was told of and takes
\* to be held, on a program it named or on the only one it knows, and on the
\* stop it is about to be told.  No thread is let go or read for another.
ActsAsMeant == call.acted \subseteq call.meant \cup call.got

\* A stop that ended a wait is told with the answer to that call: what is asked
\* of it afterwards fails only if the program went meanwhile.
ReturnedIsTold ==
    [][call # NoCall /\ call' = NoCall =>
          \A h \in call.got : h \in believed' \/ life[h[1]] = "gone"]_vars

\* A session that joins is a held process: whatever becomes of the call it joined
\* in, the client knows of it or is to be told with the next answer.
JoinedAreTold == holds => Attached \subseteq seen \cup joined \cup {h[1] : h \in call.got} \cup Mains

\* Every call comes back: that is what the deadlines are for.
CallReturns == (call # NoCall) ~> (call = NoCall)

\* A step that let its thread go comes back with an answer.
StepIsAnswered ==
    [][call.tool = "step" /\ call.freed # {} /\ call' = NoCall =>
          unsure' = unsure \/ \E h \in call.freed : life[h[1]] = "gone"]_vars

\* Nothing of a program the client was told is over is listed as held.
OverHoldsNothing ==
    [][call.timed /\ call' = NoCall => \A h \in believed' : ~Over(h[1])]_vars

=============================================================================
