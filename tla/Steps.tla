-------------------------------- MODULE Steps --------------------------------
(***************************************************************************)
(* What a stopped thread arms and is let go with: a step, a restart of a   *)
(* frame through its caller, an unwinding to a frame further down          *)
(* (crates/bpd_agent/src/steps.rs, restarts.rs, unwinds.rs), the registry  *)
(* they share (armed.rs), the masks of the interpreter (events.rs) and the *)
(* callbacks that carry them on (lib.rs).                                  *)
(*                                                                         *)
(* The program is any program: a thread begins lines, calls, returns and   *)
(* raises as it likes.  A callback is one step, as it is on a build with a *)
(* GIL.  Handlers are operators from a session to a session.               *)
(***************************************************************************)
EXTENDS Naturals, Sequences, FiniteSets, SequencesExt

CONSTANTS
    Threads,
    Codes,      \* the program's code objects
    Library,    \* those just-my-code passes through
    Launcher,   \* those of the launcher
    Lines,      \* the lines of each
    Calls,      \* the calls a line makes, by their offset
    Breaks,     \* the lines with a breakpoint: a set of <<code, line>>
    Entry,      \* the code each thread runs
    Depth,      \* bound: how many frames each thread has
    MaxAsks,    \* bound: how many stops are ended by something other than a plain resume
    MaxPauses,  \* bound: how many pauses are asked for
    Stopping    \* whether raised exceptions stop the program

ASSUME StepsAssumption ==
    /\ Library \subseteq Codes /\ Launcher \subseteq Codes
    /\ Lines \subseteq Nat \ {0} /\ Calls \subseteq Nat \ {0}
    /\ Breaks \subseteq Codes \X Lines
    /\ Entry \in [Threads -> Codes] /\ Depth \in [Threads -> Nat \ {0}]
    /\ {MaxAsks, MaxPauses} \subseteq Nat /\ Stopping \in BOOLEAN

VARIABLES
    stack,   \* the frames of each thread, the innermost last
    at,      \* where each thread is
    after,   \* where a held thread goes on from
    why,     \* the reason of each thread's last stop
    session, \* the agent and the interpreter's masks
    asked,   \* history: the step each thread was last let go with
    left     \* how much of the bounds is left

vars == <<stack, at, after, why, session, asked, left>>

-----------------------------------------------------------------------------
(* Frames.  A frame's identity is its address, which a later frame gets    *)
(* again unless something still refers to it.                              *)

Through == Library \cup Launcher

Frame(id, c) == [id |-> id, code |-> c, line |-> 0, call |-> 0]

FirstLine   == CHOOSE l \in Lines : \A m \in Lines : l <= m
Top(stk)    == Last(stk)
Caller(stk) == stk[Len(stk) - 1]
IdsOf(stk)  == {stk[i].id : i \in 1..Len(stk)}
FrameOf(stk, id) == CHOOSE f \in {stk[i] : i \in 1..Len(stk)} : f.id = id

NoStep    == [on |-> FALSE, kind |-> "nothing", frame |-> 0, armed |-> {}, landing |-> "notYet",
              entering |-> FALSE, target |-> 0, through |-> FALSE, notAgain |-> 0]
NoRestart == [on |-> FALSE, caller |-> 0, frame |-> 0, line |-> 0, code |-> "none",
              watching |-> {}, phase |-> "landing"]
NoUnwind  == [on |-> FALSE, target |-> 0, watching |-> {}, above |-> <<>>]
NotAsked  == [kind |-> "nothing", frame |-> 0, line |-> 0, target |-> 0, own |-> FALSE,
              leaving |-> FALSE, low |-> 0]

Referred(s, t) == {s.step[t].frame, s.restart[t].caller, s.restart[t].frame,
                   s.unwind[t].target, asked[t].frame} \cup ToSet(s.unwind[t].above)

Fresh(t) == CHOOSE id \in 1..(Depth[t] + 6) :
              /\ id \notin IdsOf(stack[t]) \cup Referred(session, t)
              /\ \A low \in 1..(id - 1) : low \in IdsOf(stack[t]) \cup Referred(session, t)

-----------------------------------------------------------------------------
(* The registry of what is armed, and the masks it decides.                *)

Events == {"line", "instruction", "return"}

NoInterest == [held |-> FALSE, watching |-> [c \in Codes |-> {}], entering |-> FALSE]

ArmedAnywhere(s)    == \E t \in Threads : s.interest[t].held
EnteringAnywhere(s) == \E t \in Threads : s.interest[t].entering

\* What a code object's events ought to be.
LocalWanted(s, c) == (IF \E l \in Lines : <<c, l>> \in Breaks THEN {"line"} ELSE {})
                       \cup UNION {s.interest[t].watching[c] : t \in Threads}

GlobalWanted(s) == (IF s.pausing THEN {"line"} ELSE {})
                     \cup (IF ArmedAnywhere(s) THEN {"unwind"} ELSE {})
                     \cup (IF EnteringAnywhere(s) THEN {"resume", "throw"} ELSE {})

RefreshCodes(s, codes) ==
    [s EXCEPT !.local = [c \in Codes |-> IF c \in codes THEN LocalWanted(s, c) ELSE @[c]]]
RefreshEvents(s) == [s EXCEPT !.global = GlobalWanted(s)]
\* A mutant: locations are not offered again.
RestartLocationsNot(s) == s

RestartLocations(s) == [s EXCEPT !.disabled = {}]

HoldInterest(s, t, entering) ==
    [s EXCEPT !.interest[t] = [NoInterest EXCEPT !.held = TRUE, !.entering = entering]]
ReleaseInterest(s, t) == [s EXCEPT !.interest[t] = NoInterest]
Watch(s, t, c, events) == RefreshCodes([s EXCEPT !.interest[t].watching[c] = events], {c})

LineOffered(c, l) == "line" \in session.local[c] \cup session.global
                       /\ <<c, l>> \notin session.disabled
StartOffered(c) == <<c, 0>> \notin session.disabled

-----------------------------------------------------------------------------
(* A step.                                                                 *)

StepRelease(s, t) ==
    LET off == ReleaseInterest([s EXCEPT !.step[t] = NoStep], t)
    IN  RefreshEvents(RefreshCodes(off, s.step[t].armed))
StepCancel(s, t) == IF s.step[t].on THEN StepRelease(s, t) ELSE s

StepWatch(s, t, c) ==
    LET landing == s.step[t].landing
        events  == {"return"} \cup (IF landing = "notYet" THEN {} ELSE {landing})
    IN  Watch([s EXCEPT !.step[t].armed = @ \cup {c}], t, c, events)

GoOnEntering(s, t) ==
    IF s.step[t].entering THEN s
    ELSE RefreshEvents([s EXCEPT !.step[t].entering = TRUE, !.interest[t].entering = TRUE])

\* The step goes on in another frame.
Follow(s, t, f, landing) ==
    LET old     == s.step[t]
        through == f.code \in Through
        step    == [old EXCEPT !.through = through,
                               !.target = IF f.id = old.frame THEN @ ELSE 0,
                               !.frame = f.id, !.landing = landing, !.entering = FALSE,
                               !.notAgain = 0, !.armed = {}]
        moved   == [s EXCEPT !.step[t] = step,
                             !.interest[t] = [NoInterest EXCEPT !.held = TRUE]]
        watched == StepWatch(RefreshCodes(moved, old.armed), t, f.code)
        on      == IF through /\ (old.kind = "in" \/ f.code \in Library)
                   THEN GoOnEntering(watched, t) ELSE watched
    IN  RefreshEvents(on)

\* A mutant: whatever frame is entered is the chosen call's.
StepEnteredAnyCall(s, t, stk) ==
    IF ~s.step[t].on \/ ~s.step[t].entering \/ Top(stk).id = s.step[t].frame THEN s
    ELSE IF Top(stk).code \in Through THEN s
    ELSE Follow(s, t, Top(stk), "line")

\* A frame was entered on the stepping thread.
StepEntered(s, t, stk) ==
    LET step   == s.step[t]
        called == Len(stk) > 1 /\ Caller(stk).id = step.frame /\ Caller(stk).call = step.target
        chosen == [s EXCEPT !.step[t].target = 0]
    IN  IF ~step.on \/ ~step.entering \/ Top(stk).id = step.frame THEN s
        ELSE IF step.target # 0 /\ ~called THEN s
        ELSE IF Top(stk).code \in Through THEN chosen
        ELSE Follow(chosen, t, Top(stk), "line")

\* A mutant: the step stays with the frame that is left.
StepLeftStays(s, t, stk, landing) == s

\* A frame is being left, by a return ("instruction" is what follows it in the
\* caller) or by an exception ("line").
StepLeft(s, t, stk, landing) ==
    LET passed == s.step[t].through /\ s.step[t].kind = "in"
        back   == Follow(s, t, Caller(stk), IF passed THEN "line" ELSE landing)
    IN  IF ~s.step[t].on \/ Top(stk).id # s.step[t].frame THEN s
        ELSE IF Len(stk) = 1 THEN StepRelease(s, t)
        ELSE IF passed
             THEN GoOnEntering([back EXCEPT !.step[t].notAgain = Caller(stk).line], t)
        ELSE back

\* Whether an event in the innermost frame is what the step waits for.
StepWaits(s, t, stk, event) ==
    s.step[t].on /\ s.step[t].landing = event /\ Top(stk).id = s.step[t].frame

StepLands(s, t, stk, event) ==
    /\ StepWaits(s, t, stk, event) /\ Top(stk).code \notin Through
    /\ ~(event = "line" /\ s.step[t].notAgain = Top(stk).line)

StepReached(s, t, stk, event) ==
    IF StepLands(s, t, stk, event) THEN StepRelease(s, t)
    ELSE IF StepWaits(s, t, stk, event) /\ Top(stk).code \in Through
         THEN Follow(s, t, Top(stk), "notYet")
    ELSE s

-----------------------------------------------------------------------------
(* A restart through the caller.                                           *)

RestartRelease(s, t) ==
    LET off == ReleaseInterest([s EXCEPT !.restart[t] = NoRestart], t)
    IN  RefreshEvents(RefreshCodes(off, s.restart[t].watching))
RestartCancel(s, t) == IF s.restart[t].on THEN RestartRelease(s, t) ELSE s

RestartWatch(s, t, c) == Watch([s EXCEPT !.restart[t].watching = @ \cup {c}], t, c, {"line"})

RestartArm(s, t, stk) ==
    LET restart == [on |-> TRUE, caller |-> Caller(stk).id, frame |-> 0,
                    line |-> Caller(stk).line, code |-> Top(stk).code,
                    watching |-> {}, phase |-> "rewinding"]
        held == HoldInterest(StepCancel(s, t), t, FALSE)
    IN  RefreshEvents(RestartLocations(
          RestartWatch([held EXCEPT !.restart[t] = restart], t, Caller(stk).code)))

Rewinds(s, t, stk) == /\ s.restart[t].on /\ s.restart[t].phase = "rewinding"
                      /\ Top(stk).id = s.restart[t].caller

Rewound(s, t) ==
    RefreshEvents(RestartWatch([s EXCEPT !.restart[t].phase = "entering",
                                         !.interest[t].entering = TRUE],
                               t, s.restart[t].code))

RestartEntered(s, t, stk) ==
    IF /\ s.restart[t].on /\ s.restart[t].phase = "entering"
       /\ Top(stk).code = s.restart[t].code
       /\ Len(stk) > 1 /\ Caller(stk).id = s.restart[t].caller
    THEN RefreshEvents([s EXCEPT !.interest[t].entering = FALSE,
                                 !.restart[t].phase = "landing",
                                 !.restart[t].frame = Top(stk).id])
    ELSE s

RestartLeft(s, t, stk) == /\ s.restart[t].on /\ s.restart[t].phase # "landing"
                          /\ Top(stk).id = s.restart[t].caller

RestartLands(s, t, stk) == /\ s.restart[t].on /\ s.restart[t].phase = "landing"
                           /\ Top(stk).id = s.restart[t].frame

-----------------------------------------------------------------------------
(* An unwinding to a frame further down.                                   *)

UnwindRelease(s, t) ==
    LET off == ReleaseInterest([s EXCEPT !.unwind[t] = NoUnwind], t)
    IN  RefreshEvents(RefreshCodes(off, s.unwind[t].watching))
UnwindCancel(s, t) == IF s.unwind[t].on THEN UnwindRelease(s, t) ELSE s

\* i is the frame to run again; all that is above it is forced out.
UnwindArm(s, t, stk, i) ==
    LET above == Reverse(SubSeq(stk, i + 1, Len(stk)))
        codes == {stk[j].code : j \in i..Len(stk)}
        unwind == [on |-> TRUE, target |-> stk[i].id, watching |-> codes,
                   above |-> [j \in 1..Len(above) |-> above[j].id]]
        held == [HoldInterest(StepCancel(s, t), t, FALSE) EXCEPT
                   !.unwind[t] = unwind,
                   !.interest[t].watching = [c \in Codes |-> IF c \in codes THEN {"line"} ELSE {}]]
    IN  RefreshEvents(RestartLocations(RefreshCodes(held, codes)))

ForcedOut(s, t, id) ==
    LET above == s.unwind[t].above
        gone  == CHOOSE i \in 1..Len(above) : above[i] = id
    IN  [s EXCEPT !.unwind[t].above = SubSeq(above, gone + 1, Len(above))]

\* A mutant: the step alone.
LeftArmedStepOnly(s, t) == StepCancel(s, t)

\* Every stop that is not one of these takes off whatever the thread has armed.
LeftArmedHere(s, t) == UnwindCancel(RestartCancel(StepCancel(s, t), t), t)

-----------------------------------------------------------------------------
(* Being held, and what a held thread is let go with.                      *)

Stop(t, reason, place) ==
    /\ at' = [at EXCEPT ![t] = "held"]
    /\ after' = [after EXCEPT ![t] = place]
    /\ why' = [why EXCEPT ![t] = reason]
    /\ UNCHANGED <<asked, left>>

RunOn(t, place) ==
    /\ at' = [at EXCEPT ![t] = place]
    /\ UNCHANGED <<after, why, asked, left>>

\* A line that the thread was held at has begun.
Onward(t) == at' = [at EXCEPT ![t] = IF after[t] = "line" THEN "mid" ELSE after[t]]

Resume(t) ==
    /\ at[t] = "held"
    /\ Onward(t)
    /\ session' = RefreshEvents(session)
    /\ asked' = [asked EXCEPT ![t] = NotAsked]
    /\ UNCHANGED <<stack, after, why, left>>

Asking(t) ==
    /\ at[t] = "held" /\ left.asks > 0
    /\ left' = [left EXCEPT !.asks = @ - 1]
    /\ UNCHANGED <<after, why>>

StepArm(s, t, kind, target) ==
    LET f    == Top(stack[t])
        step == [on |-> TRUE, kind |-> kind, frame |-> f.id, armed |-> {},
                 landing |-> IF kind = "out" THEN "notYet" ELSE "line",
                 entering |-> kind = "in", target |-> target, through |-> FALSE,
                 notAgain |-> 0]
        held == HoldInterest(RestartCancel(s, t), t, kind = "in")
    IN  RefreshEvents(RestartLocations(StepWatch([held EXCEPT !.step[t] = step], t, f.code)))

Step(t, kind, target) ==
    /\ Asking(t)
    /\ target # 0 => kind = "in"
    /\ session' = StepArm(RefreshEvents(session), t, kind, target)
    /\ Onward(t)
    /\ asked' = [asked EXCEPT ![t] = [kind |-> kind, frame |-> Top(stack[t]).id,
                                      line |-> Top(stack[t]).line, target |-> target,
                                      own |-> Top(stack[t]).code \notin Through,
                                      leaving |-> after[t] = "leaving",
                                      low |-> Len(stack[t])]]
    /\ UNCHANGED stack

\* The innermost frame is moved to an exit, and returns from there.  The line
\* of its caller makes one call, and a line of the caller follows it.
RestartFrame(t) ==
    /\ Asking(t) /\ after[t] = "line" /\ Len(stack[t]) > 1
    /\ session' = RestartArm(session, t, stack[t])
    /\ at' = [at EXCEPT ![t] = "forced"]
    /\ asked' = [asked EXCEPT ![t] = NotAsked]
    /\ UNCHANGED stack

UnwindTo(t, i) ==
    /\ Asking(t) /\ after[t] = "line"
    /\ session' = UnwindArm(session, t, stack[t], i)
    /\ at' = [at EXCEPT ![t] = "forced"]
    /\ asked' = [asked EXCEPT ![t] = NotAsked]
    /\ UNCHANGED stack

\* The innermost frame is run again where it stands, and the thread stays held.
ResetInPlace(t) ==
    /\ Asking(t) /\ after[t] = "line"
    /\ stack' = [stack EXCEPT ![t][Len(stack[t])].line = FirstLine]
    /\ UNCHANGED <<at, session, asked>>

AskPause ==
    /\ left.pauses > 0 /\ ~session.pausing
    /\ left' = [left EXCEPT !.pauses = @ - 1]
    /\ session' = RefreshEvents([session EXCEPT !.pausing = TRUE])
    /\ UNCHANGED <<stack, at, after, why, asked>>

-----------------------------------------------------------------------------
(* The LINE callback.  stk is the stack with the line in it.               *)

Unwinds(t, stk) == /\ session.unwind[t].on
                   /\ Top(stk).id \in {session.unwind[t].target} \cup ToSet(session.unwind[t].above)

UnwindTakesLine(t, stk) ==
    /\ Unwinds(t, stk)
    /\ \/ /\ Top(stk).id = session.unwind[t].target
          /\ session' = UnwindRelease(session, t)
          /\ \/ /\ Stop(t, "reset", "line")
                /\ stack' = [stack EXCEPT ![t] = [stk EXCEPT ![Len(stk)].line = FirstLine]]
             \/ /\ Stop(t, "abandoned", "line")
                /\ stack' = [stack EXCEPT ![t] = stk]
       \/ /\ Top(stk).id # session.unwind[t].target
          /\ stack' = [stack EXCEPT ![t] = stk]
          /\ \/ session' = ForcedOut(session, t, Top(stk).id) /\ RunOn(t, "forced")
             \/ session' = UnwindRelease(session, t) /\ Stop(t, "abandoned", "line")

RestartTakesLine(t, stk) ==
    /\ ~Unwinds(t, stk) /\ Rewinds(session, t, stk)
    /\ \/ /\ session' = Rewound(session, t)
          /\ stack' = [stack EXCEPT ![t] = [stk EXCEPT ![Len(stk)].line = session.restart[t].line]]
          /\ RunOn(t, "rewound")
       \/ /\ session' = RestartRelease(session, t)
          /\ stack' = [stack EXCEPT ![t] = stk]
          /\ Stop(t, "abandoned", "line")

Unwanted(stk) == /\ <<Top(stk).code, Top(stk).line>> \notin Breaks
                 /\ ~ArmedAnywhere(session) /\ ~session.pausing

ForgetsLine(t, stk) ==
    /\ ~Unwinds(t, stk) /\ ~Rewinds(session, t, stk) /\ Unwanted(stk)
    /\ session' = [session EXCEPT !.disabled = @ \cup {<<Top(stk).code, Top(stk).line>>}]
    /\ stack' = [stack EXCEPT ![t] = stk]
    /\ RunOn(t, "line")

\* hit: a breakpoint of the line decided to stop.
DecidesLine(t, stk, hit) ==
    LET reached   == StepReached(session, t, stk, "line")
        landed    == StepLands(session, t, stk, "line")
        restarted == RestartLands(reached, t, stk)
        both      == IF restarted THEN RestartRelease(reached, t) ELSE reached
        paused    == session.pausing /\ Top(stk).code \notin Launcher
        unpaused  == RefreshEvents([both EXCEPT !.pausing = FALSE])
    IN  /\ ~Unwinds(t, stk) /\ ~Rewinds(session, t, stk) /\ ~Unwanted(stk)
        /\ hit => <<Top(stk).code, Top(stk).line>> \in Breaks
        /\ stack' = [stack EXCEPT ![t] = stk]
        /\ \/ hit /\ session' = LeftArmedHere(both, t) /\ Stop(t, "breakpoint", "line")
           \/ ~hit /\ restarted /\ session' = StepCancel(both, t) /\ Stop(t, "restarted", "line")
           \/ ~hit /\ ~restarted /\ landed /\ session' = both /\ Stop(t, "stepped", "line")
           \/ /\ ~hit /\ ~restarted /\ ~landed /\ paused
              /\ session' = LeftArmedHere(unpaused, t)
              /\ Stop(t, "paused", "line")
           \/ /\ ~hit /\ ~restarted /\ ~landed /\ ~paused
              /\ session' = both
              /\ RunOn(t, "line")

-----------------------------------------------------------------------------
(* The program, and the other callbacks.                                   *)

InLine(t) == at[t] \in {"line", "mid", "past"}

BeginLine(t, l) ==
    LET stk == [stack[t] EXCEPT ![Len(stack[t])].line = l, ![Len(stack[t])].call = 0]
    IN  /\ InLine(t) \/ at[t] \in {"started", "tail", "raising"}
        /\ IF ~LineOffered(Top(stk).code, l)
           THEN /\ stack' = [stack EXCEPT ![t] = stk]
                /\ UNCHANGED session
                /\ RunOn(t, "line")
           ELSE \/ UnwindTakesLine(t, stk)
                \/ RestartTakesLine(t, stk)
                \/ ForgetsLine(t, stk)
                \/ \E hit \in BOOLEAN : DecidesLine(t, stk, hit)

\* A chosen call that enters a library is from then on a step in like any other.
ChosenEntersThrough(t, stk) ==
    /\ Caller(stk).id = asked[t].frame /\ Caller(stk).call = asked[t].target
    /\ Top(stk).code \in Through

\* A frame is entered; a line that was rewound to makes the call it made.
Call(t, c, k) ==
    LET here == [stack[t] EXCEPT ![Len(stack[t])].call = k]
        stk  == Append(here, Frame(Fresh(t), c))
        heard == RestartEntered(StepEntered(session, t, stk), t, stk)
    IN  /\ InLine(t) \/ at[t] = "rewound"
        /\ at[t] = "rewound" => c = session.restart[t].code
        /\ Len(stack[t]) < Depth[t]
        /\ stack' = [stack EXCEPT ![t] = stk]
        /\ session' = IF ~StartOffered(c) THEN session
                      ELSE IF EnteringAnywhere(heard) THEN heard
                      ELSE [heard EXCEPT !.disabled = @ \cup {<<c, 0>>}]
        /\ at' = [at EXCEPT ![t] = "started"]
        /\ asked' = IF asked[t].kind = "in" /\ ChosenEntersThrough(t, stk)
                    THEN [asked EXCEPT ![t].target = 0] ELSE asked
        /\ UNCHANGED <<after, why, left>>

\* Where a thread is once the innermost frame is gone.
Popped(t, place) ==
    /\ stack' = [stack EXCEPT ![t] = Front(@)]
    /\ at' = [at EXCEPT ![t] = IF Len(stack[t]) = 1 THEN "over" ELSE place]
    /\ asked' = [asked EXCEPT ![t].low = IF Len(stack[t]) <= @ THEN Len(stack[t]) - 1 ELSE @]
    /\ UNCHANGED <<after, why, left>>

\* A frame moved to an exit returns with no line, and so does one whose line
\* ends with the call that was forced to return.
Return(t) ==
    /\ \/ InLine(t)
       \/ at[t] = "forced"
       \/ at[t] = "tail" /\ Top(stack[t]).id \in ToSet(session.unwind[t].above)
    /\ session' = IF "return" \in session.local[Top(stack[t]).code]
                  THEN StepLeft(session, t, stack[t], "instruction") ELSE session
    /\ Popped(t, IF InLine(t) THEN "returned" ELSE "tail")

\* The first instruction of the caller after a call.
Instruction(t) ==
    /\ at[t] = "returned"
    /\ UNCHANGED stack
    /\ IF "instruction" \notin session.local[Top(stack[t]).code]
       THEN UNCHANGED session /\ RunOn(t, "past")
       ELSE /\ session' = StepReached(session, t, stack[t], "instruction")
            /\ IF StepLands(session, t, stack[t], "instruction")
               THEN Stop(t, "stepped", "mid") ELSE RunOn(t, "past")

Raise(t) ==
    /\ InLine(t) \/ at[t] \in {"tail", "rewound"}
    /\ UNCHANGED stack
    /\ \/ UNCHANGED session /\ RunOn(t, "raising")
       \/ Stopping /\ session' = LeftArmedHere(session, t) /\ Stop(t, "raised", "raising")

Unwind(t) ==
    LET left1 == StepLeft(session, t, stack[t], "line")
    IN  /\ at[t] = "raising"
        /\ \/ "unwind" \notin session.global /\ UNCHANGED session /\ Popped(t, "raising")
           \/ /\ "unwind" \in session.global /\ RestartLeft(left1, t, stack[t])
              /\ session' = RestartRelease(left1, t)
              /\ UNCHANGED stack /\ Stop(t, "abandoned", "leaving")
           \/ /\ "unwind" \in session.global
              /\ left1.unwind[t].on /\ Top(stack[t]).id = left1.unwind[t].target
              /\ session' = UnwindRelease(left1, t)
              /\ UNCHANGED stack /\ Stop(t, "abandoned", "leaving")
           \/ /\ "unwind" \in session.global /\ ~RestartLeft(left1, t, stack[t])
              /\ ~(left1.unwind[t].on /\ Top(stack[t]).id = left1.unwind[t].target)
              /\ session' = left1
              /\ Popped(t, "raising")

\* The exception goes on out of a frame it was stopped in.
Leave(t) == at[t] = "leaving" /\ UNCHANGED session /\ Popped(t, "raising")

-----------------------------------------------------------------------------

Init ==
    /\ stack = [t \in Threads |-> <<Frame(1, Entry[t])>>]
    /\ at = [t \in Threads |-> "started"]
    /\ after = [t \in Threads |-> "line"]
    /\ why = [t \in Threads |-> "none"]
    /\ session = [step |-> [t \in Threads |-> NoStep],
                  restart |-> [t \in Threads |-> NoRestart],
                  unwind |-> [t \in Threads |-> NoUnwind],
                  interest |-> [t \in Threads |-> NoInterest],
                  local |-> [c \in Codes |-> IF \E l \in Lines : <<c, l>> \in Breaks
                                             THEN {"line"} ELSE {}],
                  global |-> {}, disabled |-> {}, pausing |-> FALSE]
    /\ asked = [t \in Threads |-> NotAsked]
    /\ left = [asks |-> MaxAsks, pauses |-> MaxPauses]

Engine(t) ==
    \/ Resume(t)
    \/ \E kind \in {"over", "in", "out"}, target \in Calls \cup {0} : Step(t, kind, target)
    \/ RestartFrame(t)
    \/ \E i \in 1..(Len(stack[t]) - 1) : UnwindTo(t, i)
    \/ ResetInPlace(t)

Program(t) ==
    \/ \E l \in Lines : BeginLine(t, l)
    \/ \E c \in Codes, k \in Calls : Call(t, c, k)
    \/ Return(t)
    \/ Instruction(t)
    \/ Raise(t)
    \/ Unwind(t)
    \/ Leave(t)

Next == AskPause \/ \E t \in Threads : Engine(t) \/ Program(t)

Spec == Init /\ [][Next]_vars

-----------------------------------------------------------------------------
(* Properties.                                                             *)

Places == {"started", "line", "mid", "past", "returned", "tail", "forced", "rewound", "raising",
           "leaving", "held", "over"}

\* Every variable has its type.
TypeOK ==
    /\ at \in [Threads -> Places]
    /\ \A t \in Threads : Len(stack[t]) <= Depth[t] /\ (at[t] = "over" <=> stack[t] = <<>>)
    /\ session.local \in [Codes -> SUBSET Events]
    /\ session.global \subseteq {"line", "unwind", "resume", "throw"}
    /\ session.disabled \subseteq Codes \X (Lines \cup {0})

\* A thread has at most one operation armed, the registry has an entry for it
\* exactly then, and a held thread has none: what armed.rs asserts of the next
\* one to be armed.
OneOperation ==
    \A t \in Threads :
      LET on == {op \in {"step", "restart", "unwind"} : session[op][t].on}
      IN  /\ Cardinality(on) <= 1
          /\ session.interest[t].held <=> on # {}
          /\ at[t] = "held" => on = {}

\* The interpreter's masks are exactly what breakpoints and armed operations of
\* all threads want: nothing anybody waits for is off, and nothing is left on.
OnlyWhatIsArmed ==
    /\ \A c \in Codes : session.local[c] = LocalWanted(session, c)
    /\ session.global = GlobalWanted(session)

\* An operation in flight waits for a frame that its thread still runs.
InFlightIsLive ==
    \A t \in Threads :
      /\ session.step[t].on /\ ~asked[t].leaving => session.step[t].frame \in IdsOf(stack[t])
      /\ session.restart[t].on /\ session.restart[t].phase # "entering" =>
           session.restart[t].caller \in IdsOf(stack[t])
      /\ session.unwind[t].on => session.unwind[t].target \in IdsOf(stack[t])

\* What armed.rs, steps.rs, restarts.rs and unwinds.rs keep true between them:
\* one operation for each thread, about a frame that is still there.
OperationIsCurrent == OneOperation /\ InFlightIsLive

Below(t) == IdsOf(Front(stack[t]))

\* Where a step may say it landed: in the program's own code, over and out (of a
\* frame of the program's own) not in anything the frame called, out not in the frame either, and in to a
\* chosen call not in what another call of the line called.
LandedWell ==
    \A t \in Threads : at[t] = "held" /\ why[t] = "stepped" =>
      /\ Top(stack[t]).code \notin Through
      /\ asked[t].kind = "over" /\ asked[t].own => asked[t].frame \notin Below(t)
      /\ asked[t].kind = "out" /\ asked[t].own => asked[t].frame \notin IdsOf(stack[t])
      /\ asked[t].kind = "in" /\ asked[t].target # 0 /\ asked[t].frame \in Below(t) =>
           FrameOf(stack[t], asked[t].frame).call = asked[t].target

\* Both: an operation never outlives what it is about, so that it lands where it
\* was asked to or not at all.
OperationIsKept == OperationIsCurrent /\ LandedWell

\* A library has called back since the step was asked for.
CalledBack(t) == \E i \in (asked[t].low + 1)..Len(stack[t]) : stack[t][i - 1].code \in Through

\* Where a step ought to have landed: at a line just begun, or past the call of
\* the frame it was asked in.
ShouldLand(t) ==
    /\ Top(stack[t]).code \notin Through
    /\ at[t] = "past" => asked[t].frame \notin IdsOf(stack[t])
    /\ \/ asked[t].kind = "over" /\ asked[t].frame \notin Below(t)
       \/ asked[t].kind = "out" /\ asked[t].frame \notin IdsOf(stack[t])
       \/ asked[t].kind = "in" /\ asked[t].target = 0 /\ asked[t].frame \in IdsOf(stack[t])
            /\ ~(asked[t].frame = Top(stack[t]).id /\ asked[t].line = Top(stack[t]).line)

\* No thread runs past the place where its step lands, whatever the other
\* threads do with the code it steps through.  What a library calls back is
\* StepsIntoCallback.
StepIsNotMissed ==
    \A t \in Threads :
      /\ at[t] \in {"line", "past"} /\ asked[t].kind # "nothing" /\ ~asked[t].leaving
      /\ asked[t].kind = "in" \/ ~CalledBack(t)
      => ~ShouldLand(t)

\* A step over or out that came back into a library lands in what the library
\* calls next (stepping.md).
StepsIntoCallback ==
    \A t \in Threads :
      /\ at[t] = "line" /\ asked[t].kind \in {"over", "out"} /\ ~asked[t].leaving
      /\ CalledBack(t) /\ Len(stack[t]) > 1 /\ Caller(stack[t]).code \in Library
      => ~ShouldLand(t)

\* The frame that the rewound line calls is the one the restart holds the
\* thread in (restarts.rs: the thread is held at its first line).
RestartIsCaught ==
    \A t \in Threads :
      /\ at[t] = "started" /\ Len(stack[t]) > 1
      /\ session.restart[t].on /\ session.restart[t].phase = "entering"
      => ~(Top(stack[t]).code = session.restart[t].code
             /\ Caller(stack[t]).id = session.restart[t].caller)

\* A restart whose caller has gone is not left armed (restarts.rs: it would
\* keep the locations of the whole process from being forgotten).
RestartIsLive ==
    \A t \in Threads : session.restart[t].on => session.restart[t].caller \in IdsOf(stack[t])

=============================================================================
