------------------------------ MODULE Steps_proofs ------------------------------
(***************************************************************************)
(* What Steps promises for any number of threads, code objects, lines and  *)
(* frames, whichever of the code is a library's or the launcher's: a       *)
(* thread has one operation at most, it is about a frame that is there,    *)
(* the interpreter's masks are what all threads want, a step lands where   *)
(* it was asked to, and no step is missed.                                 *)
(*                                                                         *)
(* The first half is about sessions, whatever the program does; the second *)
(* about one thread, whatever the others do.                               *)
(***************************************************************************)
EXTENDS Steps, FiniteSetTheorems, FunctionTheorems, SequenceTheorems, WellFoundedInduction, TLAPS

-----------------------------------------------------------------------------
(***************************************************************************)
(* Sessions: the types, the registry of one thread and the masks.          *)
(***************************************************************************)
Kinds    == {"nothing", "over", "in", "out"}
Landings == {"notYet", "line", "instruction"}

StepStates    == [on : BOOLEAN, kind : Kinds, frame : Nat, armed : SUBSET Codes,
                  landing : Landings, entering : BOOLEAN, target : Nat, through : BOOLEAN,
                  notAgain : Nat]
RestartStates == [on : BOOLEAN, caller : Nat, frame : Nat, line : Nat,
                  code : Codes \cup {"none"}, watching : SUBSET Codes,
                  phase : {"rewinding", "entering", "landing"}]
UnwindStates  == [on : BOOLEAN, target : Nat, watching : SUBSET Codes, above : Seq(Nat)]
Interests     == [held : BOOLEAN, watching : [Codes -> SUBSET Events], entering : BOOLEAN]
Locations     == Codes \X (Lines \cup {0})

Sessions == [step : [Threads -> StepStates], restart : [Threads -> RestartStates],
             unwind : [Threads -> UnwindStates], interest : [Threads -> Interests],
             local : [Codes -> SUBSET Events],
             global : SUBSET {"line", "unwind", "resume", "throw"},
             disabled : SUBSET Locations, pausing : BOOLEAN]

\* One operation, and an entry of the registry exactly then.
One(s, t) ==
    /\ s.step[t].on => ~s.restart[t].on /\ ~s.unwind[t].on
    /\ s.restart[t].on => ~s.unwind[t].on
    /\ s.interest[t].held <=> s.step[t].on \/ s.restart[t].on \/ s.unwind[t].on
    /\ ~s.step[t].on => s.step[t] = NoStep
    /\ ~s.restart[t].on => s.restart[t] = NoRestart
    /\ ~s.unwind[t].on => s.unwind[t] = NoUnwind
    /\ ~s.interest[t].held => s.interest[t] = NoInterest

\* An operation knows the code it watches, to put it back.
Tidy(s, t) ==
    /\ \A c \in Codes : s.interest[t].watching[c] # {} =>
          c \in s.step[t].armed \cup s.restart[t].watching \cup s.unwind[t].watching
    /\ s.step[t].on => s.interest[t].entering = s.step[t].entering

\* The interpreter was told.
LocalMasked(s)  == \A c \in Codes : s.local[c] = LocalWanted(s, c)
GlobalMasked(s) == s.global = GlobalWanted(s)

Kept(s) == /\ s \in Sessions /\ LocalMasked(s) /\ GlobalMasked(s)
           /\ \A t \in Threads : One(s, t) /\ Tidy(s, t)

-----------------------------------------------------------------------------
(***************************************************************************)
(* One thread: its frames stk, where it is (a) and why it was last held    *)
(* (w), what it was asked for (ak), its step, restart, unwinding and       *)
(* interest (st, rs, un, in), and the locations that are not offered (d).  *)
(***************************************************************************)
Frames == [id : Nat \ {0}, code : Codes, line : Nat, call : Nat]
Asks   == [kind : Kinds, frame : Nat, line : Nat, target : Nat, own : BOOLEAN,
           leaving : BOOLEAN, low : Nat]

Reasons == {"none", "reset", "abandoned", "breakpoint", "restarted", "stepped", "paused", "raised"}

\* The types; a thread is held at a line when one has begun.
Shape ==
    /\ stack \in [Threads -> Seq(Frames)]
    /\ at \in [Threads -> Places]
    /\ after \in [Threads -> {"line", "mid", "raising", "leaving"}]
    /\ asked \in [Threads -> Asks]
    /\ left \in [asks : Nat, pauses : Nat]
    /\ why \in [Threads -> Reasons]
    /\ \A t \in Threads : at[t] = "held" /\ after[t] = "line" => Lines # {}

Stacked(stk, a) ==
    /\ a = "over" <=> stk = <<>>
    /\ \A i, j \in 1..Len(stk) : stk[i].id = stk[j].id => i = j

\* What is asked is about a frame that its thread was in, or is.
Recalled(stk, a, ak) ==
    ak.kind # "nothing" =>
      /\ stk # <<>> => ak.low \in 1..Len(stk)
      /\ \A i \in 1..Len(stk) : stk[i].id = ak.frame =>
            ak.low = i /\ (ak.own <=> stk[i].code \notin Through)
      /\ ak.leaving => ak.frame \notin IdsOf(stk) \/ (a = "leaving" /\ Top(stk).id = ak.frame)

Landing(l) == {"return"} \cup (IF l = "notYet" THEN {} ELSE {l})

\* A step is what was asked for, and hears of the frame it waits in.
Stepping(stk, a, ak, st, in) ==
    /\ a \notin {"held", "over"} /\ ak.kind # "nothing" /\ ~ak.leaving => st.on
    /\ st.on =>
          /\ ak.kind = st.kind /\ ak.kind # "nothing"
          /\ a \notin {"held", "forced", "tail", "rewound"}
          /\ a = "leaving" => ak.leaving
          /\ ~ak.leaving => st.frame \in IdsOf(stk)
          /\ \A i \in 1..Len(stk) : stk[i].id = st.frame =>
                in.watching[stk[i].code] = Landing(st.landing)

\* It has entered a frame of the program's own, and lands at its first line.
Caught(stk, a, st) ==
    /\ a = "started" /\ stk # <<>> /\ Top(stk).id = st.frame /\ Top(stk).code \notin Through
    /\ st.landing = "line" /\ st.notAgain = 0

\* A step in, while the frame it was asked in is there.
InFrame(stk, ak, st, d) ==
    /\ st.frame = ak.frame /\ st.entering /\ st.notAgain = 0 /\ st.target = ak.target
    /\ ak.own => st.landing = "line"
    /\ \A c \in Codes : <<c, 0>> \notin d
    /\ ak.target = 0 => \A i \in (ak.low + 1)..Len(stk) : stk[i].code \in Through

In(stk, a, ak, st, d) ==
    st.on /\ ak.kind = "in" /\ ak.frame \in IdsOf(stk) /\ ~ak.leaving =>
      \/ InFrame(stk, ak, st, d)
      \/ /\ st.frame # ak.frame /\ Caught(stk, a, st)
         /\ ak.target # 0 => /\ Len(stk) > 1
                             /\ Caller(stk).id = ak.frame /\ Caller(stk).call = ak.target

\* A step over or out, while that frame is there.
Over(stk, a, ak, st) ==
    st.on /\ ak.kind \in {"over", "out"} /\ ak.frame \in IdsOf(stk) /\ ~ak.leaving =>
      /\ st.frame = ak.frame \/ (~ak.own /\ Caught(stk, a, st))
      /\ ak.own => /\ ~st.entering /\ st.notAgain = 0
                   /\ st.landing = IF ak.kind = "out" THEN "notYet" ELSE "line"

\* And after it left: the step is in the frame the thread came back to, and lands
\* there unless that is one it passes through.
BackIn(stk, a, ak, st) ==
    /\ stk # <<>> /\ stk[ak.low].id = st.frame
    /\ \/ stk[ak.low].code \in Through
       \/ /\ ak.low = Len(stk)
          /\ \/ a = "returned" /\ st.landing = "instruction"
             \/ a = "raising" /\ st.landing = "line"

Gone(stk, a, ak, st) ==
    st.on /\ ak.kind \in {"over", "out"} /\ ak.frame \notin IdsOf(stk) /\ ~ak.leaving =>
      st.notAgain = 0 /\ (Caught(stk, a, st) \/ BackIn(stk, a, ak, st))

\* A restart, from the forced return to the first line of the new frame.
Rewinding(stk, a, rs, in) ==
    /\ \/ a = "forced" /\ Len(stk) > 1 /\ Caller(stk).id = rs.caller
       \/ a \in {"tail", "raising"} /\ Top(stk).id = rs.caller
    /\ \A i \in 1..Len(stk) : stk[i].id = rs.caller => "line" \in in.watching[stk[i].code]

Restarting(stk, a, rs, un, in) ==
    /\ rs.on => /\ a # "held" /\ rs.code \in Codes
                /\ rs.phase = "rewinding" => Rewinding(stk, a, rs, in)
                /\ rs.phase # "rewinding" => "line" \in in.watching[rs.code]
                /\ rs.phase = "landing" =>
                     /\ a = "started" /\ Len(stk) > 1 /\ Caller(stk).id = rs.caller
                     /\ Top(stk).id = rs.frame /\ Top(stk).code = rs.code
    /\ a = "rewound" => rs.on /\ rs.phase = "entering"
    /\ a \in {"forced", "tail"} => un.on \/ (rs.on /\ rs.phase = "rewinding")

\* An unwinding: what is above the target, at p, is what there is yet to force
\* out, the lowest last.
ForcedFrom(stk, a, un, in, p) ==
    /\ stk[p].id = un.target
    /\ \A j \in p..Len(stk) : in.watching[stk[j].code] = {"line"}
    /\ \A j \in (p + 1)..Len(stk) :
          \/ a = "forced" /\ j = Len(stk)
          \/ LET k == Len(un.above) + 1 - (j - p)
             IN  k >= 1 /\ un.above[k] = stk[j].id

Unwinding(stk, a, un, in) ==
    un.on =>
      /\ a \in {"forced", "tail", "raising"}
      /\ a = "forced" => Top(stk).id # un.target
      /\ un.target \notin ToSet(un.above)
      /\ \A i, j \in 1..Len(un.above) : un.above[i] = un.above[j] => i = j
      /\ \E p \in 1..Len(stk) : ForcedFrom(stk, a, un, in, p)

Landed(stk, a, w, ak) ==
    a = "held" /\ w = "stepped" =>
      /\ Top(stk).code \notin Through
      /\ ak.kind = "over" /\ ak.own => ak.frame \notin IdsOf(Front(stk))
      /\ ak.kind = "out" /\ ak.own => ak.frame \notin IdsOf(stk)
      /\ ak.kind = "in" /\ ak.target # 0 /\ ak.frame \in IdsOf(Front(stk)) =>
           FrameOf(stk, ak.frame).call = ak.target

Seen(stk, a, ak) ==
    /\ a \in {"line", "past"} /\ ak.kind # "nothing" /\ ~ak.leaving
    /\ ak.kind = "in" \/ ~\E i \in (ak.low + 1)..Len(stk) : stk[i - 1].code \in Through
    /\ Top(stk).code \notin Through
    /\ a = "past" => ak.frame \notin IdsOf(stk)
    => /\ ~(ak.kind = "over" /\ ak.frame \notin IdsOf(Front(stk)))
       /\ ~(ak.kind = "out" /\ ak.frame \notin IdsOf(stk))
       /\ ~(/\ ak.kind = "in" /\ ak.target = 0 /\ ak.frame \in IdsOf(stk)
            /\ ~(ak.frame = Top(stk).id /\ ak.line = Top(stk).line))

Fit(stk, a, w, ak, st, rs, un, in, d) ==
    /\ Stacked(stk, a) /\ Recalled(stk, a, ak) /\ Stepping(stk, a, ak, st, in)
    /\ In(stk, a, ak, st, d) /\ Over(stk, a, ak, st) /\ Gone(stk, a, ak, st)
    /\ Restarting(stk, a, rs, un, in) /\ Unwinding(stk, a, un, in)
    /\ Landed(stk, a, w, ak) /\ Seen(stk, a, ak)

Fits(t) ==
    /\ Len(stack[t]) <= Depth[t]
    /\ Fit(stack[t], at[t], why[t], asked[t], session.step[t], session.restart[t],
           session.unwind[t], session.interest[t], session.disabled)

\* While anything is armed every line is offered.
Offering == ArmedAnywhere(session) => \A c \in Codes, l \in Lines : <<c, l>> \notin session.disabled

IndInv == Shape /\ Kept(session) /\ Offering /\ \A t \in Threads : Fits(t)


-----------------------------------------------------------------------------
(***************************************************************************)
(* What the operators on sessions do.                                      *)
(***************************************************************************)

\* All but the masks.
SameBut(s, r) == /\ r.step = s.step /\ r.restart = s.restart /\ r.unwind = s.unwind
                 /\ r.interest = s.interest /\ r.disabled = s.disabled /\ r.pausing = s.pausing

\* What the thread t has armed is this, and the others have what they had.
Becomes(s, r, t, st, rs, un, in) ==
    /\ r.step = [s.step EXCEPT ![t] = st] /\ r.restart = [s.restart EXCEPT ![t] = rs]
    /\ r.unwind = [s.unwind EXCEPT ![t] = un] /\ r.interest = [s.interest EXCEPT ![t] = in]

\* The states of what is not armed have their types.
LEMMA NothingIsTyped ==
    /\ NoStep \in StepStates /\ NoRestart \in RestartStates /\ NoUnwind \in UnwindStates
    /\ NoInterest \in Interests
BY DEF NoStep, NoRestart, NoUnwind, NoInterest, StepStates, RestartStates, UnwindStates, Interests,
       Kinds, Landings

\* What is wanted of a code object is a set of events.
LEMMA WantedIsTyped ==
    ASSUME NEW s \in Sessions, NEW c \in Codes
    PROVE  LocalWanted(s, c) \in SUBSET Events
<1>1. \A t \in Threads : s.interest[t].watching[c] \in SUBSET Events
  BY DEF Sessions, Interests
<1>2. QED
  BY <1>1 DEF LocalWanted, Events

\* refresh_codes tells the interpreter of the code named, and changes nothing else.
LEMMA RefreshCodesIs ==
    ASSUME NEW s \in Sessions, NEW codes
    PROVE  LET r == RefreshCodes(s, codes) IN
           /\ r \in Sessions /\ SameBut(s, r) /\ r.global = s.global
           /\ \A c \in Codes : r.local[c] = IF c \in codes THEN LocalWanted(s, c) ELSE s.local[c]
<1> DEFINE l == [c \in Codes |-> IF c \in codes THEN LocalWanted(s, c) ELSE s.local[c]]
<1>1. \A c \in Codes : LocalWanted(s, c) \in SUBSET Events
  BY WantedIsTyped
<1>2. l \in [Codes -> SUBSET Events]
  BY <1>1 DEF Sessions
<1>3. RefreshCodes(s, codes) = [s EXCEPT !.local = l]
  BY DEF RefreshCodes
<1> HIDE DEF l
<1>4. [s EXCEPT !.local = l] \in Sessions
  BY <1>2 DEF Sessions
<1>5. SameBut(s, [s EXCEPT !.local = l]) /\ [s EXCEPT !.local = l].global = s.global
      /\ [s EXCEPT !.local = l].local = l
  BY DEF Sessions, SameBut
<1>6. QED
  BY <1>3, <1>4, <1>5 DEF l

\* refresh_events puts the global mask right, and changes nothing else.
LEMMA RefreshEventsIs ==
    ASSUME NEW s \in Sessions
    PROVE  LET r == RefreshEvents(s) IN
           /\ r \in Sessions /\ SameBut(s, r) /\ r.local = s.local /\ GlobalMasked(r)
           /\ r.global = GlobalWanted(s)
<1> DEFINE g == GlobalWanted(s)
<1>1. g \subseteq {"line", "unwind", "resume", "throw"}
  BY DEF GlobalWanted
<1>2. RefreshEvents(s) = [s EXCEPT !.global = g]
  BY DEF RefreshEvents
<1> HIDE DEF g
<1>3. [s EXCEPT !.global = g] \in Sessions
  BY <1>1 DEF Sessions
<1>4. SameBut(s, [s EXCEPT !.global = g]) /\ [s EXCEPT !.global = g].local = s.local
      /\ [s EXCEPT !.global = g].global = g
  BY DEF Sessions, SameBut
<1>5. ASSUME NEW r \in Sessions, SameBut(s, r), r.global = g PROVE GlobalMasked(r)
  BY <1>5 DEF g, GlobalMasked, GlobalWanted, SameBut, ArmedAnywhere, EnteringAnywhere
<1>6. QED
  BY <1>2, <1>3, <1>4, <1>5 DEF g

\* restart_events offers every location again, and changes nothing else.
LEMMA RestartLocationsIs ==
    ASSUME NEW s \in Sessions
    PROVE  LET r == RestartLocations(s) IN
           /\ r \in Sessions /\ r.disabled = {} /\ r.local = s.local /\ r.global = s.global
           /\ r.step = s.step /\ r.restart = s.restart /\ r.unwind = s.unwind
           /\ r.interest = s.interest /\ r.pausing = s.pausing
BY DEF RestartLocations, Sessions

\* What is wanted of a code object depends on what is watched of it.
LEMMA WantedAlike ==
    ASSUME NEW s, NEW r, NEW c,
           \A t \in Threads : r.interest[t].watching[c] = s.interest[t].watching[c]
    PROVE  LocalWanted(r, c) = LocalWanted(s, c)
BY DEF LocalWanted

\* What is wanted globally depends on the registry and on the pause.
LEMMA GlobalAlike ==
    ASSUME NEW s, NEW r, r.interest = s.interest, r.pausing = s.pausing
    PROVE  GlobalWanted(r) = GlobalWanted(s)
BY DEF GlobalWanted, ArmedAnywhere, EnteringAnywhere

\* The interpreter is told of every code object that is watched otherwise.
LEMMA PutBack ==
    ASSUME NEW s \in Sessions, LocalMasked(s), NEW r \in Sessions, NEW t \in Threads, NEW codes,
           \A u \in Threads \ {t} : r.interest[u] = s.interest[u],
           \A c \in Codes : c \in codes => r.local[c] = LocalWanted(r, c),
           \A c \in Codes : c \notin codes => r.local[c] = s.local[c],
           \A c \in Codes : c \notin codes =>
               r.interest[t].watching[c] = s.interest[t].watching[c]
    PROVE  LocalMasked(r)
<1> SUFFICES ASSUME NEW c \in Codes, c \notin codes PROVE r.local[c] = LocalWanted(r, c)
  BY DEF LocalMasked
<1>1. \A u \in Threads : r.interest[u].watching[c] = s.interest[u].watching[c]
  OBVIOUS
<1>2. QED
  BY <1>1, WantedAlike DEF LocalMasked

\* A session stays well formed when one thread changes and the masks follow.
LEMMA BecomesKept ==
    ASSUME NEW s, Kept(s), NEW t \in Threads, NEW st, NEW rs, NEW un, NEW in,
           NEW r \in Sessions, Becomes(s, r, t, st, rs, un, in),
           LocalMasked(r), GlobalMasked(r), One(r, t), Tidy(r, t)
    PROVE  Kept(r)
<1>1. \A u \in Threads \ {t} : /\ r.step[u] = s.step[u] /\ r.restart[u] = s.restart[u]
                               /\ r.unwind[u] = s.unwind[u] /\ r.interest[u] = s.interest[u]
  BY DEF Becomes, Kept, Sessions
<1>2. \A u \in Threads \ {t} : One(r, u) /\ Tidy(r, u)
  BY <1>1 DEF Kept, One, Tidy
<1>3. QED
  BY <1>2 DEF Kept

\* The changed thread has the new states, the others have theirs.
LEMMA BecomesAt ==
    ASSUME NEW s \in Sessions, NEW t \in Threads, NEW st, NEW rs, NEW un, NEW in, NEW r,
           Becomes(s, r, t, st, rs, un, in)
    PROVE  /\ r.step[t] = st /\ r.restart[t] = rs /\ r.unwind[t] = un /\ r.interest[t] = in
           /\ \A u \in Threads \ {t} : /\ r.step[u] = s.step[u] /\ r.restart[u] = s.restart[u]
                                       /\ r.unwind[u] = s.unwind[u] /\ r.interest[u] = s.interest[u]
BY DEF Becomes, Sessions

\* Of two changes of a thread the second stands.
LEMMA BecomesThen ==
    ASSUME NEW s \in Sessions, NEW t \in Threads, NEW a \in Sessions, NEW b,
           NEW st, NEW rs, NEW un, NEW in, NEW st2, NEW rs2, NEW un2, NEW in2,
           Becomes(s, a, t, st, rs, un, in), Becomes(a, b, t, st2, rs2, un2, in2)
    PROVE  Becomes(s, b, t, st2, rs2, un2, in2)
BY DEF Becomes, Sessions

\* A change that is followed by a change of the masks alone.
LEMMA BecomesSame ==
    ASSUME NEW s, NEW t, NEW a, NEW b, NEW st, NEW rs, NEW un, NEW in,
           Becomes(s, a, t, st, rs, un, in), SameBut(a, b)
    PROVE  Becomes(s, b, t, st, rs, un, in)
BY DEF Becomes, SameBut

\* Telling the interpreter of every code object that is watched otherwise leaves
\* the local masks as they ought to be.
LEMMA CodesTold ==
    ASSUME NEW s \in Sessions, LocalMasked(s), NEW t \in Threads, NEW off \in Sessions, NEW codes,
           \A u \in Threads \ {t} : off.interest[u] = s.interest[u], off.local = s.local,
           \A c \in Codes : c \notin codes =>
               off.interest[t].watching[c] = s.interest[t].watching[c]
    PROVE  LET r == RefreshCodes(off, codes) IN
           r \in Sessions /\ SameBut(off, r) /\ r.global = off.global /\ LocalMasked(r)
<1> DEFINE r == RefreshCodes(off, codes)
<1>1. r \in Sessions /\ SameBut(off, r) /\ r.global = off.global
      /\ \A c \in Codes : r.local[c] = IF c \in codes THEN LocalWanted(off, c) ELSE off.local[c]
  BY RefreshCodesIs
<1> HIDE DEF r
<1>2. r.interest = off.interest
  BY <1>1 DEF SameBut
<1>3. \A c \in Codes : LocalWanted(r, c) = LocalWanted(off, c)
  BY <1>2, WantedAlike
<1>4. \A c \in Codes : c \in codes => r.local[c] = LocalWanted(r, c)
  BY <1>1, <1>3
<1>5. \A c \in Codes : c \notin codes => r.local[c] = s.local[c]
  BY <1>1
<1>6. \A u \in Threads \ {t} : r.interest[u] = s.interest[u]
  BY <1>2
<1>7. \A c \in Codes : c \notin codes => r.interest[t].watching[c] = s.interest[t].watching[c]
  BY <1>2
<1>8. LocalMasked(r)
  BY <1>1, <1>4, <1>5, <1>6, <1>7, PutBack
<1>9. QED
  BY <1>1, <1>8 DEF r

\* Telling the global mask leaves the local ones as they are.
LEMMA EventsTold ==
    ASSUME NEW s \in Sessions, LocalMasked(s)
    PROVE  LET r == RefreshEvents(s) IN
           r \in Sessions /\ SameBut(s, r) /\ LocalMasked(r) /\ GlobalMasked(r)
<1>1. ASSUME NEW r, r.local = s.local, r.interest = s.interest PROVE LocalMasked(r)
  BY <1>1, WantedAlike DEF LocalMasked
<1>2. QED
  BY <1>1, RefreshEventsIs DEF SameBut

\* What a thread has armed is changed, and the masks follow.
LEMMA Republished ==
    ASSUME NEW s, Kept(s), NEW t \in Threads, NEW st, NEW rs, NEW un, NEW in,
           NEW off \in Sessions, Becomes(s, off, t, st, rs, un, in), off.local = s.local,
           One(off, t), Tidy(off, t), NEW codes,
           \A c \in Codes : c \notin codes => in.watching[c] = s.interest[t].watching[c]
    PROVE  LET r == RefreshEvents(RefreshCodes(off, codes)) IN
           Kept(r) /\ Becomes(s, r, t, st, rs, un, in) /\ r.disabled = off.disabled
<1> DEFINE told == RefreshCodes(off, codes)
           r    == RefreshEvents(told)
<1>1. s \in Sessions /\ LocalMasked(s)
  BY DEF Kept
<1>2. /\ off.interest[t] = in
      /\ \A u \in Threads \ {t} : off.interest[u] = s.interest[u]
  BY <1>1, BecomesAt
<1>3. told \in Sessions /\ SameBut(off, told) /\ LocalMasked(told)
  BY <1>1, <1>2, CodesTold
<1> HIDE DEF told
<1>4. r \in Sessions /\ SameBut(told, r) /\ LocalMasked(r) /\ GlobalMasked(r)
  BY <1>3, EventsTold
<1> HIDE DEF r
<1>5. SameBut(off, r)
  BY <1>3, <1>4 DEF SameBut
<1>6. Becomes(s, r, t, st, rs, un, in) /\ r.disabled = off.disabled
  BY <1>5, BecomesSame DEF SameBut
<1>7. One(r, t) /\ Tidy(r, t)
  BY <1>5 DEF One, Tidy, SameBut
<1>8. Kept(r)
  BY <1>4, <1>6, <1>7, BecomesKept
<1>9. QED
  BY <1>6, <1>8 DEF r, told

\* The three releases.
LEMMA StepReleaseIs ==
    ASSUME NEW s, Kept(s), NEW t \in Threads, s.step[t].on
    PROVE  LET r == StepRelease(s, t) IN
           /\ Kept(r) /\ Becomes(s, r, t, NoStep, s.restart[t], s.unwind[t], NoInterest)
           /\ r.disabled = s.disabled
<1> DEFINE off   == ReleaseInterest([s EXCEPT !.step[t] = NoStep], t)
           codes == s.step[t].armed
<1>1. s \in Sessions /\ One(s, t) /\ Tidy(s, t)
  BY DEF Kept
<1>2. off \in Sessions /\ Becomes(s, off, t, NoStep, s.restart[t], s.unwind[t], NoInterest)
      /\ off.disabled = s.disabled /\ off.local = s.local
  BY <1>1, NothingIsTyped DEF ReleaseInterest, Sessions, Becomes
<1>r. StepRelease(s, t) = RefreshEvents(RefreshCodes(off, codes))
  BY DEF StepRelease
<1>3. \A c \in Codes : c \notin codes => NoInterest.watching[c] = s.interest[t].watching[c]
  BY <1>1 DEF One, Tidy, NoInterest, NoRestart, NoUnwind
<1> HIDE DEF off, codes
<1>4. One(off, t) /\ Tidy(off, t)
  <2>1. /\ off.step[t] = NoStep /\ off.restart[t] = s.restart[t] /\ off.unwind[t] = s.unwind[t]
        /\ off.interest[t] = NoInterest
    BY <1>1, <1>2, BecomesAt
  <2>2. QED
    BY <1>1, <2>1 DEF One, Tidy, NoStep, NoInterest
<1>5. QED
  BY <1>r, <1>2, <1>3, <1>4, Republished

\* A restart that is released takes its registry entry with it.
LEMMA RestartReleaseIs ==
    ASSUME NEW s, Kept(s), NEW t \in Threads, s.restart[t].on
    PROVE  LET r == RestartRelease(s, t) IN
           /\ Kept(r) /\ Becomes(s, r, t, s.step[t], NoRestart, s.unwind[t], NoInterest)
           /\ r.disabled = s.disabled
<1> DEFINE off   == ReleaseInterest([s EXCEPT !.restart[t] = NoRestart], t)
           codes == s.restart[t].watching
<1>1. s \in Sessions /\ One(s, t) /\ Tidy(s, t)
  BY DEF Kept
<1>2. off \in Sessions /\ Becomes(s, off, t, s.step[t], NoRestart, s.unwind[t], NoInterest)
      /\ off.disabled = s.disabled /\ off.local = s.local
  BY <1>1, NothingIsTyped DEF ReleaseInterest, Sessions, Becomes
<1>r. RestartRelease(s, t) = RefreshEvents(RefreshCodes(off, codes))
  BY DEF RestartRelease
<1>3. \A c \in Codes : c \notin codes => NoInterest.watching[c] = s.interest[t].watching[c]
  BY <1>1 DEF One, Tidy, NoInterest, NoStep, NoUnwind
<1> HIDE DEF off, codes
<1>4. One(off, t) /\ Tidy(off, t)
  <2>1. /\ off.step[t] = s.step[t] /\ off.restart[t] = NoRestart /\ off.unwind[t] = s.unwind[t]
        /\ off.interest[t] = NoInterest
    BY <1>1, <1>2, BecomesAt
  <2>2. s.step[t] = NoStep /\ s.unwind[t] = NoUnwind
    BY <1>1 DEF One
  <2>3. ~NoStep.on /\ ~NoRestart.on /\ ~NoUnwind.on /\ ~NoInterest.held
        /\ \A c \in Codes : NoInterest.watching[c] = {}
    BY DEF NoStep, NoRestart, NoUnwind, NoInterest
  <2>4. One(off, t)
    BY <2>1, <2>2, <2>3 DEF One
  <2>5. QED
    BY <2>1, <2>2, <2>3, <2>4 DEF Tidy
<1>5. QED
  BY <1>r, <1>2, <1>3, <1>4, Republished

\* So does an unwinding.
LEMMA UnwindReleaseIs ==
    ASSUME NEW s, Kept(s), NEW t \in Threads, s.unwind[t].on
    PROVE  LET r == UnwindRelease(s, t) IN
           /\ Kept(r) /\ Becomes(s, r, t, s.step[t], s.restart[t], NoUnwind, NoInterest)
           /\ r.disabled = s.disabled
<1> DEFINE off   == ReleaseInterest([s EXCEPT !.unwind[t] = NoUnwind], t)
           codes == s.unwind[t].watching
<1>1. s \in Sessions /\ One(s, t) /\ Tidy(s, t)
  BY DEF Kept
<1>2. off \in Sessions /\ Becomes(s, off, t, s.step[t], s.restart[t], NoUnwind, NoInterest)
      /\ off.disabled = s.disabled /\ off.local = s.local
  BY <1>1, NothingIsTyped DEF ReleaseInterest, Sessions, Becomes
<1>r. UnwindRelease(s, t) = RefreshEvents(RefreshCodes(off, codes))
  BY DEF UnwindRelease
<1>3. \A c \in Codes : c \notin codes => NoInterest.watching[c] = s.interest[t].watching[c]
  BY <1>1 DEF One, Tidy, NoInterest, NoStep, NoRestart
<1> HIDE DEF off, codes
<1>4. One(off, t) /\ Tidy(off, t)
  <2>1. /\ off.step[t] = s.step[t] /\ off.restart[t] = s.restart[t] /\ off.unwind[t] = NoUnwind
        /\ off.interest[t] = NoInterest
    BY <1>1, <1>2, BecomesAt
  <2>2. s.step[t] = NoStep /\ s.restart[t] = NoRestart
    BY <1>1 DEF One
  <2>3. ~NoStep.on /\ ~NoRestart.on /\ ~NoUnwind.on /\ ~NoInterest.held
        /\ \A c \in Codes : NoInterest.watching[c] = {}
    BY DEF NoStep, NoRestart, NoUnwind, NoInterest
  <2>4. One(off, t)
    BY <2>1, <2>2, <2>3 DEF One
  <2>5. QED
    BY <2>1, <2>2, <2>3, <2>4 DEF Tidy
<1>5. QED
  BY <1>r, <1>2, <1>3, <1>4, Republished

\* A step watches one more code object, for the event it lands at.
LEMMA StepWatchIs ==
    ASSUME NEW s \in Sessions, LocalMasked(s), NEW t \in Threads, NEW c \in Codes
    PROVE  LET r == StepWatch(s, t, c) IN
           /\ r \in Sessions /\ LocalMasked(r) /\ r.disabled = s.disabled
           /\ Becomes(s, r, t, [s.step[t] EXCEPT !.armed = @ \cup {c}], s.restart[t], s.unwind[t],
                      [s.interest[t] EXCEPT !.watching[c] = Landing(s.step[t].landing)])
<1> DEFINE events == {"return"} \cup (IF s.step[t].landing = "notYet" THEN {} ELSE {s.step[t].landing})
           off == [[s EXCEPT !.step[t].armed = @ \cup {c}] EXCEPT !.interest[t].watching[c] = events]
<1>1. s.step[t] \in StepStates /\ s.interest[t] \in Interests
  BY DEF Sessions
<1>2. events \in SUBSET Events /\ events = Landing(s.step[t].landing)
  BY <1>1 DEF StepStates, Landings, Events, Landing
<1> HIDE DEF events
<1>3. [s.step[t] EXCEPT !.armed = @ \cup {c}] \in StepStates
  BY <1>1 DEF StepStates
<1>4. [s.interest[t] EXCEPT !.watching[c] = events] \in Interests
  BY <1>1, <1>2 DEF Interests
<1>5. off = [s EXCEPT !.step = [s.step EXCEPT ![t] = [s.step[t] EXCEPT !.armed = @ \cup {c}]],
                      !.interest = [s.interest EXCEPT ![t] = [s.interest[t] EXCEPT !.watching[c] = events]]]
  BY DEF Sessions
<1>6. off \in Sessions /\ off.local = s.local /\ off.disabled = s.disabled
      /\ Becomes(s, off, t, [s.step[t] EXCEPT !.armed = @ \cup {c}], s.restart[t], s.unwind[t],
                      [s.interest[t] EXCEPT !.watching[c] = events])
  BY <1>3, <1>4 DEF Sessions, Becomes
<1>7. StepWatch(s, t, c) = RefreshCodes(off, {c})
  BY DEF StepWatch, Watch, events
<1> HIDE DEF off
<1>8. /\ off.interest[t] = [s.interest[t] EXCEPT !.watching[c] = events]
      /\ \A u \in Threads \ {t} : off.interest[u] = s.interest[u]
  BY <1>6, BecomesAt
<1>9. \A d \in Codes : d \notin {c} => off.interest[t].watching[d] = s.interest[t].watching[d]
  BY <1>1, <1>8 DEF Interests
<1>10. LET r == RefreshCodes(off, {c}) IN
       r \in Sessions /\ SameBut(off, r) /\ r.global = off.global /\ LocalMasked(r)
  BY <1>6, <1>8, <1>9, CodesTold
<1>11. QED
  BY <1>2, <1>6, <1>7, <1>10, BecomesSame DEF SameBut

\* A step goes on with entries; its masks are right up to the global one.
LEMMA GoOnEnteringIs ==
    ASSUME NEW s \in Sessions, LocalMasked(s), NEW t \in Threads,
           s.interest[t].entering = s.step[t].entering
    PROVE  LET r == GoOnEntering(s, t) IN
           /\ r \in Sessions /\ LocalMasked(r) /\ r.disabled = s.disabled
           /\ Becomes(s, r, t, [s.step[t] EXCEPT !.entering = TRUE], s.restart[t], s.unwind[t],
                      [s.interest[t] EXCEPT !.entering = TRUE])
<1> DEFINE st  == [s.step[t] EXCEPT !.entering = TRUE]
           in  == [s.interest[t] EXCEPT !.entering = TRUE]
           off == [s EXCEPT !.step[t].entering = TRUE, !.interest[t].entering = TRUE]
<1>1. s.step[t] \in StepStates /\ s.interest[t] \in Interests
  BY DEF Sessions
<1>2. st \in StepStates /\ in \in Interests
  BY <1>1 DEF StepStates, Interests
<1>3. CASE s.step[t].entering
  <2>1. st = s.step[t] /\ in = s.interest[t]
    BY <1>1, <1>3 DEF StepStates, Interests
  <2> HIDE DEF st, in
  <2>2. Becomes(s, s, t, st, s.restart[t], s.unwind[t], in)
    BY <2>1 DEF Sessions, Becomes
  <2>3. GoOnEntering(s, t) = s
    BY <1>3 DEF GoOnEntering
  <2>4. QED
    BY <2>2, <2>3 DEF st, in
<1>4. CASE ~s.step[t].entering
  <2>1. off = [s EXCEPT !.step = [s.step EXCEPT ![t] = st], !.interest = [s.interest EXCEPT ![t] = in]]
    BY DEF Sessions
  <2>2. GoOnEntering(s, t) = RefreshEvents(off)
    BY <1>4 DEF GoOnEntering
  <2> HIDE DEF st
  <2>3. \A c \in Codes : in.watching[c] = s.interest[t].watching[c]
    BY <1>1 DEF Interests
  <2> HIDE DEF in, off
  <2>4. off \in Sessions /\ Becomes(s, off, t, st, s.restart[t], s.unwind[t], in)
        /\ off.local = s.local /\ off.disabled = s.disabled
    BY <1>2, <2>1 DEF Sessions, Becomes
  <2>5. off.interest[t] = in /\ \A u \in Threads \ {t} : off.interest[u] = s.interest[u]
    BY <2>4, BecomesAt
  <2>6. \A c \in Codes : LocalWanted(off, c) = LocalWanted(s, c)
    <3> TAKE c \in Codes
    <3>1. \A u \in Threads : off.interest[u].watching[c] = s.interest[u].watching[c]
      BY <2>3, <2>5
    <3>2. QED
      BY <3>1, WantedAlike
  <2>7. LocalMasked(off)
    BY <2>4, <2>6 DEF LocalMasked
  <2>8. LET r == RefreshEvents(off) IN r \in Sessions /\ SameBut(off, r) /\ LocalMasked(r)
    BY <2>4, <2>7, EventsTold
  <2>9. QED
    BY <2>2, <2>4, <2>8, BecomesSame DEF SameBut, st, in
<1>5. s.step[t].entering \in BOOLEAN
  BY <1>1 DEF StepStates
<1>6. QED
  BY <1>3, <1>4, <1>5

\* The step after it has gone on in the frame f, and its interest.
Followed(old, f, l, e) ==
    [old EXCEPT !.through = f.code \in Through, !.target = IF f.id = old.frame THEN @ ELSE 0,
                !.frame = f.id, !.landing = l, !.entering = e, !.notAgain = 0, !.armed = {f.code}]
Waiting(c, l, e) ==
    [held |-> TRUE, watching |-> [x \in Codes |-> IF x = c THEN Landing(l) ELSE {}], entering |-> e]

FollowsEntering(old, f) == f.code \in Through /\ (old.kind = "in" \/ f.code \in Library)

\* A step that goes on in another frame waits there and nowhere else.
LEMMA FollowIs ==
    ASSUME NEW s, Kept(s), NEW t \in Threads, s.step[t].on, NEW f \in Frames,
           NEW l \in Landings, NEW e, e = FollowsEntering(s.step[t], f)
    PROVE  LET r == Follow(s, t, f, l) IN
           /\ Kept(r) /\ r.disabled = s.disabled
           /\ Becomes(s, r, t, Followed(s.step[t], f, l, e), s.restart[t], s.unwind[t],
                      Waiting(f.code, l, e))
<1> DEFINE old     == s.step[t]
           st0     == [old EXCEPT !.through = f.code \in Through,
                                  !.target = IF f.id = old.frame THEN @ ELSE 0,
                                  !.frame = f.id, !.landing = l, !.entering = FALSE,
                                  !.notAgain = 0, !.armed = {}]
           in0     == [NoInterest EXCEPT !.held = TRUE]
           moved   == [s EXCEPT !.step[t] = st0, !.interest[t] = in0]
           codes   == s.step[t].armed
           put     == RefreshCodes(moved, codes)
           watched == StepWatch(put, t, f.code)
           on      == IF FollowsEntering(old, f) THEN GoOnEntering(watched, t) ELSE watched
           st1     == [st0 EXCEPT !.armed = {f.code}]
           in1     == [in0 EXCEPT !.watching[f.code] = Landing(l)]
<1>1. s \in Sessions /\ LocalMasked(s) /\ One(s, t) /\ Tidy(s, t)
  BY DEF Kept
<1>2. f.id \in Nat /\ f.code \in Codes /\ (f.code \in Through) \in BOOLEAN /\ e \in BOOLEAN
  BY DEF Frames, FollowsEntering
<1>3. old \in StepStates /\ old.on
  BY <1>1 DEF Sessions
<1>4. st0 \in StepStates /\ st1 \in StepStates
  BY <1>2, <1>3, ZenonT(40) DEF StepStates
<1>5. in0 \in Interests /\ \A c \in Codes : in0.watching[c] = {}
  BY DEF Interests, NoInterest
<1>6. in1 \in Interests /\ in1 = Waiting(f.code, l, FALSE)
  <2>1. Landing(l) \in SUBSET Events
    BY DEF Landing, Landings, Events
  <2>2. in0 = [held |-> TRUE, watching |-> [x \in Codes |-> {}], entering |-> FALSE]
    <3>1. in0.held = TRUE /\ in0.entering = FALSE /\ in0.watching = [x \in Codes |-> {}]
      BY DEF NoInterest
    <3> HIDE DEF in0
    <3>2. QED
      BY <3>1, <1>5 DEF Interests
  <2>3. in1 = [in0 EXCEPT !.watching = [in0.watching EXCEPT ![f.code] = Landing(l)]]
    OBVIOUS
  <2> HIDE DEF in0, in1
  <2>4. [in0.watching EXCEPT ![f.code] = Landing(l)] = [x \in Codes |-> IF x = f.code THEN Landing(l) ELSE {}]
    BY <1>2, <2>2
  <2>5. in1 = Waiting(f.code, l, FALSE)
    BY <2>2, <2>3, <2>4 DEF Waiting
  <2>6. QED
    BY <2>1, <2>5 DEF Waiting, Interests
<1>7. /\ st0.landing = l /\ st0.armed = {} /\ ~st0.entering /\ in0.entering = FALSE
      /\ st1 = [st0 EXCEPT !.armed = @ \cup {f.code}] /\ ~st1.entering /\ in1.entering = FALSE
  BY <1>3, <1>6 DEF StepStates, NoInterest, Waiting
<1>8. st1 = Followed(old, f, l, FALSE)
  BY <1>3 DEF StepStates, Followed
<1>9. [st1 EXCEPT !.entering = TRUE] = Followed(old, f, l, TRUE)
  BY <1>3 DEF StepStates, Followed
<1>10. [in1 EXCEPT !.entering = TRUE] = Waiting(f.code, l, TRUE)
  <2>1. Waiting(f.code, l, TRUE) = [Waiting(f.code, l, FALSE) EXCEPT !.entering = TRUE]
    <3>1. Landing(l) \in SUBSET Events
      BY DEF Landing, Landings, Events
    <3>2. ASSUME NEW b \in BOOLEAN
          PROVE  /\ Waiting(f.code, l, b) \in Interests
                 /\ Waiting(f.code, l, b).held = TRUE /\ Waiting(f.code, l, b).entering = b
                 /\ Waiting(f.code, l, b).watching = [x \in Codes |-> IF x = f.code THEN Landing(l) ELSE {}]
      BY <3>1 DEF Waiting, Interests
    <3>3. QED
      BY <3>2 DEF Interests
  <2> HIDE DEF in1
  <2>2. QED
    BY <1>6, <2>1
<1>11. \A c \in Codes : c \notin codes => s.interest[t].watching[c] = {}
  BY <1>1 DEF One, Tidy, NoRestart, NoUnwind
<1>12. Follow(s, t, f, l) = RefreshEvents(on)
  BY Zenon DEF Follow, FollowsEntering
<1>13. moved \in Sessions /\ Becomes(s, moved, t, st0, s.restart[t], s.unwind[t], in0)
       /\ moved.local = s.local /\ moved.disabled = s.disabled
  <2> HIDE DEF st0, in0
  <2>1. QED
    BY <1>1, <1>4, <1>5 DEF Sessions, Becomes
<1> HIDE DEF moved, st0, in0, codes, st1, in1, old
<1>14. moved.interest[t] = in0 /\ \A u \in Threads \ {t} : moved.interest[u] = s.interest[u]
  BY <1>1, <1>13, BecomesAt
<1>e. \A c \in Codes : c \notin codes => moved.interest[t].watching[c] = s.interest[t].watching[c]
  BY <1>5, <1>11, <1>14
<1>15. put \in Sessions /\ SameBut(moved, put) /\ LocalMasked(put)
  BY <1>1, <1>13, <1>14, <1>e, CodesTold
<1> HIDE DEF put
<1>16. Becomes(s, put, t, st0, s.restart[t], s.unwind[t], in0) /\ put.disabled = s.disabled
  BY <1>13, <1>15, BecomesSame DEF SameBut
<1>17. put.step[t] = st0 /\ put.restart[t] = s.restart[t] /\ put.unwind[t] = s.unwind[t] /\ put.interest[t] = in0
  BY <1>1, <1>16, BecomesAt
<1>18. /\ watched \in Sessions /\ LocalMasked(watched) /\ watched.disabled = s.disabled
       /\ Becomes(put, watched, t, st1, s.restart[t], s.unwind[t], in1)
  BY <1>2, <1>7, <1>15, <1>16, <1>17, StepWatchIs DEF in1
<1> HIDE DEF watched
<1>19. Becomes(s, watched, t, st1, s.restart[t], s.unwind[t], in1)
  BY <1>1, <1>15, <1>16, <1>18, BecomesThen
<1>20. watched.step[t] = st1 /\ watched.restart[t] = s.restart[t] /\ watched.unwind[t] = s.unwind[t]
       /\ watched.interest[t] = in1
  BY <1>1, <1>19, BecomesAt
<1>21. /\ on \in Sessions /\ LocalMasked(on) /\ on.disabled = s.disabled
       /\ Becomes(s, on, t, Followed(old, f, l, e), s.restart[t], s.unwind[t], Waiting(f.code, l, e))
  <2>1. CASE ~e
    <3>1. on = watched /\ e = FALSE
      BY <2>1, <1>2 DEF old
    <3> HIDE DEF on
    <3>2. QED
      BY <3>1, <1>6, <1>8, <1>18, <1>19
  <2>2. CASE e
    <3>1. watched.interest[t].entering = watched.step[t].entering
      BY <1>7, <1>20, <1>4 DEF StepStates
    <3>2. LET r == GoOnEntering(watched, t) IN
          /\ r \in Sessions /\ LocalMasked(r) /\ r.disabled = watched.disabled
          /\ Becomes(watched, r, t, Followed(old, f, l, TRUE), s.restart[t], s.unwind[t],
                     Waiting(f.code, l, TRUE))
      BY <3>1, <1>18, <1>20, <1>9, <1>10, GoOnEnteringIs, ZenonT(40)
    <3>3. on = GoOnEntering(watched, t) /\ e = TRUE
      BY <2>2, <1>2 DEF old
    <3> HIDE DEF on
    <3>4. /\ on \in Sessions /\ LocalMasked(on) /\ on.disabled = s.disabled
          /\ Becomes(watched, on, t, Followed(old, f, l, e), s.restart[t], s.unwind[t],
                     Waiting(f.code, l, e))
      BY <3>2, <3>3, <1>18
    <3>5. QED
      BY <3>4, <1>1, <1>18, <1>19, BecomesThen
  <2>3. QED
    BY <2>1, <2>2, <1>2
<1> HIDE DEF on
<1>22. LET r == RefreshEvents(on) IN
       r \in Sessions /\ SameBut(on, r) /\ LocalMasked(r) /\ GlobalMasked(r)
  BY <1>21, EventsTold
<1> DEFINE r == RefreshEvents(on)
<1> HIDE DEF r
<1>23. /\ r \in Sessions /\ LocalMasked(r) /\ GlobalMasked(r) /\ r.disabled = s.disabled
       /\ Becomes(s, r, t, Followed(old, f, l, e), s.restart[t], s.unwind[t], Waiting(f.code, l, e))
  BY <1>21, <1>22, BecomesSame DEF SameBut, r
<1>24. r.step[t] = Followed(old, f, l, e) /\ r.restart[t] = s.restart[t] /\ r.unwind[t] = s.unwind[t]
       /\ r.interest[t] = Waiting(f.code, l, e)
  BY <1>1, <1>23, BecomesAt
<1>25. Followed(old, f, l, e).on /\ Followed(old, f, l, e).entering = e
       /\ Followed(old, f, l, e).armed = {f.code}
  BY <1>3 DEF Followed, StepStates
<1>26. Waiting(f.code, l, e).held /\ Waiting(f.code, l, e).entering = e
       /\ \A c \in Codes : c # f.code => Waiting(f.code, l, e).watching[c] = {}
  BY <1>2 DEF Waiting
<1>27. One(r, t)
  BY <1>1, <1>24, <1>25, <1>26 DEF One
<1>28. Tidy(r, t)
  BY <1>24, <1>25, <1>26 DEF Tidy
<1>29. Kept(r)
  BY <1>23, <1>27, <1>28, BecomesKept
<1>30. QED
  BY <1>12, <1>23, <1>29 DEF r, old

\* A step goes on with entries, and all masks are right.
LEMMA GoesOnEntering ==
    ASSUME NEW s, Kept(s), NEW t \in Threads, s.step[t].on
    PROVE  LET r == GoOnEntering(s, t) IN
           /\ Kept(r) /\ r.disabled = s.disabled
           /\ Becomes(s, r, t, [s.step[t] EXCEPT !.entering = TRUE], s.restart[t], s.unwind[t],
                      [s.interest[t] EXCEPT !.entering = TRUE])
<1> DEFINE r  == GoOnEntering(s, t)
           st == [s.step[t] EXCEPT !.entering = TRUE]
           in == [s.interest[t] EXCEPT !.entering = TRUE]
<1>1. s \in Sessions /\ LocalMasked(s) /\ GlobalMasked(s) /\ One(s, t) /\ Tidy(s, t)
  BY DEF Kept
<1>2. s.step[t] \in StepStates /\ s.interest[t] \in Interests
  BY <1>1 DEF Sessions
<1>3. s.interest[t].entering = s.step[t].entering
  BY <1>1 DEF Tidy
<1>4. /\ r \in Sessions /\ LocalMasked(r) /\ r.disabled = s.disabled
      /\ Becomes(s, r, t, st, s.restart[t], s.unwind[t], in)
  BY <1>1, <1>3, GoOnEnteringIs
<1>5. GlobalMasked(r)
  <2> DEFINE off == [s EXCEPT !.step[t].entering = TRUE, !.interest[t].entering = TRUE]
  <2>1. CASE s.step[t].entering
    BY <2>1, <1>1 DEF GoOnEntering
  <2>2. CASE ~s.step[t].entering
    <3>1. off \in Sessions
      <4>1. off = [s EXCEPT !.step = [s.step EXCEPT ![t] = st], !.interest = [s.interest EXCEPT ![t] = in]]
        BY <1>1 DEF Sessions
      <4>2. st \in StepStates /\ in \in Interests
        BY <1>2 DEF StepStates, Interests
      <4> HIDE DEF st, in, off
      <4>3. QED
        BY <1>1, <4>1, <4>2 DEF Sessions
    <3> HIDE DEF off
    <3>2. GlobalMasked(RefreshEvents(off))
      BY <3>1, RefreshEventsIs
    <3>3. QED
      BY <2>2, <3>2 DEF GoOnEntering, off
  <2>3. QED
    BY <2>1, <2>2
<1> HIDE DEF r
<1>6. /\ st.on /\ st.entering = TRUE /\ st.armed = s.step[t].armed
      /\ in.held = s.interest[t].held /\ in.entering = TRUE /\ in.watching = s.interest[t].watching
  BY <1>2 DEF StepStates, Interests
<1> HIDE DEF st, in
<1>7. r.step[t] = st /\ r.restart[t] = s.restart[t] /\ r.unwind[t] = s.unwind[t] /\ r.interest[t] = in
  BY <1>1, <1>4, BecomesAt
<1>8. One(r, t)
  BY <1>1, <1>6, <1>7 DEF One
<1>9. Tidy(r, t)
  BY <1>1, <1>6, <1>7 DEF Tidy
<1>10. QED
  BY <1>1, <1>4, <1>5, <1>8, <1>9, BecomesKept DEF r, st, in

\* A step that changes only in what it remembers.
LEMMA RemembersIs ==
    ASSUME NEW s, Kept(s), NEW t \in Threads, s.step[t].on, NEW st \in StepStates,
           st.on, st.entering = s.step[t].entering, st.armed = s.step[t].armed
    PROVE  LET r == [s EXCEPT !.step[t] = st] IN
           /\ Kept(r) /\ r.disabled = s.disabled
           /\ Becomes(s, r, t, st, s.restart[t], s.unwind[t], s.interest[t])
<1> DEFINE r == [s EXCEPT !.step[t] = st]
<1>1. s \in Sessions /\ LocalMasked(s) /\ GlobalMasked(s) /\ One(s, t) /\ Tidy(s, t)
  BY DEF Kept
<1>2. /\ r \in Sessions /\ r.disabled = s.disabled /\ r.local = s.local /\ r.global = s.global
      /\ r.interest = s.interest /\ r.pausing = s.pausing
      /\ Becomes(s, r, t, st, s.restart[t], s.unwind[t], s.interest[t])
  BY <1>1 DEF Sessions, Becomes
<1> HIDE DEF r
<1>3. \A c \in Codes : LocalWanted(r, c) = LocalWanted(s, c)
  BY <1>2, WantedAlike
<1>4. LocalMasked(r) /\ GlobalMasked(r)
  BY <1>1, <1>2, <1>3, GlobalAlike DEF LocalMasked, GlobalMasked
<1>5. r.step[t] = st /\ r.restart[t] = s.restart[t] /\ r.unwind[t] = s.unwind[t] /\ r.interest[t] = s.interest[t]
  BY <1>1, <1>2, BecomesAt
<1>6. One(r, t) /\ Tidy(r, t)
  BY <1>1, <1>5 DEF One, Tidy
<1>7. QED
  BY <1>1, <1>2, <1>4, <1>6, BecomesKept DEF r

-----------------------------------------------------------------------------
(***************************************************************************)
(* What the callbacks do with the step of their thread: st and in become   *)
(* st2 and in2.                                                            *)
(***************************************************************************)
StepStays(st, in, st2, in2) == st2 = st /\ in2 = in

\* It goes on in the frame f.
GoesOn(f, l, st, st2, in2) ==
    /\ st2.on /\ st2.kind = st.kind /\ st2.frame = f.id /\ st2.landing = l
    /\ in2.watching[f.code] = Landing(l)

Called(stk, st) == Len(stk) > 1 /\ Caller(stk).id = st.frame /\ Caller(stk).call = st.target

EnterStep(stk, st, in, st2, in2) ==
    \/ /\ ~st.on \/ ~st.entering \/ Top(stk).id = st.frame \/ (st.target # 0 /\ ~Called(stk, st))
       /\ StepStays(st, in, st2, in2)
    \/ /\ st.on /\ st.entering /\ Top(stk).id # st.frame /\ (st.target # 0 => Called(stk, st))
       /\ \/ Top(stk).code \in Through /\ StepStays([st EXCEPT !.target = 0], in, st2, in2)
          \/ /\ Top(stk).code \notin Through /\ GoesOn(Top(stk), "line", st, st2, in2)
             /\ st2.notAgain = 0

LeaveStep(stk, l, st, in, st2, in2) ==
    \/ (~st.on \/ Top(stk).id # st.frame) /\ StepStays(st, in, st2, in2)
    \/ /\ st.on /\ Top(stk).id = st.frame
       /\ \/ Len(stk) = 1 /\ StepStays(NoStep, NoInterest, st2, in2)
          \/ /\ Len(stk) > 1 /\ GoesOn(Caller(stk), st2.landing, st, st2, in2)
             /\ st.kind # "in" => st2.notAgain = 0 /\ st2.landing = l

Waits(stk, event, st) == st.on /\ st.landing = event /\ Top(stk).id = st.frame
Lands(stk, event, st) == /\ Waits(stk, event, st) /\ Top(stk).code \notin Through
                         /\ ~(event = "line" /\ st.notAgain = Top(stk).line)

ReachStep(stk, event, st, in, st2, in2) ==
    \/ Lands(stk, event, st) /\ StepStays(NoStep, NoInterest, st2, in2)
    \/ /\ Waits(stk, event, st) /\ Top(stk).code \in Through
       /\ GoesOn(Top(stk), "notYet", st, st2, in2)
       /\ st2.notAgain = 0 /\ st2.target = st.target /\ (st.kind = "in" => st2.entering)
    \/ /\ ~Lands(stk, event, st) /\ ~(Waits(stk, event, st) /\ Top(stk).code \in Through)
       /\ StepStays(st, in, st2, in2)

\* Becomes, for what the step of a thread does.
Changes(s, r, t) ==
    /\ Kept(r) /\ r.disabled = s.disabled
    /\ Becomes(s, r, t, r.step[t], s.restart[t], s.unwind[t], r.interest[t])

\* Doing nothing is a change of a step.
LEMMA ChangesNothing ==
    ASSUME NEW s, Kept(s), NEW t \in Threads PROVE Changes(s, s, t)
BY DEF Changes, Kept, Sessions, Becomes

\* A change of a thread that leaves its restart and unwinding alone is one of its step.
LEMMA ChangesAs ==
    ASSUME NEW s, Kept(s), NEW t \in Threads, NEW r, NEW st, NEW in, Kept(r), r.disabled = s.disabled,
           Becomes(s, r, t, st, s.restart[t], s.unwind[t], in)
    PROVE  Changes(s, r, t) /\ r.step[t] = st /\ r.interest[t] = in
<1>1. s \in Sessions
  BY DEF Kept
<1>2. r.step[t] = st /\ r.interest[t] = in
  BY <1>1, BecomesAt
<1>3. QED
  BY <1>2 DEF Changes

\* Two changes of a step are one.
LEMMA ChangesThen ==
    ASSUME NEW s, Kept(s), NEW t \in Threads, NEW a, NEW r, Changes(s, a, t), Changes(a, r, t)
    PROVE  Changes(s, r, t)
<1>1. s \in Sessions /\ a \in Sessions
  BY DEF Kept, Changes
<1>2. a.restart[t] = s.restart[t] /\ a.unwind[t] = s.unwind[t]
  BY <1>1, BecomesAt DEF Changes
<1>3. QED
  BY <1>1, <1>2, BecomesThen DEF Changes

\* The innermost frame and its caller are the last two of the stack.
LEMMA TopIs ==
    ASSUME NEW stk \in Seq(Frames), stk # <<>>
    PROVE  /\ Len(stk) \in Nat \ {0} /\ Top(stk) = stk[Len(stk)] /\ Top(stk) \in Frames
           /\ Len(stk) > 1 => Caller(stk) \in Frames /\ Caller(stk) = stk[Len(stk) - 1]
<1>1. Len(stk) \in Nat \ {0} /\ \A i \in 1..Len(stk) : stk[i] \in Frames
  OBVIOUS
<1>2. Top(stk) = stk[Len(stk)]
  BY DEF Top, Last
<1>3. QED
  BY <1>1, <1>2 DEF Caller

\* Going on in another frame is a change of the step, to that frame.
LEMMA FollowChanges ==
    ASSUME NEW s, Kept(s), NEW t \in Threads, s.step[t].on, NEW f \in Frames, NEW l \in Landings
    PROVE  LET r  == Follow(s, t, f, l)
               st == s.step[t]
           IN  /\ Changes(s, r, t) /\ GoesOn(f, l, st, r.step[t], r.interest[t])
               /\ r.step[t].notAgain = 0 /\ r.step[t] \in StepStates
               /\ r.step[t].target = (IF f.id = st.frame THEN st.target ELSE 0)
               /\ f.code \in Through /\ st.kind = "in" => r.step[t].entering
<1> DEFINE r   == Follow(s, t, f, l)
           e   == FollowsEntering(s.step[t], f)
           st2 == Followed(s.step[t], f, l, e)
           in2 == Waiting(f.code, l, e)
<1>1. s \in Sessions /\ s.step[t] \in StepStates /\ f.code \in Codes /\ f.id \in Nat
  BY DEF Kept, Sessions, Frames
<1>2. /\ Kept(r) /\ r.disabled = s.disabled
      /\ Becomes(s, r, t, st2, s.restart[t], s.unwind[t], in2)
  BY FollowIs
<1>3. /\ st2.on /\ st2.kind = s.step[t].kind /\ st2.frame = f.id /\ st2.landing = l
      /\ st2.notAgain = 0 /\ st2.target = (IF f.id = s.step[t].frame THEN s.step[t].target ELSE 0)
      /\ st2.entering = e
  BY <1>1 DEF Followed, StepStates
<1>4. in2.watching[f.code] = Landing(l)
  BY <1>1 DEF Waiting
<1>e. f.code \in Through /\ s.step[t].kind = "in" => e
  BY DEF FollowsEntering
<1> HIDE DEF r, e, st2, in2
<1>5. r.step[t] = st2 /\ r.interest[t] = in2
  BY <1>1, <1>2, BecomesAt
<1>6. Changes(s, r, t)
  BY <1>2, <1>5 DEF Changes
<1>7. r.step[t] \in StepStates
  BY <1>2 DEF Kept, Sessions
<1>8. QED
  BY <1>3, <1>4, <1>e, <1>5, <1>6, <1>7 DEF GoesOn, r

\* What a step makes of the entry of a frame.
LEMMA StepEnteredIs ==
    ASSUME NEW s, Kept(s), NEW t \in Threads, NEW stk \in Seq(Frames), stk # <<>>
    PROVE  LET r == StepEntered(s, t, stk) IN
           Changes(s, r, t) /\ EnterStep(stk, s.step[t], s.interest[t], r.step[t], r.interest[t])
<1> DEFINE r      == StepEntered(s, t, stk)
           st     == s.step[t]
           chosen == [s EXCEPT !.step[t] = [st EXCEPT !.target = 0]]
<1>1. s \in Sessions /\ st \in StepStates
  BY DEF Kept, Sessions
<1>2. Top(stk) \in Frames /\ Top(stk).id \in Nat /\ Top(stk).code \in Codes
  BY TopIs DEF Frames
<1>3. CASE ~st.on \/ ~st.entering \/ Top(stk).id = st.frame \/ (st.target # 0 /\ ~Called(stk, st))
  <2>1. r = s
    BY <1>3 DEF StepEntered, Called
  <2>2. QED
    BY <1>3, <2>1, ChangesNothing DEF EnterStep, StepStays
<1>4. CASE st.on /\ st.entering /\ Top(stk).id # st.frame /\ (st.target # 0 => Called(stk, st))
  <2>0. [s EXCEPT !.step[t].target = 0] = chosen
    BY <1>1 DEF Sessions
  <2>1. r = IF Top(stk).code \in Through THEN chosen ELSE Follow(chosen, t, Top(stk), "line")
    BY <1>4, <2>0 DEF StepEntered, Called
  <2>2. /\ [st EXCEPT !.target = 0] \in StepStates /\ [st EXCEPT !.target = 0].on
        /\ [st EXCEPT !.target = 0].entering = st.entering /\ [st EXCEPT !.target = 0].armed = st.armed
        /\ [st EXCEPT !.target = 0].kind = st.kind
    BY <1>1, <1>4 DEF StepStates
  <2>3. /\ Kept(chosen) /\ chosen.disabled = s.disabled
        /\ Becomes(s, chosen, t, [st EXCEPT !.target = 0], s.restart[t], s.unwind[t], s.interest[t])
    BY <1>4, <2>2, RemembersIs
  <2> HIDE DEF chosen, r
  <2>4. Changes(s, chosen, t) /\ chosen.step[t] = [st EXCEPT !.target = 0] /\ chosen.interest[t] = s.interest[t]
    BY <2>3, ChangesAs
  <2>5. CASE Top(stk).code \in Through
    BY <1>4, <2>1, <2>4, <2>5 DEF EnterStep, StepStays, r
  <2>6. CASE Top(stk).code \notin Through
    <3>1. chosen.step[t].on /\ chosen.step[t].kind = st.kind /\ "line" \in Landings
      BY <2>2, <2>4 DEF Landings
    <3>2. /\ Changes(chosen, r, t) /\ r.step[t].notAgain = 0
          /\ GoesOn(Top(stk), "line", chosen.step[t], r.step[t], r.interest[t])
      BY <1>2, <2>1, <2>3, <2>6, <3>1, FollowChanges
    <3>3. Changes(s, r, t)
      BY <2>4, <3>2, ChangesThen
    <3>4. GoesOn(Top(stk), "line", st, r.step[t], r.interest[t])
      BY <3>1, <3>2 DEF GoesOn
    <3>5. QED
      BY <1>4, <2>6, <3>2, <3>3, <3>4 DEF EnterStep, r
  <2>7. QED
    BY <2>5, <2>6
<1>5. QED
  BY <1>3, <1>4

\* What a step makes of the innermost frame going.
LEMMA StepLeftIs ==
    ASSUME NEW s, Kept(s), NEW t \in Threads, NEW stk \in Seq(Frames), stk # <<>>,
           NEW l \in {"line", "instruction"}
    PROVE  LET r == StepLeft(s, t, stk, l) IN
           Changes(s, r, t) /\ LeaveStep(stk, l, s.step[t], s.interest[t], r.step[t], r.interest[t])
<1> DEFINE r      == StepLeft(s, t, stk, l)
           st     == s.step[t]
           passed == st.through /\ st.kind = "in"
           after1 == IF passed THEN "line" ELSE l
           back   == Follow(s, t, Caller(stk), after1)
<1>1. s \in Sessions /\ st \in StepStates
  BY DEF Kept, Sessions
<1>2. Len(stk) \in Nat \ {0} /\ (Len(stk) > 1 => Caller(stk) \in Frames)
  BY TopIs
<1>3. CASE ~st.on \/ Top(stk).id # st.frame
  <2>1. r = s
    BY <1>3 DEF StepLeft
  <2>2. QED
    BY <1>3, <2>1, ChangesNothing DEF LeaveStep, StepStays
<1>4. CASE st.on /\ Top(stk).id = st.frame /\ Len(stk) = 1
  <2>1. r = StepRelease(s, t)
    BY <1>4 DEF StepLeft
  <2>2. /\ Kept(r) /\ r.disabled = s.disabled
        /\ Becomes(s, r, t, NoStep, s.restart[t], s.unwind[t], NoInterest)
    BY <1>4, <2>1, StepReleaseIs
  <2> HIDE DEF r
  <2>3. r.step[t] = NoStep /\ r.interest[t] = NoInterest
    BY <1>1, <2>2, BecomesAt
  <2>4. QED
    BY <1>4, <2>2, <2>3 DEF Changes, LeaveStep, StepStays, r
<1>5. CASE st.on /\ Top(stk).id = st.frame /\ Len(stk) # 1
  <2>1. r = IF passed THEN GoOnEntering([back EXCEPT !.step[t].notAgain = Caller(stk).line], t)
            ELSE back
    BY <1>5 DEF StepLeft
  <2>2. Len(stk) > 1 /\ Caller(stk) \in Frames /\ after1 \in Landings /\ st.on
        /\ Caller(stk).line \in Nat
    <3>a. \A n \in Nat \ {0} : n # 1 => n > 1
      OBVIOUS
    <3>1. Len(stk) > 1
      BY <1>2, <1>5, <3>a
    <3>2. after1 \in Landings
      BY DEF Landings
    <3>3. Caller(stk) \in Frames /\ Caller(stk).line \in Nat
      BY <1>2, <3>1 DEF Frames
    <3>4. QED
      BY <1>5, <3>1, <3>2, <3>3
  <2> HIDE DEF r, after1
  <2>3. /\ Changes(s, back, t) /\ GoesOn(Caller(stk), after1, st, back.step[t], back.interest[t])
        /\ back.step[t].notAgain = 0 /\ back.step[t] \in StepStates
    BY <2>2, FollowChanges
  <2> HIDE DEF back
  <2>4. CASE ~passed
    <3>1. r = back /\ after1 = l
      BY <2>1, <2>4 DEF after1
    <3>2. back.step[t].landing = l
      BY <2>3, <3>1 DEF GoesOn
    <3>3. QED
      BY <1>5, <2>2, <2>3, <3>1, <3>2 DEF LeaveStep, r
  <2>5. CASE passed
    <3> DEFINE noted == [back EXCEPT !.step[t].notAgain = Caller(stk).line]
               st1   == [back.step[t] EXCEPT !.notAgain = Caller(stk).line]
    <3>1. back \in Sessions
      BY <2>3 DEF Changes, Kept
    <3>2. noted = [back EXCEPT !.step[t] = st1]
      BY <3>1 DEF Sessions
    <3>3. back.step[t].on
      BY <2>3 DEF GoesOn
    <3>4. /\ st1 \in StepStates /\ st1.on /\ st1.entering = back.step[t].entering
          /\ st1.armed = back.step[t].armed /\ st1.kind = back.step[t].kind
          /\ st1.frame = back.step[t].frame /\ st1.landing = back.step[t].landing
      BY <2>2, <2>3, <3>3 DEF StepStates
    <3> HIDE DEF noted, st1
    <3>5. /\ Kept(noted) /\ noted.disabled = back.disabled
          /\ Becomes(back, noted, t, st1, back.restart[t], back.unwind[t], back.interest[t])
      BY <2>3, <3>2, <3>3, <3>4, RemembersIs DEF Changes
    <3>6. noted.step[t] = st1 /\ noted.interest[t] = back.interest[t]
      BY <3>1, <3>5, BecomesAt
    <3>7. Changes(back, noted, t)
      BY <3>5, <3>6 DEF Changes
    <3>8. r = GoOnEntering(noted, t)
      BY <2>1, <2>5 DEF noted
    <3> DEFINE st2 == [noted.step[t] EXCEPT !.entering = TRUE]
               in2 == [noted.interest[t] EXCEPT !.entering = TRUE]
    <3>9. /\ Kept(r) /\ r.disabled = noted.disabled
          /\ Becomes(noted, r, t, st2, noted.restart[t], noted.unwind[t], in2)
      BY <3>4, <3>5, <3>6, <3>8, GoesOnEntering
    <3>10. noted \in Sessions /\ noted.interest[t] \in Interests
      BY <3>5 DEF Kept, Sessions
    <3>11. /\ st2.on /\ st2.kind = st1.kind /\ st2.frame = st1.frame /\ st2.landing = st1.landing
           /\ in2.watching = noted.interest[t].watching
      BY <3>4, <3>6, <3>10 DEF StepStates, Interests
    <3> HIDE DEF st2, in2
    <3>12. r.step[t] = st2 /\ r.interest[t] = in2
      BY <3>9, <3>10, BecomesAt
    <3>13. Changes(noted, r, t)
      BY <3>9, <3>12 DEF Changes
    <3>14. Changes(s, noted, t)
      BY <2>3, <3>7, ChangesThen
    <3>15. Changes(s, r, t)
      BY <3>13, <3>14, ChangesThen
    <3>16. GoesOn(Caller(stk), r.step[t].landing, st, r.step[t], r.interest[t])
      BY <2>3, <3>4, <3>6, <3>11, <3>12 DEF GoesOn
    <3>17. QED
      BY <1>5, <2>2, <2>5, <3>15, <3>16 DEF LeaveStep, r
  <2>6. QED
    BY <2>4, <2>5
<1>6. QED
  BY <1>3, <1>4, <1>5

\* What a step makes of an event of the innermost frame.
LEMMA StepReachedIs ==
    ASSUME NEW s, Kept(s), NEW t \in Threads, NEW stk \in Seq(Frames), stk # <<>>,
           NEW event \in {"line", "instruction"}
    PROVE  LET r == StepReached(s, t, stk, event) IN
           /\ Changes(s, r, t)
           /\ ReachStep(stk, event, s.step[t], s.interest[t], r.step[t], r.interest[t])
<1> DEFINE r  == StepReached(s, t, stk, event)
           st == s.step[t]
<1>1. s \in Sessions /\ st \in StepStates
  BY DEF Kept, Sessions
<1>2. /\ StepWaits(s, t, stk, event) = Waits(stk, event, st)
      /\ StepLands(s, t, stk, event) = Lands(stk, event, st)
  BY DEF StepWaits, Waits, StepLands, Lands
<1>3. CASE Lands(stk, event, st)
  <2>1. r = StepRelease(s, t)
    BY <1>2, <1>3 DEF StepReached
  <2>2. /\ Kept(r) /\ r.disabled = s.disabled
        /\ Becomes(s, r, t, NoStep, s.restart[t], s.unwind[t], NoInterest)
    BY <1>3, <2>1, StepReleaseIs DEF Lands, Waits
  <2> HIDE DEF r
  <2>3. r.step[t] = NoStep /\ r.interest[t] = NoInterest
    BY <1>1, <2>2, BecomesAt
  <2>4. QED
    BY <1>3, <2>2, <2>3 DEF Changes, ReachStep, StepStays, r
<1>4. CASE ~Lands(stk, event, st) /\ Waits(stk, event, st) /\ Top(stk).code \in Through
  <2>1. r = Follow(s, t, Top(stk), "notYet")
    BY <1>2, <1>4 DEF StepReached
  <2>2. Top(stk) \in Frames /\ "notYet" \in Landings /\ st.on /\ Top(stk).id = st.frame
    BY <1>4, TopIs DEF Landings, Waits
  <2>3. /\ Changes(s, r, t) /\ GoesOn(Top(stk), "notYet", st, r.step[t], r.interest[t])
        /\ r.step[t].notAgain = 0
        /\ r.step[t].target = (IF Top(stk).id = st.frame THEN st.target ELSE 0)
        /\ Top(stk).code \in Through /\ st.kind = "in" => r.step[t].entering
    BY <2>1, <2>2, FollowChanges
  <2> HIDE DEF r
  <2>4. QED
    BY <1>4, <2>2, <2>3 DEF ReachStep, r
<1>5. CASE ~Lands(stk, event, st) /\ ~(Waits(stk, event, st) /\ Top(stk).code \in Through)
  <2>1. r = s
    BY <1>2, <1>5 DEF StepReached
  <2>2. QED
    BY <1>5, <2>1, ChangesNothing DEF ReachStep, StepStays
<1>6. QED
  BY <1>3, <1>4, <1>5

-----------------------------------------------------------------------------
(***************************************************************************)
(* What the engine arms, and how the callbacks carry it on.                *)
(***************************************************************************)
Idle(s, t) == ~s.step[t].on /\ ~s.restart[t].on /\ ~s.unwind[t].on

\* A thread with nothing armed has no entry, and cancelling changes nothing.
LEMMA IdleIs ==
    ASSUME NEW s, Kept(s), NEW t \in Threads, Idle(s, t)
    PROVE  /\ s.step[t] = NoStep /\ s.restart[t] = NoRestart /\ s.unwind[t] = NoUnwind
           /\ s.interest[t] = NoInterest /\ \A c \in Codes : s.interest[t].watching[c] = {}
           /\ StepCancel(s, t) = s /\ RestartCancel(s, t) = s /\ UnwindCancel(s, t) = s
<1>1. One(s, t)
  BY DEF Kept
<1>2. \A c \in Codes : NoInterest.watching[c] = {}
  BY DEF NoInterest
<1>3. QED
  BY <1>1, <1>2 DEF One, Idle, StepCancel, RestartCancel, UnwindCancel

\* Something is armed: the code it watches is told to the interpreter, and every
\* location is offered again.
LEMMA ArmIs ==
    ASSUME NEW s, Kept(s), NEW t \in Threads, Idle(s, t), NEW st, NEW rs, NEW un, NEW in,
           NEW off \in Sessions, Becomes(s, off, t, st, rs, un, in), off.local = s.local,
           One(off, t), Tidy(off, t), NEW codes,
           \A c \in Codes : c \notin codes => in.watching[c] = {}
    PROVE  LET r == RefreshEvents(RestartLocations(RefreshCodes(off, codes))) IN
           Kept(r) /\ Becomes(s, r, t, st, rs, un, in) /\ r.disabled = {}
<1> DEFINE told == RefreshCodes(off, codes)
           free == RestartLocations(told)
           r    == RefreshEvents(free)
<1>1. s \in Sessions /\ LocalMasked(s) /\ \A c \in Codes : s.interest[t].watching[c] = {}
  BY IdleIs DEF Kept
<1>2. /\ off.interest[t] = in
      /\ \A u \in Threads \ {t} : off.interest[u] = s.interest[u]
  BY <1>1, BecomesAt
<1>3. \A c \in Codes : c \notin codes => off.interest[t].watching[c] = s.interest[t].watching[c]
  BY <1>1, <1>2
<1>4. told \in Sessions /\ SameBut(off, told) /\ LocalMasked(told)
  BY <1>1, <1>2, <1>3, CodesTold
<1> HIDE DEF told
<1>5. /\ free \in Sessions /\ free.disabled = {} /\ free.local = told.local
      /\ free.step = told.step /\ free.restart = told.restart /\ free.unwind = told.unwind
      /\ free.interest = told.interest
  BY <1>4, RestartLocationsIs
<1> HIDE DEF free
<1>6. \A c \in Codes : LocalWanted(free, c) = LocalWanted(told, c)
  BY <1>5, WantedAlike
<1>7. LocalMasked(free)
  BY <1>4, <1>5, <1>6 DEF LocalMasked
<1>8. r \in Sessions /\ SameBut(free, r) /\ LocalMasked(r) /\ GlobalMasked(r)
  BY <1>5, <1>7, EventsTold
<1> HIDE DEF r
<1>9. /\ r.step = off.step /\ r.restart = off.restart /\ r.unwind = off.unwind
      /\ r.interest = off.interest /\ r.disabled = {}
  BY <1>4, <1>5, <1>8 DEF SameBut
<1>10. Becomes(s, r, t, st, rs, un, in)
  BY <1>9 DEF Becomes
<1>11. One(r, t) /\ Tidy(r, t)
  BY <1>9 DEF One, Tidy
<1>12. Kept(r)
  BY <1>8, <1>10, <1>11, BecomesKept
<1>13. QED
  BY <1>9, <1>10, <1>12 DEF r, free, told

ArmedStep(f, kind, target) ==
    [on |-> TRUE, kind |-> kind, frame |-> f.id, armed |-> {f.code},
     landing |-> IF kind = "out" THEN "notYet" ELSE "line", entering |-> kind = "in",
     target |-> target, through |-> FALSE, notAgain |-> 0]

\* The interest of a step is in one code object.
LEMMA WaitingIsTyped ==
    ASSUME NEW c \in Codes, NEW l \in Landings, NEW e \in BOOLEAN
    PROVE  /\ Waiting(c, l, e) \in Interests /\ Waiting(c, l, e).held
           /\ Waiting(c, l, e).entering = e /\ Waiting(c, l, e).watching[c] = Landing(l)
           /\ \A x \in Codes : x # c => Waiting(c, l, e).watching[x] = {}
<1>1. Landing(l) \in SUBSET Events
  BY DEF Landing, Landings, Events
<1>2. QED
  BY <1>1 DEF Waiting, Interests

\* Arming a step leaves the session well formed, with the step in the innermost frame.
LEMMA StepArmIs ==
    ASSUME NEW s, Kept(s), NEW t \in Threads, Idle(s, t), Top(stack[t]) \in Frames,
           NEW kind \in {"over", "in", "out"}, NEW target \in Nat
    PROVE  LET r == StepArm(s, t, kind, target)
               f == Top(stack[t])
           IN  /\ Kept(r) /\ r.disabled = {}
               /\ Becomes(s, r, t, ArmedStep(f, kind, target), s.restart[t], s.unwind[t],
                    Waiting(f.code, IF kind = "out" THEN "notYet" ELSE "line", kind = "in"))
<1> DEFINE f    == Top(stack[t])
           l    == IF kind = "out" THEN "notYet" ELSE "line"
           e    == kind = "in"
           st0  == [on |-> TRUE, kind |-> kind, frame |-> f.id, armed |-> {},
                    landing |-> l, entering |-> e, target |-> target,
                    through |-> FALSE, notAgain |-> 0]
           st   == ArmedStep(f, kind, target)
           in0  == [NoInterest EXCEPT !.held = TRUE, !.entering = e]
           in   == Waiting(f.code, l, e)
           held == [HoldInterest(s, t, e) EXCEPT !.step[t] = st0]
           off  == [s EXCEPT !.step = [s.step EXCEPT ![t] = st],
                             !.interest = [s.interest EXCEPT ![t] = in]]
<1>1. s \in Sessions /\ One(s, t)
  BY DEF Kept
<1>2. f.id \in Nat /\ f.code \in Codes /\ l \in Landings /\ e \in BOOLEAN
  BY DEF Frames, Landings
<1>3. st0 \in StepStates /\ st \in StepStates /\ st = [st0 EXCEPT !.armed = @ \cup {f.code}]
      /\ st0.landing = l
  <2>1. st = [on |-> TRUE, kind |-> kind, frame |-> f.id, armed |-> {f.code},
              landing |-> l, entering |-> e, target |-> target, through |-> FALSE, notAgain |-> 0]
    BY DEF ArmedStep
  <2> HIDE DEF l, e, f, st
  <2>2. st0 \in StepStates /\ st \in StepStates
    BY <1>2, <2>1 DEF StepStates, Kinds
  <2>3. /\ st0.on = st.on /\ st0.kind = st.kind /\ st0.frame = st.frame /\ st0.landing = st.landing
        /\ st0.entering = st.entering /\ st0.target = st.target /\ st0.through = st.through
        /\ st0.notAgain = st.notAgain /\ st0.armed = {} /\ st.armed = {f.code} /\ st0.landing = l
    BY <2>1
  <2> HIDE DEF st0
  <2>4. QED
    BY <2>2, <2>3 DEF StepStates
<1>4. in0 \in Interests /\ in0.held = TRUE /\ in0.entering = e
      /\ in0.watching = [c \in Codes |-> {}]
  BY <1>2 DEF Interests, NoInterest
<1>5. in \in Interests /\ in.held /\ in.entering = e /\ \A c \in Codes : c # f.code => in.watching[c] = {}
  BY <1>2, WaitingIsTyped
<1>6. [in0 EXCEPT !.watching[f.code] = Landing(l)] = in
  <2> HIDE DEF in0, l, e
  <2>1. [in0.watching EXCEPT ![f.code] = Landing(l)] = [x \in Codes |-> IF x = f.code THEN Landing(l) ELSE {}]
    BY <1>2, <1>4
  <2>2. in.held = TRUE /\ in.watching = [x \in Codes |-> IF x = f.code THEN Landing(l) ELSE {}]
    BY DEF Waiting
  <2> HIDE DEF in
  <2>3. QED
    BY <1>4, <1>5, <2>1, <2>2, ZenonT(40) DEF Interests
<1>7. StepArm(s, t, kind, target) = RefreshEvents(RestartLocations(StepWatch(held, t, f.code)))
  BY IdleIs DEF StepArm
<1>8. held = [s EXCEPT !.step = [s.step EXCEPT ![t] = st0],
                       !.interest = [s.interest EXCEPT ![t] = in0]]
  BY <1>1 DEF HoldInterest, Sessions
<1> HIDE DEF st0, st, in0, in, held, l, e, f
<1>9. held.step[t] = st0 /\ held.interest[t] = in0 /\ held.step[t].landing = l
  BY <1>1, <1>3, <1>8 DEF Sessions
<1>10. [[held EXCEPT !.step[t].armed = @ \cup {f.code}] EXCEPT !.interest[t].watching[f.code] = Landing(l)] = off
  <2>1. held.step \in [Threads -> StepStates] /\ held.interest \in [Threads -> Interests]
        /\ held.step = [s.step EXCEPT ![t] = st0] /\ held.interest = [s.interest EXCEPT ![t] = in0]
    BY <1>1, <1>3, <1>4, <1>8 DEF Sessions
  <2>2. [held.step EXCEPT ![t].armed = @ \cup {f.code}] = [s.step EXCEPT ![t] = st]
    BY <1>3, <2>1
  <2>3. [held.interest EXCEPT ![t].watching[f.code] = Landing(l)] = [s.interest EXCEPT ![t] = in]
    BY <1>6, <2>1
  <2>4. held \in Sessions
    BY <1>1, <1>3, <1>4, <1>8 DEF Sessions
  <2>5. [[held EXCEPT !.step[t].armed = @ \cup {f.code}] EXCEPT !.interest[t].watching[f.code] = Landing(l)]
         = [held EXCEPT !.step = [held.step EXCEPT ![t].armed = @ \cup {f.code}],
                        !.interest = [held.interest EXCEPT ![t].watching[f.code] = Landing(l)]]
    BY <2>4 DEF Sessions
  <2>6. [held EXCEPT !.step = [s.step EXCEPT ![t] = st], !.interest = [s.interest EXCEPT ![t] = in]] = off
    BY <1>1, <1>8 DEF Sessions
  <2>7. QED
    BY <2>2, <2>3, <2>5, <2>6
<1>11. StepWatch(held, t, f.code) = RefreshCodes(off, {f.code})
  BY <1>9, <1>10 DEF StepWatch, Watch, Landing
<1>12. off \in Sessions /\ Becomes(s, off, t, st, s.restart[t], s.unwind[t], in) /\ off.local = s.local
  BY <1>1, <1>3, <1>5 DEF Sessions, Becomes
<1> HIDE DEF off
<1>13. off.step[t] = st /\ off.restart[t] = s.restart[t] /\ off.unwind[t] = s.unwind[t] /\ off.interest[t] = in
  BY <1>1, <1>12, BecomesAt
<1>14. st.on /\ st.armed = {f.code} /\ st.entering = e
  BY DEF st, ArmedStep, e
<1>15. One(off, t)
  BY <1>1, <1>5, <1>13, <1>14 DEF One, Idle
<1>16. Tidy(off, t)
  BY <1>5, <1>13, <1>14 DEF Tidy
<1>17. \A c \in Codes : c \notin {f.code} => in.watching[c] = {}
  BY <1>5
<1> DEFINE codes == {f.code}
<1> HIDE DEF codes
<1>18. LET r == RefreshEvents(RestartLocations(RefreshCodes(off, codes))) IN
       Kept(r) /\ Becomes(s, r, t, st, s.restart[t], s.unwind[t], in) /\ r.disabled = {}
  BY <1>12, <1>15, <1>16, <1>17, ArmIs DEF codes
<1>19. QED
  BY <1>7, <1>11, <1>18 DEF codes, st, in, f, l, e

\* The lines of this code and nothing else.
WatchingLines(codes) ==
    [held |-> TRUE, watching |-> [c \in Codes |-> IF c \in codes THEN {"line"} ELSE {}],
     entering |-> FALSE]

\* That interest has its type.
LEMMA WatchingLinesIs ==
    ASSUME NEW codes
    PROVE  /\ WatchingLines(codes) \in Interests /\ WatchingLines(codes).held
           /\ WatchingLines(codes).entering = FALSE
           /\ \A c \in Codes : WatchingLines(codes).watching[c] = IF c \in codes THEN {"line"} ELSE {}
<1>1. {"line"} \in SUBSET Events
  BY DEF Events
<1>2. QED
  BY <1>1 DEF WatchingLines, Interests

\* A new entry of the registry watches nothing.
LEMMA HoldInterestIs ==
    ASSUME NEW s \in Sessions, NEW t \in Threads
    PROVE  HoldInterest(s, t, FALSE) =
             [s EXCEPT !.interest = [s.interest EXCEPT ![t] = WatchingLines({})]]
<1> DEFINE in0 == [NoInterest EXCEPT !.held = TRUE, !.entering = FALSE]
<1>1. in0 \in Interests /\ in0.held = TRUE /\ in0.entering = FALSE /\ in0.watching = [c \in Codes |-> {}]
  BY DEF Interests, NoInterest
<1>2. HoldInterest(s, t, FALSE) = [s EXCEPT !.interest = [s.interest EXCEPT ![t] = in0]]
  BY DEF HoldInterest, Sessions
<1>3. WatchingLines({}).held = TRUE /\ WatchingLines({}).watching = [c \in Codes |-> {}]
  BY DEF WatchingLines
<1>i. WatchingLines({}) \in Interests /\ WatchingLines({}).entering = FALSE
  BY WatchingLinesIs
<1> HIDE DEF in0
<1>4. in0 = WatchingLines({})
  BY <1>1, <1>3, <1>i DEF Interests
<1>5. QED
  BY <1>2, <1>4

ArmedRestart(stk) ==
    [on |-> TRUE, caller |-> Caller(stk).id, frame |-> 0, line |-> Caller(stk).line,
     code |-> Top(stk).code, watching |-> {Caller(stk).code}, phase |-> "rewinding"]

\* Arming a restart leaves the session well formed, watching the lines of the caller.
LEMMA RestartArmIs ==
    ASSUME NEW s, Kept(s), NEW t \in Threads, Idle(s, t), NEW stk \in Seq(Frames), Len(stk) > 1
    PROVE  LET r == RestartArm(s, t, stk) IN
           /\ Kept(r) /\ r.disabled = {}
           /\ Becomes(s, r, t, s.step[t], ArmedRestart(stk), s.unwind[t],
                      WatchingLines({Caller(stk).code}))
<1> DEFINE c    == Caller(stk).code
           rs0  == [on |-> TRUE, caller |-> Caller(stk).id, frame |-> 0, line |-> Caller(stk).line,
                    code |-> Top(stk).code, watching |-> {}, phase |-> "rewinding"]
           rs   == ArmedRestart(stk)
           in0  == WatchingLines({})
           in   == WatchingLines({c})
           held == [HoldInterest(s, t, FALSE) EXCEPT !.restart[t] = rs0]
           off  == [s EXCEPT !.restart = [s.restart EXCEPT ![t] = rs],
                             !.interest = [s.interest EXCEPT ![t] = in]]
<1>1. s \in Sessions /\ One(s, t)
  BY DEF Kept
<1>2. Caller(stk) \in Frames /\ Top(stk) \in Frames
  BY TopIs
<1>3. Caller(stk).id \in Nat /\ Caller(stk).line \in Nat /\ c \in Codes /\ Top(stk).code \in Codes
  BY <1>2 DEF Frames
<1>4. rs0 \in RestartStates /\ rs \in RestartStates /\ rs = [rs0 EXCEPT !.watching = @ \cup {c}]
  <2>1. rs0 \in RestartStates /\ rs \in RestartStates
    BY <1>3 DEF RestartStates, ArmedRestart
  <2>2. /\ rs0.on = rs.on /\ rs0.caller = rs.caller /\ rs0.frame = rs.frame /\ rs0.line = rs.line
        /\ rs0.code = rs.code /\ rs0.phase = rs.phase /\ rs0.watching = {} /\ rs.watching = {c}
    BY DEF ArmedRestart
  <2> HIDE DEF rs0, rs
  <2>3. QED
    BY <2>1, <2>2 DEF RestartStates
<1>5. /\ in0 \in Interests /\ in \in Interests /\ in0.held /\ in.held /\ in0.entering = FALSE /\ in.entering = FALSE
      /\ \A x \in Codes : in0.watching[x] = {}
      /\ \A x \in Codes : in.watching[x] = IF x = c THEN {"line"} ELSE {}
  BY WatchingLinesIs
<1>6. [in0 EXCEPT !.watching[c] = {"line"}] = in
  <2> HIDE DEF in0, in, c
  <2>1. [in0.watching EXCEPT ![c] = {"line"}] = in.watching
    BY <1>3, <1>5 DEF Interests
  <2>2. QED
    BY <1>5, <2>1 DEF Interests
<1>7. RestartArm(s, t, stk) = RefreshEvents(RestartLocations(RestartWatch(held, t, c)))
  BY IdleIs DEF RestartArm
<1>8. held = [s EXCEPT !.restart = [s.restart EXCEPT ![t] = rs0],
                       !.interest = [s.interest EXCEPT ![t] = in0]]
  <2>1. HoldInterest(s, t, FALSE) = [s EXCEPT !.interest = [s.interest EXCEPT ![t] = in0]]
    BY <1>1, HoldInterestIs
  <2> HIDE DEF rs0, in0
  <2>2. QED
    BY <1>1, <2>1 DEF Sessions
<1> HIDE DEF rs0, rs, in0, in, held, c
<1>9. [[held EXCEPT !.restart[t].watching = @ \cup {c}] EXCEPT !.interest[t].watching[c] = {"line"}] = off
  <2>1. held \in Sessions /\ held.restart = [s.restart EXCEPT ![t] = rs0] /\ held.interest = [s.interest EXCEPT ![t] = in0]
    BY <1>1, <1>4, <1>5, <1>8 DEF Sessions
  <2>2. [held.restart EXCEPT ![t].watching = @ \cup {c}] = [s.restart EXCEPT ![t] = rs]
    BY <1>1, <1>4, <2>1 DEF Sessions
  <2>3. [held.interest EXCEPT ![t].watching[c] = {"line"}] = [s.interest EXCEPT ![t] = in]
    BY <1>1, <1>6, <2>1 DEF Sessions
  <2>4. [[held EXCEPT !.restart[t].watching = @ \cup {c}] EXCEPT !.interest[t].watching[c] = {"line"}]
         = [held EXCEPT !.restart = [held.restart EXCEPT ![t].watching = @ \cup {c}],
                        !.interest = [held.interest EXCEPT ![t].watching[c] = {"line"}]]
    BY <2>1 DEF Sessions
  <2>5. [held EXCEPT !.restart = [s.restart EXCEPT ![t] = rs], !.interest = [s.interest EXCEPT ![t] = in]] = off
    BY <1>1, <1>8 DEF Sessions
  <2>6. QED
    BY <2>2, <2>3, <2>4, <2>5
<1>10. RestartWatch(held, t, c) = RefreshCodes(off, {c})
  BY <1>9 DEF RestartWatch, Watch
<1>11. off \in Sessions /\ Becomes(s, off, t, s.step[t], rs, s.unwind[t], in) /\ off.local = s.local
  BY <1>1, <1>4, <1>5 DEF Sessions, Becomes
<1> HIDE DEF off
<1>12. off.step[t] = s.step[t] /\ off.restart[t] = rs /\ off.unwind[t] = s.unwind[t] /\ off.interest[t] = in
  BY <1>1, <1>11, BecomesAt
<1>13. rs.on /\ rs.watching = {c}
  BY DEF rs, ArmedRestart, c
<1>14. One(off, t)
  BY <1>1, <1>5, <1>12, <1>13 DEF One, Idle
<1>15. Tidy(off, t)
  BY <1>5, <1>12, <1>13 DEF Tidy, Idle
<1> DEFINE codes == {c}
<1>16. \A x \in Codes : x \notin codes => in.watching[x] = {}
  BY <1>5
<1> HIDE DEF codes
<1>17. LET r == RefreshEvents(RestartLocations(RefreshCodes(off, codes))) IN
       Kept(r) /\ Becomes(s, r, t, s.step[t], rs, s.unwind[t], in) /\ r.disabled = {}
  BY <1>11, <1>14, <1>15, <1>16, ArmIs DEF codes
<1>18. QED
  BY <1>7, <1>10, <1>17 DEF codes, rs, in, c

CodesFrom(stk, i) == {stk[j].code : j \in i..Len(stk)}
ArmedUnwind(stk, i) ==
    [on |-> TRUE, target |-> stk[i].id, watching |-> CodesFrom(stk, i),
     above |-> [k \in 1..(Len(stk) - i) |-> stk[Len(stk) + 1 - k].id]]

\* Arming an unwinding leaves the session well formed, watching the lines of what it forces out.
LEMMA UnwindArmIs ==
    ASSUME NEW s, Kept(s), NEW t \in Threads, Idle(s, t), NEW stk \in Seq(Frames),
           NEW i \in 1..(Len(stk) - 1)
    PROVE  LET r == UnwindArm(s, t, stk, i) IN
           /\ Kept(r) /\ r.disabled = {} /\ ArmedUnwind(stk, i) \in UnwindStates
           /\ Becomes(s, r, t, s.step[t], s.restart[t], ArmedUnwind(stk, i),
                      WatchingLines(CodesFrom(stk, i)))
<1> DEFINE codes == CodesFrom(stk, i)
           above == Reverse(SubSeq(stk, i + 1, Len(stk)))
           ids   == [j \in 1..Len(above) |-> above[j].id]
           un    == ArmedUnwind(stk, i)
           in0   == WatchingLines({})
           in    == WatchingLines(codes)
           off   == [s EXCEPT !.unwind = [s.unwind EXCEPT ![t] = un],
                              !.interest = [s.interest EXCEPT ![t] = in]]
<1>1. s \in Sessions /\ One(s, t)
  BY DEF Kept
<1>2. /\ i \in Nat \ {0} /\ Len(stk) \in Nat \ {0} /\ i < Len(stk)
      /\ \A j \in 1..Len(stk) : stk[j] \in Frames /\ stk[j].id \in Nat /\ stk[j].code \in Codes
  <2>1. Len(stk) \in Nat /\ \A j \in 1..Len(stk) : stk[j] \in Frames
    OBVIOUS
  <2>2. i \in Nat \ {0} /\ i < Len(stk)
    BY <2>1
  <2>3. \A f \in Frames : f.id \in Nat /\ f.code \in Codes
    BY DEF Frames
  <2>4. QED
    BY <2>1, <2>2, <2>3
<1>3. Len(above) = Len(stk) - i /\ \A k \in 1..(Len(stk) - i) : above[k] = stk[Len(stk) + 1 - k]
  <2>1. /\ Len(SubSeq(stk, i + 1, Len(stk))) = Len(stk) - i
        /\ \A m \in 1..(Len(stk) - i) : SubSeq(stk, i + 1, Len(stk))[m] = stk[i + m]
    BY <1>2
  <2>2. \A k \in 1..(Len(stk) - i) : /\ (Len(stk) - i) - k + 1 \in 1..(Len(stk) - i)
                                     /\ i + ((Len(stk) - i) - k + 1) = Len(stk) + 1 - k
    BY <1>2
  <2> DEFINE sub == SubSeq(stk, i + 1, Len(stk))
             n   == Len(stk) - i
  <2>3. above = [k \in 1..Len(sub) |-> sub[(Len(sub) - k) + 1]] /\ Len(sub) = n /\ n \in Nat
    BY <1>2, <2>1 DEF Reverse
  <2> HIDE DEF sub, above
  <2>4. Len(above) = n /\ \A k \in 1..n : above[k] = sub[(n - k) + 1]
    BY <2>3
  <2>5. QED
    BY <2>1, <2>2, <2>4 DEF sub
<1>4. ids = [k \in 1..(Len(stk) - i) |-> stk[Len(stk) + 1 - k].id]
  <2> HIDE DEF above
  <2>1. QED
    BY <1>3
<1>5. un \in UnwindStates
  <2>1. \A k \in 1..(Len(stk) - i) : stk[Len(stk) + 1 - k].id \in Nat
    BY <1>2
  <2>2. [k \in 1..(Len(stk) - i) |-> stk[Len(stk) + 1 - k].id] \in Seq(Nat)
    BY <1>2, <2>1
  <2>3. codes \in SUBSET Codes /\ stk[i].id \in Nat
    BY <1>2 DEF CodesFrom
  <2>4. QED
    BY <2>2, <2>3 DEF ArmedUnwind, UnwindStates
<1>6. /\ in0 \in Interests /\ in \in Interests /\ in.held /\ in0.held = in.held /\ in0.entering = in.entering
      /\ in.watching = [c \in Codes |-> IF c \in codes THEN {"line"} ELSE {}]
      /\ \A x \in Codes : x \notin codes => in.watching[x] = {}
  <2>1. in0.held = in.held /\ in0.entering = in.entering
        /\ in.watching = [c \in Codes |-> IF c \in codes THEN {"line"} ELSE {}]
    BY DEF WatchingLines
  <2>2. QED
    BY <2>1, WatchingLinesIs
<1>7. UnwindArm(s, t, stk, i) = RefreshEvents(RestartLocations(RefreshCodes(
          [HoldInterest(s, t, FALSE) EXCEPT !.unwind[t] = un, !.interest[t].watching = in.watching],
          codes)))
  <2>1. [on |-> TRUE, target |-> stk[i].id, watching |-> codes, above |-> ids] = un
    BY <1>4 DEF ArmedUnwind
  <2>2. in.watching = [c \in Codes |-> IF c \in codes THEN {"line"} ELSE {}]
    BY <1>6
  <2> HIDE DEF un, in
  <2>3. QED
    BY <2>1, <2>2, IdleIs, Zenon DEF UnwindArm, CodesFrom
<1> HIDE DEF codes, above, ids, un, in0, in
<1>8. [HoldInterest(s, t, FALSE) EXCEPT !.unwind[t] = un, !.interest[t].watching = in.watching] = off
  <2> DEFINE held == HoldInterest(s, t, FALSE)
  <2>1. held = [s EXCEPT !.interest = [s.interest EXCEPT ![t] = in0]]
    BY <1>1, HoldInterestIs DEF in0
  <2> HIDE DEF held
  <2>2. held \in Sessions /\ held.unwind = s.unwind /\ held.interest = [s.interest EXCEPT ![t] = in0]
    BY <1>1, <1>6, <2>1 DEF Sessions
  <2>3. [in0 EXCEPT !.watching = in.watching] = in
    BY <1>6 DEF Interests
  <2>4. [held.interest EXCEPT ![t].watching = in.watching] = [s.interest EXCEPT ![t] = in]
    BY <1>1, <2>2, <2>3 DEF Sessions
  <2>5. [held EXCEPT !.unwind[t] = un, !.interest[t].watching = in.watching]
        = [held EXCEPT !.unwind = [held.unwind EXCEPT ![t] = un],
                       !.interest = [held.interest EXCEPT ![t].watching = in.watching]]
    BY <2>2 DEF Sessions
  <2>6. [held EXCEPT !.unwind = [s.unwind EXCEPT ![t] = un], !.interest = [s.interest EXCEPT ![t] = in]] = off
    BY <1>1, <2>1 DEF Sessions
  <2>7. QED
    BY <2>2, <2>4, <2>5, <2>6 DEF held
<1>9. off \in Sessions /\ Becomes(s, off, t, s.step[t], s.restart[t], un, in) /\ off.local = s.local
  BY <1>1, <1>5, <1>6 DEF Sessions, Becomes
<1> HIDE DEF off
<1>10. off.step[t] = s.step[t] /\ off.restart[t] = s.restart[t] /\ off.unwind[t] = un /\ off.interest[t] = in
  BY <1>1, <1>9, BecomesAt
<1>11. un.on /\ un.watching = codes
  BY DEF un, ArmedUnwind, codes
<1>12. One(off, t)
  BY <1>1, <1>6, <1>10, <1>11 DEF One, Idle
<1>13. Tidy(off, t)
  BY <1>6, <1>10, <1>11 DEF Tidy, Idle
<1>14. LET r == RefreshEvents(RestartLocations(RefreshCodes(off, codes))) IN
       Kept(r) /\ Becomes(s, r, t, s.step[t], s.restart[t], un, in) /\ r.disabled = {}
  BY <1>6, <1>9, <1>12, <1>13, ArmIs
<1>15. QED
  BY <1>5, <1>7, <1>8, <1>14 DEF codes, un, in

\* Telling the interpreter of no code changes nothing.
LEMMA RefreshNothing ==
    ASSUME NEW s \in Sessions PROVE RefreshCodes(s, {}) = s
<1>1. RefreshCodes(s, {}) = [s EXCEPT !.local = [c \in Codes |-> s.local[c]]]
  BY DEF RefreshCodes
<1>2. [c \in Codes |-> s.local[c]] = s.local
  BY DEF Sessions
<1>3. QED
  BY <1>1, <1>2 DEF Sessions

\* A restart whose caller was moved back waits for the entry of its code.
LEMMA RewoundIs ==
    ASSUME NEW s, Kept(s), NEW t \in Threads, s.restart[t].on, s.restart[t].code \in Codes
    PROVE  LET r == Rewound(s, t) IN
           /\ Kept(r) /\ r.disabled = s.disabled
           /\ Becomes(s, r, t, s.step[t], r.restart[t], s.unwind[t], r.interest[t])
           /\ r.restart[t].on /\ r.restart[t].code = s.restart[t].code
           /\ r.restart[t].phase = "entering" /\ "line" \in r.interest[t].watching[s.restart[t].code]
<1> DEFINE c   == s.restart[t].code
           rs  == [s.restart[t] EXCEPT !.phase = "entering", !.watching = @ \cup {c}]
           in  == [s.interest[t] EXCEPT !.entering = TRUE, !.watching[c] = {"line"}]
           off == [s EXCEPT !.restart = [s.restart EXCEPT ![t] = rs],
                            !.interest = [s.interest EXCEPT ![t] = in]]
           r   == Rewound(s, t)
<1>1. /\ s \in Sessions /\ One(s, t) /\ Tidy(s, t) /\ s.restart[t] \in RestartStates
      /\ s.interest[t] \in Interests
  BY DEF Kept, Sessions
<1>2. /\ rs \in RestartStates /\ rs.on /\ rs.code = c /\ rs.phase = "entering"
      /\ rs.watching = s.restart[t].watching \cup {c}
  BY <1>1 DEF RestartStates
<1>3. /\ in \in Interests /\ in.held = s.interest[t].held /\ in.watching[c] = {"line"}
      /\ \A x \in Codes : x # c => in.watching[x] = s.interest[t].watching[x]
  <2>1. {"line"} \in SUBSET Events
    BY DEF Events
  <2>2. QED
    BY <1>1, <2>1 DEF Interests
<1>4. r = RefreshEvents(RefreshCodes(off, {c}))
  <2> DEFINE a == [s EXCEPT !.restart[t].phase = "entering", !.interest[t].entering = TRUE]
  <2>1. a = [s EXCEPT !.restart = [s.restart EXCEPT ![t].phase = "entering"],
                      !.interest = [s.interest EXCEPT ![t].entering = TRUE]]
    BY <1>1 DEF Sessions
  <2> DEFINE x == [s.restart[t] EXCEPT !.phase = "entering"]
             y == [s.interest[t] EXCEPT !.entering = TRUE]
  <2>2. x \in RestartStates /\ y \in Interests
    BY <1>1 DEF RestartStates, Interests
  <2>3. rs = [x EXCEPT !.watching = @ \cup {c}]
    BY <1>1 DEF RestartStates
  <2>4. in = [y EXCEPT !.watching[c] = {"line"}]
    BY <1>1 DEF Interests
  <2>5. [s.restart EXCEPT ![t].phase = "entering"] = [s.restart EXCEPT ![t] = x]
        /\ [s.interest EXCEPT ![t].entering = TRUE] = [s.interest EXCEPT ![t] = y]
    BY <1>1 DEF Sessions
  <2> HIDE DEF a, x, y, rs, in, c
  <2>6. a \in Sessions /\ a.restart = [s.restart EXCEPT ![t] = x] /\ a.interest = [s.interest EXCEPT ![t] = y]
    BY <1>1, <2>1, <2>2, <2>5 DEF Sessions
  <2>7. [a.restart EXCEPT ![t].watching = @ \cup {c}] = [s.restart EXCEPT ![t] = rs]
    BY <1>1, <2>3, <2>6 DEF Sessions
  <2>8. [a.interest EXCEPT ![t].watching[c] = {"line"}] = [s.interest EXCEPT ![t] = in]
    BY <1>1, <2>4, <2>6 DEF Sessions
  <2>9. [[a EXCEPT !.restart[t].watching = @ \cup {c}] EXCEPT !.interest[t].watching[c] = {"line"}]
        = [a EXCEPT !.restart = [a.restart EXCEPT ![t].watching = @ \cup {c}],
                    !.interest = [a.interest EXCEPT ![t].watching[c] = {"line"}]]
    BY <2>6 DEF Sessions
  <2>10. [a EXCEPT !.restart = [s.restart EXCEPT ![t] = rs], !.interest = [s.interest EXCEPT ![t] = in]] = off
    BY <1>1, <2>1 DEF Sessions
  <2>11. RestartWatch(a, t, c) = RefreshCodes(off, {c})
    BY <2>7, <2>8, <2>9, <2>10 DEF RestartWatch, Watch
  <2>12. QED
    BY <2>11 DEF Rewound, a, c
<1> HIDE DEF rs, in, off, c, r
<1>5. off \in Sessions /\ Becomes(s, off, t, s.step[t], rs, s.unwind[t], in) /\ off.local = s.local
      /\ off.disabled = s.disabled
  BY <1>1, <1>2, <1>3 DEF Sessions, Becomes, off
<1>6. off.step[t] = s.step[t] /\ off.restart[t] = rs /\ off.unwind[t] = s.unwind[t] /\ off.interest[t] = in
  BY <1>1, <1>5, BecomesAt
<1>7. One(off, t)
  BY <1>1, <1>2, <1>3, <1>6 DEF One
<1>8. Tidy(off, t)
  BY <1>1, <1>2, <1>3, <1>6 DEF Tidy, One
<1> DEFINE codes == {c}
<1>9. \A x \in Codes : x \notin codes => in.watching[x] = s.interest[t].watching[x]
  BY <1>3
<1> HIDE DEF codes
<1>10. LET q == RefreshEvents(RefreshCodes(off, codes)) IN
       Kept(q) /\ Becomes(s, q, t, s.step[t], rs, s.unwind[t], in) /\ q.disabled = off.disabled
  BY <1>5, <1>7, <1>8, <1>9, Republished
<1>11. Kept(r) /\ Becomes(s, r, t, s.step[t], rs, s.unwind[t], in) /\ r.disabled = s.disabled
  BY <1>4, <1>5, <1>10 DEF codes
<1>12. r.restart[t] = rs /\ r.interest[t] = in
  BY <1>1, <1>11, BecomesAt
<1>13. QED
  BY <1>2, <1>3, <1>11, <1>12 DEF r, c

EntersAgain(stk, rs) ==
    /\ rs.on /\ rs.phase = "entering" /\ Top(stk).code = rs.code
    /\ Len(stk) > 1 /\ Caller(stk).id = rs.caller

\* A restart hears of the entry of its code from its caller, and of no other.
LEMMA RestartEnteredIs ==
    ASSUME NEW s, Kept(s), NEW t \in Threads, NEW stk \in Seq(Frames), stk # <<>>
    PROVE  LET r  == RestartEntered(s, t, stk)
               rs == s.restart[t]
           IN  \/ ~EntersAgain(stk, rs) /\ r = s
               \/ /\ EntersAgain(stk, rs) /\ Kept(r) /\ r.disabled = s.disabled
                  /\ Becomes(s, r, t, s.step[t], r.restart[t], s.unwind[t], r.interest[t])
                  /\ r.restart[t].on /\ r.restart[t].code = rs.code /\ r.restart[t].phase = "landing"
                  /\ r.restart[t].caller = rs.caller /\ r.restart[t].frame = Top(stk).id
                  /\ r.interest[t].watching = s.interest[t].watching
<1> DEFINE rs  == [s.restart[t] EXCEPT !.phase = "landing", !.frame = Top(stk).id]
           in  == [s.interest[t] EXCEPT !.entering = FALSE]
           off == [s EXCEPT !.restart = [s.restart EXCEPT ![t] = rs],
                            !.interest = [s.interest EXCEPT ![t] = in]]
           r   == RestartEntered(s, t, stk)
<1>1. /\ s \in Sessions /\ One(s, t) /\ Tidy(s, t) /\ s.restart[t] \in RestartStates
      /\ s.interest[t] \in Interests
  BY DEF Kept, Sessions
<1>2. CASE ~EntersAgain(stk, s.restart[t])
  BY <1>2 DEF RestartEntered, EntersAgain
<1>3. CASE EntersAgain(stk, s.restart[t])
  <2>1. Top(stk).id \in Nat
    BY TopIs DEF Frames
  <2>2. /\ rs \in RestartStates /\ rs.on /\ rs.code = s.restart[t].code /\ rs.phase = "landing"
        /\ rs.watching = s.restart[t].watching /\ rs.caller = s.restart[t].caller /\ rs.frame = Top(stk).id
    BY <1>1, <1>3, <2>1 DEF RestartStates, EntersAgain
  <2>3. in \in Interests /\ in.held = s.interest[t].held /\ in.watching = s.interest[t].watching
    BY <1>1 DEF Interests
  <2>4. r = RefreshEvents(off)
    <3> DEFINE a == [s EXCEPT !.interest[t].entering = FALSE, !.restart[t].phase = "landing",
                              !.restart[t].frame = Top(stk).id]
    <3>1. a = off
      BY <1>1 DEF Sessions
    <3>2. r = RefreshEvents(a)
      BY <1>3 DEF RestartEntered, EntersAgain
    <3>3. QED
      BY <3>1, <3>2
  <2> HIDE DEF rs, in, off, r
  <2>5. off \in Sessions /\ Becomes(s, off, t, s.step[t], rs, s.unwind[t], in) /\ off.local = s.local
        /\ off.disabled = s.disabled
    BY <1>1, <2>2, <2>3 DEF Sessions, Becomes, off
  <2>6. off.step[t] = s.step[t] /\ off.restart[t] = rs /\ off.unwind[t] = s.unwind[t] /\ off.interest[t] = in
    BY <1>1, <2>5, BecomesAt
  <2>o. s.restart[t].on
    BY <1>3 DEF EntersAgain
  <2>7. One(off, t)
    BY <1>1, <2>o, <2>2, <2>3, <2>6 DEF One
  <2>8. Tidy(off, t)
    BY <1>1, <2>o, <2>2, <2>3, <2>6 DEF Tidy, One
  <2> DEFINE codes == {}
  <2>9. \A x \in Codes : x \notin codes => in.watching[x] = s.interest[t].watching[x]
    BY <2>3
  <2>10. RefreshCodes(off, codes) = off
    BY <2>5, RefreshNothing
  <2> HIDE DEF codes
  <2>11. LET q == RefreshEvents(RefreshCodes(off, codes)) IN
         Kept(q) /\ Becomes(s, q, t, s.step[t], rs, s.unwind[t], in) /\ q.disabled = off.disabled
    BY <2>5, <2>7, <2>8, <2>9, Republished
  <2>12. Kept(r) /\ Becomes(s, r, t, s.step[t], rs, s.unwind[t], in) /\ r.disabled = s.disabled
    BY <2>4, <2>5, <2>10, <2>11
  <2>13. r.restart[t] = rs /\ r.interest[t] = in
    BY <1>1, <2>12, BecomesAt
  <2>14. QED
    BY <1>3, <2>2, <2>3, <2>12, <2>13 DEF r
<1>4. QED
  BY <1>2, <1>3

\* The unwinding un has the frame id, which it has once, and all above it out.
Once(un, id) ==
    /\ \E i \in 1..Len(un.above) : un.above[i] = id
    /\ \A i, j \in 1..Len(un.above) : un.above[i] = un.above[j] => i = j
Forced(un, id, un2) ==
    /\ un2.on /\ un2.target = un.target
    /\ \E gone \in 1..Len(un.above) :
         un.above[gone] = id /\ un2.above = SubSeq(un.above, gone + 1, Len(un.above))

\* An unwinding forgets the frame it forces out, and all above it.
LEMMA ForcedOutIs ==
    ASSUME NEW s, Kept(s), NEW t \in Threads, s.unwind[t].on, NEW id, Once(s.unwind[t], id)
    PROVE  LET r == ForcedOut(s, t, id)
           IN  /\ Kept(r) /\ r.disabled = s.disabled
               /\ Becomes(s, r, t, s.step[t], s.restart[t], r.unwind[t], s.interest[t])
               /\ Forced(s.unwind[t], id, r.unwind[t])
<1>. PICK gone \in 1..Len(s.unwind[t].above) : s.unwind[t].above[gone] = id
  BY DEF Once
<1> DEFINE above == s.unwind[t].above
           un    == [s.unwind[t] EXCEPT !.above = SubSeq(above, gone + 1, Len(above))]
           r     == [s EXCEPT !.unwind = [s.unwind EXCEPT ![t] = un]]
<1>1. /\ s \in Sessions /\ LocalMasked(s) /\ GlobalMasked(s) /\ One(s, t) /\ Tidy(s, t)
      /\ s.unwind[t] \in UnwindStates
  BY DEF Kept, Sessions
<1>2. above \in Seq(Nat) /\ Len(above) \in Nat /\ gone \in Nat /\ gone <= Len(above)
  BY <1>1 DEF UnwindStates
<1>3. (CHOOSE i \in 1..Len(above) : above[i] = id) = gone
  BY DEF Once
<1>4. SubSeq(above, gone + 1, Len(above)) \in Seq(Nat)
  <2>1. gone + 1 \in 1..(Len(above) + 1) /\ Len(above) \in (gone + 1 - 1)..Len(above)
    BY <1>2
  <2> HIDE DEF above
  <2>2. QED
    BY <1>2, <2>1, SubSeqProperties
<1>5. /\ un \in UnwindStates /\ un.on /\ un.target = s.unwind[t].target
      /\ un.watching = s.unwind[t].watching /\ un.above = SubSeq(above, gone + 1, Len(above))
  BY <1>1, <1>4 DEF UnwindStates
<1>6. ForcedOut(s, t, id) = r
  <2>1. ForcedOut(s, t, id) = [s EXCEPT !.unwind[t].above = SubSeq(above, gone + 1, Len(above))]
    BY <1>3, Zenon DEF ForcedOut
  <2>2. QED
    BY <1>1, <2>1 DEF Sessions
<1> HIDE DEF un
<1>7. /\ r \in Sessions /\ r.disabled = s.disabled /\ r.local = s.local /\ r.global = s.global
      /\ r.interest = s.interest /\ r.pausing = s.pausing
      /\ Becomes(s, r, t, s.step[t], s.restart[t], un, s.interest[t])
  BY <1>1, <1>5 DEF Sessions, Becomes
<1> HIDE DEF r
<1>8. \A c \in Codes : LocalWanted(r, c) = LocalWanted(s, c)
  BY <1>7, WantedAlike
<1>9. LocalMasked(r) /\ GlobalMasked(r)
  BY <1>1, <1>7, <1>8, GlobalAlike DEF LocalMasked, GlobalMasked
<1>10. r.step[t] = s.step[t] /\ r.restart[t] = s.restart[t] /\ r.unwind[t] = un /\ r.interest[t] = s.interest[t]
  BY <1>1, <1>7, BecomesAt
<1>11. One(r, t) /\ Tidy(r, t)
  BY <1>1, <1>5, <1>10 DEF One, Tidy
<1>12. Kept(r)
  BY <1>1, <1>7, <1>9, <1>11, BecomesKept
<1>13. Forced(s.unwind[t], id, un)
  BY <1>5 DEF Forced
<1>14. QED
  BY <1>6, <1>7, <1>10, <1>12, <1>13

\* Whatever is armed is taken off.
LEMMA LeftArmedHereIs ==
    ASSUME NEW s, Kept(s), NEW t \in Threads
    PROVE  LET r == LeftArmedHere(s, t) IN
           /\ Kept(r) /\ r.disabled = s.disabled
           /\ Becomes(s, r, t, NoStep, NoRestart, NoUnwind, NoInterest)
<1>1. s \in Sessions /\ One(s, t)
  BY DEF Kept
<1>0. ~NoStep.on /\ ~NoRestart.on /\ ~NoUnwind.on
  BY DEF NoStep, NoRestart, NoUnwind
<1>2. CASE s.step[t].on
  <2> DEFINE r == StepRelease(s, t)
  <2>1. /\ Kept(r) /\ Becomes(s, r, t, NoStep, s.restart[t], s.unwind[t], NoInterest)
        /\ r.disabled = s.disabled
    BY <1>2, StepReleaseIs
  <2>2. s.restart[t] = NoRestart /\ s.unwind[t] = NoUnwind
    BY <1>1, <1>2 DEF One
  <2> HIDE DEF r
  <2>3. r.restart[t] = NoRestart /\ r.unwind[t] = NoUnwind
    BY <1>1, <2>1, <2>2, BecomesAt
  <2>4. LeftArmedHere(s, t) = r
    BY <1>0, <1>2, <2>3 DEF LeftArmedHere, StepCancel, RestartCancel, UnwindCancel, r
  <2>5. QED
    BY <2>1, <2>2, <2>4
<1>3. CASE s.restart[t].on
  <2> DEFINE r == RestartRelease(s, t)
  <2>1. /\ Kept(r) /\ Becomes(s, r, t, s.step[t], NoRestart, s.unwind[t], NoInterest)
        /\ r.disabled = s.disabled
    BY <1>3, RestartReleaseIs
  <2>2. s.step[t] = NoStep /\ s.unwind[t] = NoUnwind
    BY <1>1, <1>3 DEF One
  <2> HIDE DEF r
  <2>3. r.unwind[t] = NoUnwind
    BY <1>1, <2>1, <2>2, BecomesAt
  <2>4. LeftArmedHere(s, t) = r
    BY <1>0, <1>3, <2>2, <2>3 DEF LeftArmedHere, StepCancel, RestartCancel, UnwindCancel, r
  <2>5. QED
    BY <2>1, <2>2, <2>4
<1>4. CASE s.unwind[t].on
  <2> DEFINE r == UnwindRelease(s, t)
  <2>1. /\ Kept(r) /\ Becomes(s, r, t, s.step[t], s.restart[t], NoUnwind, NoInterest)
        /\ r.disabled = s.disabled
    BY <1>4, UnwindReleaseIs
  <2>2. s.step[t] = NoStep /\ s.restart[t] = NoRestart
    BY <1>1, <1>4 DEF One
  <2>4. LeftArmedHere(s, t) = r
    BY <1>0, <1>4, <2>2 DEF LeftArmedHere, StepCancel, RestartCancel, UnwindCancel
  <2>5. QED
    BY <2>1, <2>2, <2>4
<1>5. CASE Idle(s, t)
  <2>1. /\ s.step[t] = NoStep /\ s.restart[t] = NoRestart /\ s.unwind[t] = NoUnwind
        /\ s.interest[t] = NoInterest
        /\ LeftArmedHere(s, t) = s
    BY <1>5, IdleIs DEF LeftArmedHere
  <2>2. Becomes(s, s, t, NoStep, NoRestart, NoUnwind, NoInterest)
    BY <1>1, <2>1 DEF Becomes, Sessions
  <2>3. QED
    BY <2>1, <2>2
<1>6. QED
  BY <1>2, <1>3, <1>4, <1>5 DEF Idle

\* Asking for a pause, or taking it back, changes the global mask alone.
LEMMA PausingIs ==
    ASSUME NEW s, Kept(s), NEW b \in BOOLEAN
    PROVE  LET r == RefreshEvents([s EXCEPT !.pausing = b]) IN
           /\ Kept(r) /\ r.step = s.step /\ r.restart = s.restart /\ r.unwind = s.unwind
           /\ r.interest = s.interest /\ r.disabled = s.disabled
<1> DEFINE off == [s EXCEPT !.pausing = b]
           r   == RefreshEvents(off)
<1>1. s \in Sessions /\ LocalMasked(s) /\ \A t \in Threads : One(s, t) /\ Tidy(s, t)
  BY DEF Kept
<1>2. /\ off \in Sessions /\ off.step = s.step /\ off.restart = s.restart /\ off.unwind = s.unwind
      /\ off.interest = s.interest /\ off.disabled = s.disabled /\ off.local = s.local
  BY <1>1 DEF Sessions
<1> HIDE DEF off
<1>3. \A c \in Codes : LocalWanted(off, c) = LocalWanted(s, c)
  BY <1>2, WantedAlike
<1>4. LocalMasked(off)
  BY <1>1, <1>2, <1>3 DEF LocalMasked
<1>5. r \in Sessions /\ SameBut(off, r) /\ LocalMasked(r) /\ GlobalMasked(r)
  BY <1>2, <1>4, EventsTold
<1> HIDE DEF r
<1>6. /\ r.step = s.step /\ r.restart = s.restart /\ r.unwind = s.unwind
      /\ r.interest = s.interest /\ r.disabled = s.disabled
  BY <1>2, <1>5 DEF SameBut
<1>7. \A t \in Threads : One(r, t) /\ Tidy(r, t)
  BY <1>1, <1>6 DEF One, Tidy
<1>8. Kept(r)
  BY <1>5, <1>7 DEF Kept
<1>9. QED
  BY <1>6, <1>8 DEF r, off

\* So does telling the interpreter again.
LEMMA RefreshedIs ==
    ASSUME NEW s, Kept(s)
    PROVE  LET r == RefreshEvents(s) IN
           /\ Kept(r) /\ r.step = s.step /\ r.restart = s.restart /\ r.unwind = s.unwind
           /\ r.interest = s.interest /\ r.disabled = s.disabled
<1>1. s \in Sessions /\ s.pausing \in BOOLEAN /\ [s EXCEPT !.pausing = s.pausing] = s
  BY DEF Kept, Sessions
<1>2. QED
  BY <1>1, PausingIs

\* A location is not offered any more.
LEMMA ForgottenIs ==
    ASSUME NEW s, Kept(s), NEW where \in Locations
    PROVE  LET r == [s EXCEPT !.disabled = @ \cup {where}] IN
           /\ Kept(r) /\ r.step = s.step /\ r.restart = s.restart /\ r.unwind = s.unwind
           /\ r.interest = s.interest /\ r.disabled = s.disabled \cup {where}
<1> DEFINE r == [s EXCEPT !.disabled = @ \cup {where}]
<1>1. s \in Sessions /\ LocalMasked(s) /\ GlobalMasked(s) /\ \A t \in Threads : One(s, t) /\ Tidy(s, t)
  BY DEF Kept
<1>2. /\ r \in Sessions /\ r.step = s.step /\ r.restart = s.restart /\ r.unwind = s.unwind
      /\ r.interest = s.interest /\ r.disabled = s.disabled \cup {where} /\ r.local = s.local
      /\ r.global = s.global /\ r.pausing = s.pausing
  BY <1>1 DEF Sessions
<1> HIDE DEF r
<1>3. \A c \in Codes : LocalWanted(r, c) = LocalWanted(s, c)
  BY <1>2, WantedAlike
<1>4. LocalMasked(r) /\ GlobalMasked(r)
  BY <1>1, <1>2, <1>3, GlobalAlike DEF LocalMasked, GlobalMasked
<1>5. \A t \in Threads : One(r, t) /\ Tidy(r, t)
  BY <1>1, <1>2 DEF One, Tidy
<1>6. QED
  BY <1>2, <1>4, <1>5 DEF Kept, r

-----------------------------------------------------------------------------
(***************************************************************************)
(* Stacks.                                                                 *)
(***************************************************************************)
\* The frames of a stack are the ones at its positions.
LEMMA IdsAre ==
    ASSUME NEW stk \in Seq(Frames), NEW x
    PROVE  x \in IdsOf(stk) <=> \E i \in 1..Len(stk) : stk[i].id = x
BY DEF IdsOf

\* The stack without its innermost frame.
LEMMA FrontIs ==
    ASSUME NEW stk \in Seq(Frames), stk # <<>>
    PROVE  /\ Front(stk) \in Seq(Frames) /\ Len(Front(stk)) = Len(stk) - 1
           /\ \A i \in 1..(Len(stk) - 1) : Front(stk)[i] = stk[i]
           /\ Front(stk) = <<>> <=> Len(stk) = 1
           /\ \A x : x \in IdsOf(Front(stk)) <=> \E i \in 1..(Len(stk) - 1) : stk[i].id = x
<1>1. Len(stk) \in Nat \ {0} /\ \A i \in 1..Len(stk) : stk[i] \in Frames
  OBVIOUS
<1>2. /\ Front(stk) \in Seq(Frames) /\ Len(Front(stk)) = Len(stk) - 1
      /\ \A i \in 1..(Len(stk) - 1) : Front(stk)[i] = stk[i]
  <2> DEFINE n == Len(stk) - 1
  <2>1. Front(stk) = SubSeq(stk, 1, n)
    BY DEF Front
  <2>2. n \in Nat /\ n \in Int /\ 1 \in Int /\ \A i \in 1..n : stk[i] \in Frames
    BY <1>1
  <2> HIDE DEF n
  <2>3. /\ SubSeq(stk, 1, n) \in Seq(Frames) /\ Len(SubSeq(stk, 1, n)) = IF 1 <= n THEN n - 1 + 1 ELSE 0
        /\ \A i \in 1..(n - 1 + 1) : SubSeq(stk, 1, n)[i] = stk[1 + i - 1]
    BY <2>2, SubSeqProperties
  <2>4. Len(SubSeq(stk, 1, n)) = n /\ \A i \in 1..n : SubSeq(stk, 1, n)[i] = stk[i]
    BY <2>2, <2>3
  <2>5. QED
    BY <2>1, <2>3, <2>4 DEF n
<1>3. Front(stk) = <<>> <=> Len(stk) = 1
  BY <1>1, <1>2
<1>4. \A x : x \in IdsOf(Front(stk)) <=> \E i \in 1..(Len(stk) - 1) : stk[i].id = x
  BY <1>2 DEF IdsOf
<1>5. QED
  BY <1>2, <1>3, <1>4

\* All but the line and the call of the innermost frame.
Alike(stk, stk2) ==
    /\ Len(stk2) = Len(stk)
    /\ \A i \in 1..Len(stk) : stk2[i].id = stk[i].id /\ stk2[i].code = stk[i].code
    /\ \A i \in 1..(Len(stk) - 1) : stk2[i] = stk[i]

\* Such stacks have the same frames, in the same places.
LEMMA AlikeIs ==
    ASSUME NEW stk \in Seq(Frames), stk # <<>>, NEW stk2 \in Seq(Frames), Alike(stk, stk2)
    PROVE  /\ stk2 # <<>> /\ IdsOf(stk2) = IdsOf(stk) /\ IdsOf(Front(stk2)) = IdsOf(Front(stk))
           /\ Top(stk2).id = Top(stk).id /\ Top(stk2).code = Top(stk).code
           /\ Len(stk) > 1 => Caller(stk2) = Caller(stk)
<1>1. Len(stk) \in Nat \ {0} /\ Len(stk2) = Len(stk) /\ stk2 # <<>>
  BY DEF Alike
<1>2. Top(stk) = stk[Len(stk)] /\ Top(stk2) = stk2[Len(stk)]
  BY <1>1, TopIs
<1>3. Top(stk2).id = Top(stk).id /\ Top(stk2).code = Top(stk).code
  BY <1>1, <1>2 DEF Alike
<1>4. \A x : x \in IdsOf(stk2) <=> x \in IdsOf(stk)
  BY <1>1, IdsAre DEF Alike
<1>5. \A x : x \in IdsOf(Front(stk2)) <=> x \in IdsOf(Front(stk))
  <2>1. \A i \in 1..(Len(stk) - 1) : stk2[i].id = stk[i].id
    BY <1>1 DEF Alike
  <2>2. \A x : x \in IdsOf(Front(stk2)) <=> \E i \in 1..(Len(stk) - 1) : stk2[i].id = x
    BY <1>1, FrontIs
  <2>3. \A x : x \in IdsOf(Front(stk)) <=> \E i \in 1..(Len(stk) - 1) : stk[i].id = x
    BY FrontIs
  <2>4. QED
    BY <2>1, <2>2, <2>3
<1>6. Len(stk) > 1 => Caller(stk2) = Caller(stk)
  BY <1>1 DEF Caller, Alike
<1>7. QED
  BY <1>1, <1>3, <1>4, <1>5, <1>6

\* A line that begins changes a stack in no more than that.
LEMMA BegunIs ==
    ASSUME NEW stk \in Seq(Frames), stk # <<>>, NEW l \in Nat
    PROVE  LET one == [stk EXCEPT ![Len(stk)].line = l]
               two == [stk EXCEPT ![Len(stk)].line = l, ![Len(stk)].call = 0]
           IN  /\ one \in Seq(Frames) /\ two \in Seq(Frames) /\ Alike(stk, one) /\ Alike(stk, two)
               /\ Top(one).line = l /\ Top(two).line = l
<1> DEFINE n  == Len(stk)
           f1 == [stk[n] EXCEPT !.line = l]
           f2 == [f1 EXCEPT !.call = 0]
<1>1. n \in Nat \ {0} /\ stk[n] \in Frames
  OBVIOUS
<1>2. /\ f1 \in Frames /\ f2 \in Frames /\ f1.id = stk[n].id /\ f1.code = stk[n].code /\ f1.line = l
      /\ f2.id = stk[n].id /\ f2.code = stk[n].code /\ f2.line = l
  BY <1>1 DEF Frames
<1> HIDE DEF f1, f2
<1>3. ASSUME NEW f \in Frames, f.id = stk[n].id, f.code = stk[n].code, f.line = l
      PROVE  LET new == [stk EXCEPT ![n] = f] IN
             new \in Seq(Frames) /\ Alike(stk, new) /\ Top(new).line = l
  <2> DEFINE new == [stk EXCEPT ![n] = f]
  <2>1. new \in Seq(Frames) /\ Len(new) = n /\ new[n] = f /\ \A i \in 1..(n - 1) : new[i] = stk[i]
    BY <1>1
  <2> HIDE DEF new
  <2>2. Top(new) = f
    BY <1>1, <2>1, TopIs
  <2>3. \A i \in 1..n : i = n \/ i \in 1..(n - 1)
    BY <1>1
  <2>4. \A i \in 1..n : new[i].id = stk[i].id /\ new[i].code = stk[i].code
    BY <1>1, <1>3, <2>1, <2>3
  <2>5. Alike(stk, new)
    BY <2>1, <2>4 DEF Alike
  <2>6. QED
    BY <1>3, <2>1, <2>2, <2>5 DEF new
<1>4. /\ [stk EXCEPT ![n].line = l] = [stk EXCEPT ![n] = f1]
      /\ [stk EXCEPT ![n].line = l, ![n].call = 0] = [stk EXCEPT ![n] = f2]
  <2>1. [stk EXCEPT ![n].line = l] = [stk EXCEPT ![n] = f1]
    BY DEF f1
  <2>2. [stk EXCEPT ![n].line = l, ![n].call = 0] = [[stk EXCEPT ![n] = f1] EXCEPT ![n].call = 0]
    BY DEF f1
  <2>3. [stk EXCEPT ![n] = f1] \in Seq(Frames) /\ [stk EXCEPT ![n] = f1][n] = f1
    BY <1>1, <1>2
  <2>4. [[stk EXCEPT ![n] = f1] EXCEPT ![n].call = 0] = [stk EXCEPT ![n] = f2]
    BY <1>1, <1>2, <2>3 DEF f2
  <2>5. QED
    BY <2>1, <2>2, <2>4
<1>5. QED
  BY <1>2, <1>3, <1>4

\* A frame is found by its address.
LEMMA FrameOfIs ==
    ASSUME NEW stk \in Seq(Frames), NEW a, Stacked(stk, a), NEW i \in 1..Len(stk)
    PROVE  FrameOf(stk, stk[i].id) = stk[i]
<1>1. \A f \in {stk[j] : j \in 1..Len(stk)} : f.id = stk[i].id => f = stk[i]
  BY DEF Stacked
<1>2. stk[i] \in {stk[j] : j \in 1..Len(stk)}
  OBVIOUS
<1>3. QED
  BY <1>1, <1>2 DEF FrameOf

Pushed(stk, k, f) == Append([stk EXCEPT ![Len(stk)].call = k], f)

\* The innermost frame of stk2 is f, which the one below it called with k.
Extends(stk, k, f, stk2) ==
    /\ stk2 \in Seq(Frames) /\ stk2 # <<>> /\ Len(stk2) = Len(stk) + 1 /\ Len(stk) \in Nat \ {0}
    /\ \A i \in 1..Len(stk) : stk2[i].id = stk[i].id /\ stk2[i].code = stk[i].code
    /\ stk2[Len(stk) + 1] = f /\ Top(stk2) = f /\ Len(stk2) > 1 /\ Caller(stk2) = stk2[Len(stk)]
    /\ Caller(stk2).id = Top(stk).id /\ Caller(stk2).call = k

\* A call extends the stack.
LEMMA PushedIs ==
    ASSUME NEW stk \in Seq(Frames), stk # <<>>, NEW k \in Nat, NEW f \in Frames
    PROVE  Extends(stk, k, f, Pushed(stk, k, f))
<1> DEFINE n    == Len(stk)
           g    == [stk[n] EXCEPT !.call = k]
           here == [stk EXCEPT ![n] = g]
           new  == Append(here, f)
<1>1. n \in Nat \ {0} /\ stk[n] \in Frames
  OBVIOUS
<1>2. g \in Frames /\ g.id = stk[n].id /\ g.code = stk[n].code /\ g.call = k
  BY <1>1 DEF Frames
<1>3. Pushed(stk, k, f) = new
  BY DEF Pushed
<1> HIDE DEF g
<1>4. here \in Seq(Frames) /\ Len(here) = n /\ here[n] = g /\ \A i \in 1..(n - 1) : here[i] = stk[i]
  BY <1>1, <1>2
<1>5. \A i \in 1..n : i = n \/ i \in 1..(n - 1)
  BY <1>1
<1>6. \A i \in 1..n : here[i].id = stk[i].id /\ here[i].code = stk[i].code
  BY <1>2, <1>4, <1>5
<1> HIDE DEF here
<1>7. /\ new \in Seq(Frames) /\ Len(new) = n + 1 /\ new[n + 1] = f
      /\ \A i \in 1..n : new[i] = here[i]
  BY <1>4, AppendProperties
<1> HIDE DEF new
<1>8. new # <<>> /\ Len(new) > 1
  BY <1>1, <1>7
<1>9. Top(new) = f /\ Caller(new) = new[n]
  <2>1. Top(new) = new[Len(new)] /\ Caller(new) = new[Len(new) - 1]
    BY <1>7, <1>8, TopIs DEF Caller
  <2>2. QED
    BY <1>1, <1>7, <2>1
<1>10. new[n] = g /\ Top(stk) = stk[n]
  BY <1>1, <1>4, <1>7, TopIs
<1>11. QED
  <2>1. new \in Seq(Frames) /\ new # <<>> /\ Len(new) = n + 1 /\ n \in Nat \ {0}
    BY <1>1, <1>7, <1>8
  <2>2. \A i \in 1..n : new[i].id = stk[i].id /\ new[i].code = stk[i].code
    BY <1>6, <1>7
  <2>3. new[n + 1] = f /\ Top(new) = f /\ Len(new) > 1 /\ Caller(new) = new[n]
    BY <1>7, <1>8, <1>9
  <2>4. Caller(new).id = Top(stk).id /\ Caller(new).call = k
    BY <1>2, <1>9, <1>10
  <2>5. QED
    BY <1>3, <2>1, <2>2, <2>3, <2>4 DEF Extends

-----------------------------------------------------------------------------
(***************************************************************************)
(* One thread, whatever it does next.                                      *)
(***************************************************************************)
Typed(stk, a, ak, st, rs, un, in) ==
    /\ stk \in Seq(Frames) /\ a \in Places /\ ak \in Asks
    /\ st \in StepStates /\ rs \in RestartStates /\ un \in UnwindStates /\ in \in Interests
    /\ st.on => ~rs.on /\ ~un.on
    /\ rs.on => ~un.on

\* What is not offered matters to a step in alone.
LEMMA OfferedFits ==
    ASSUME NEW stk, NEW a, NEW w, NEW ak, NEW st, NEW rs, NEW un, NEW in, NEW d, NEW d2,
           Fit(stk, a, w, ak, st, rs, un, in, d),
           st.on /\ st.entering => \A c \in Codes : <<c, 0>> \in d2 => <<c, 0>> \in d
    PROVE  Fit(stk, a, w, ak, st, rs, un, in, d2)
<1>1. In(stk, a, ak, st, d)
  BY DEF Fit
<1>2. In(stk, a, ak, st, d2)
  BY <1>1 DEF In, InFrame
<1>3. QED
  BY <1>2 DEF Fit

\* The line of the innermost frame does not matter to what the stack is.
LEMMA AlikeKeeps ==
    ASSUME NEW stk \in Seq(Frames), stk # <<>>, NEW stk2 \in Seq(Frames), Alike(stk, stk2),
           NEW a, NEW a2, NEW ak, Stacked(stk, a), Recalled(stk, a, ak), a2 # "over",
           a = "leaving" => a2 = "leaving"
    PROVE  Stacked(stk2, a2) /\ Recalled(stk2, a2, ak)
<1>1. /\ stk2 # <<>> /\ IdsOf(stk2) = IdsOf(stk) /\ Top(stk2).id = Top(stk).id /\ Len(stk2) = Len(stk)
      /\ \A i \in 1..Len(stk) : stk2[i].id = stk[i].id /\ stk2[i].code = stk[i].code
  BY AlikeIs DEF Alike
<1>2. Stacked(stk2, a2)
  BY <1>1 DEF Stacked
<1>3. Recalled(stk2, a2, ak)
  BY <1>1 DEF Recalled
<1>4. QED
  BY <1>2, <1>3

\* Nothing is armed.
LEMMA IdleFits ==
    ASSUME NEW stk, NEW a, NEW w, NEW ak, NEW st, NEW rs, NEW un, NEW in, NEW d,
           ~st.on, ~rs.on, ~un.on, a \notin {"forced", "tail", "rewound"},
           Stacked(stk, a), Recalled(stk, a, ak), Landed(stk, a, w, ak),
           a \in {"held", "over"} \/ ak.kind = "nothing" \/ ak.leaving
    PROVE  Fit(stk, a, w, ak, st, rs, un, in, d)
<1>1. Stepping(stk, a, ak, st, in)
  BY DEF Stepping
<1>2. In(stk, a, ak, st, d) /\ Over(stk, a, ak, st) /\ Gone(stk, a, ak, st)
  BY DEF In, Over, Gone
<1>3. Restarting(stk, a, rs, un, in) /\ Unwinding(stk, a, un, in)
  BY DEF Restarting, Unwinding
<1>4. Seen(stk, a, ak)
  BY DEF Seen
<1>5. QED
  BY <1>1, <1>2, <1>3, <1>4 DEF Fit

\* The thread is held for something other than a step, and has nothing armed.
LEMMA HeldFits ==
    ASSUME NEW stk, NEW a, NEW w, NEW ak, NEW st, NEW rs, NEW un, NEW in, NEW d, NEW stk2 \in Seq(Frames),
           Typed(stk, a, ak, st, rs, un, in), Fit(stk, a, w, ak, st, rs, un, in, d),
           a \notin {"leaving", "over"}, Alike(stk, stk2), NEW w2, w2 # "stepped", NEW in2, NEW d2
    PROVE  Fit(stk2, "held", w2, ak, NoStep, NoRestart, NoUnwind, in2, d2)
<1>1. stk \in Seq(Frames) /\ stk # <<>> /\ Stacked(stk, a) /\ Recalled(stk, a, ak)
  BY DEF Typed, Fit, Stacked
<1>2. Stacked(stk2, "held") /\ Recalled(stk2, "held", ak)
  BY <1>1, AlikeKeeps
<1>3. ~NoStep.on /\ ~NoRestart.on /\ ~NoUnwind.on /\ Landed(stk2, "held", w2, ak)
  BY DEF NoStep, NoRestart, NoUnwind, Landed
<1>4. QED
  BY <1>2, <1>3, IdleFits

\* The thread is held where its step lands.
LEMMA LandedFits ==
    ASSUME NEW stk, NEW a, NEW w, NEW ak, NEW st, NEW rs, NEW un, NEW in, NEW d, NEW stk2 \in Seq(Frames),
           Typed(stk, a, ak, st, rs, un, in), Fit(stk, a, w, ak, st, rs, un, in, d),
           a \notin {"leaving", "over"}, Alike(stk, stk2), NEW in2, NEW d2,
           NEW event \in {"line", "instruction"}, Lands(stk2, event, st)
    PROVE  Fit(stk2, "held", "stepped", ak, NoStep, NoRestart, NoUnwind, in2, d2)
<1>1. /\ stk \in Seq(Frames) /\ stk # <<>> /\ Stacked(stk, a) /\ Recalled(stk, a, ak) /\ Stepping(stk, a, ak, st, in)
      /\ In(stk, a, ak, st, d) /\ Over(stk, a, ak, st)
  BY DEF Typed, Fit, Stacked
<1>2. Stacked(stk2, "held") /\ Recalled(stk2, "held", ak)
  BY <1>1, AlikeKeeps
<1>3. ~NoStep.on /\ ~NoRestart.on /\ ~NoUnwind.on
  BY DEF NoStep, NoRestart, NoUnwind
<1>4. /\ stk2 # <<>> /\ IdsOf(stk2) = IdsOf(stk) /\ Top(stk2).id = Top(stk).id
      /\ Len(stk2) = Len(stk) /\ (Len(stk) > 1 => Caller(stk2) = Caller(stk)) /\ Len(stk) \in Nat \ {0}
  BY <1>1, AlikeIs DEF Alike
<1>5. /\ st.on /\ st.landing = event /\ Top(stk2).id = st.frame /\ Top(stk2).code \notin Through
      /\ ak.kind = st.kind
  BY <1>1 DEF Lands, Waits, Stepping
<1>6. \A x \in IdsOf(Front(stk2)) : x # Top(stk2).id /\ x \in IdsOf(stk2)
  <2>1. \A x \in IdsOf(Front(stk2)) : \E i \in 1..(Len(stk2) - 1) : stk2[i].id = x
    BY <1>4, FrontIs
  <2>2. Top(stk2) = stk2[Len(stk2)]
    BY <1>4, TopIs
  <2>3. \A i \in 1..(Len(stk2) - 1) : stk2[i].id # stk2[Len(stk2)].id
    BY <1>2, <1>4 DEF Stacked
  <2>4. \A i \in 1..(Len(stk2) - 1) : stk2[i].id \in IdsOf(stk2)
    BY <1>4 DEF IdsOf
  <2>5. QED
    BY <2>1, <2>2, <2>3, <2>4
<1>7. ak.frame \in IdsOf(stk2) => ~ak.leaving
  BY <1>1, <1>4, <1>5 DEF Recalled, Stepping
<1>8. ak.kind = "over" /\ ak.own => ak.frame \notin IdsOf(Front(stk2))
  BY <1>1, <1>4, <1>5, <1>6, <1>7 DEF Over
<1>9. ak.kind = "out" /\ ak.own => ak.frame \notin IdsOf(stk2)
  BY <1>1, <1>4, <1>5, <1>7 DEF Over
<1>10. ASSUME ak.kind = "in", ak.target # 0, ak.frame \in IdsOf(Front(stk2))
       PROVE  FrameOf(stk2, ak.frame).call = ak.target
  <2>1. st.frame # ak.frame
    BY <1>5, <1>6, <1>10
  <2>2. Len(stk) > 1 /\ Caller(stk).id = ak.frame /\ Caller(stk).call = ak.target
    BY <1>1, <1>4, <1>5, <1>6, <1>7, <1>10, <2>1 DEF In, InFrame
  <2>3. Caller(stk2) = stk2[Len(stk2) - 1] /\ Len(stk2) - 1 \in 1..Len(stk2)
    BY <1>4, <2>2 DEF Caller
  <2>4. FrameOf(stk2, stk2[Len(stk2) - 1].id) = stk2[Len(stk2) - 1]
    BY <1>2, <2>3, FrameOfIs
  <2>5. QED
    BY <1>4, <2>2, <2>3, <2>4
<1>11. Landed(stk2, "held", "stepped", ak)
  BY <1>5, <1>8, <1>9, <1>10 DEF Landed
<1>12. QED
  BY <1>2, <1>3, <1>11, IdleFits

\* A frame is one of the stack, or above all of those.
LEMMA FrameAtTop ==
    ASSUME NEW stk \in Seq(Frames), stk # <<>>, NEW a, Stacked(stk, a), NEW x
    PROVE  /\ x \in IdsOf(stk) <=> x \in IdsOf(Front(stk)) \/ x = Top(stk).id
           /\ x = Top(stk).id => x \notin IdsOf(Front(stk))
           /\ \A i \in 1..Len(stk) : stk[i].id = Top(stk).id => i = Len(stk)
<1>1. Len(stk) \in Nat \ {0} /\ Top(stk) = stk[Len(stk)]
  BY TopIs
<1>2. x \in IdsOf(stk) <=> \E i \in 1..Len(stk) : stk[i].id = x
  BY IdsAre
<1>3. x \in IdsOf(Front(stk)) <=> \E i \in 1..(Len(stk) - 1) : stk[i].id = x
  BY FrontIs
<1>4. \A i \in 1..Len(stk) : i = Len(stk) \/ i \in 1..(Len(stk) - 1)
  BY <1>1
<1>5. \A i \in 1..Len(stk) : stk[i].id = Top(stk).id => i = Len(stk)
  BY <1>1 DEF Stacked
<1>6. QED
  BY <1>1, <1>2, <1>3, <1>4, <1>5

\* An event of the innermost frame is not where a step lands.
LEMMA PassedFits ==
    ASSUME NEW stk, NEW a, NEW w, NEW ak, NEW st, NEW rs, NEW un, NEW in, NEW d,
           NEW stk2 \in Seq(Frames), NEW a2, NEW st2, NEW in2, NEW event \in {"line", "instruction"},
           Typed(stk, a, ak, st, rs, un, in), Fit(stk, a, w, ak, st, rs, un, in, d),
           Alike(stk, stk2), a \notin {"leaving", "over", "held"},
           \/ event = "line" /\ a2 = "line" /\ a # "returned" /\ Top(stk2).line # 0
           \/ event = "instruction" /\ a2 = "past" /\ a = "returned",
           ~un.on, rs.on => rs.phase = "entering",
           ReachStep(stk2, event, st, in, st2, in2), ~Lands(stk2, event, st)
    PROVE  Fit(stk2, a2, w, ak, st2, rs, un, in2, d)
<1>1. /\ stk \in Seq(Frames) /\ stk # <<>> /\ Stacked(stk, a) /\ Recalled(stk, a, ak)
      /\ Stepping(stk, a, ak, st, in) /\ In(stk, a, ak, st, d) /\ Over(stk, a, ak, st)
      /\ Gone(stk, a, ak, st) /\ Restarting(stk, a, rs, un, in)
  BY DEF Typed, Fit, Stacked
<1>2. Stacked(stk2, a2) /\ Recalled(stk2, a2, ak)
  BY <1>1, AlikeKeeps
<1>3. /\ stk2 # <<>> /\ IdsOf(stk2) = IdsOf(stk) /\ Top(stk2).id = Top(stk).id
      /\ Top(stk2).code = Top(stk).code
      /\ Len(stk2) = Len(stk) /\ Len(stk) \in Nat \ {0} /\ Top(stk) = stk[Len(stk)]
      /\ \A i \in 1..Len(stk) : stk2[i].id = stk[i].id /\ stk2[i].code = stk[i].code
  BY <1>1, AlikeIs, TopIs DEF Alike
<1>4. a2 \in {"line", "past"} /\ Unwinding(stk2, a2, un, in2) /\ Landed(stk2, a2, w, ak)
  BY DEF Unwinding, Landed
<1>5. \A x \in IdsOf(stk2) : x \notin IdsOf(Front(stk2)) => x = Top(stk2).id
  BY <1>2, <1>3, FrameAtTop
<1>6. \A i \in 1..Len(stk) : stk[i].id = Top(stk).id => i = Len(stk)
  BY <1>1, FrameAtTop
<1>7. CASE Waits(stk2, event, st) /\ Top(stk2).code \in Through
  <2>1. /\ st.on /\ Top(stk).id = st.frame /\ Top(stk).code \in Through /\ st2.on /\ st2.kind = st.kind
        /\ st2.frame = Top(stk).id /\ st2.landing = "notYet" /\ st2.notAgain = 0 /\ st2.target = st.target
        /\ st.kind = "in" => st2.entering
        /\ in2.watching[Top(stk).code] = Landing("notYet")
    BY <1>3, <1>7 DEF ReachStep, Waits, GoesOn, Lands
  <2>2. Stepping(stk2, a2, ak, st2, in2)
    BY <1>1, <1>3, <1>4, <1>6, <2>1 DEF Stepping
  <2>3. ~Caught(stk, a, st)
    BY <2>1 DEF Caught
  <2>4. ak.frame = Top(stk).id => ~ak.own
    BY <1>1, <1>3, <2>1 DEF Recalled, Stepping
  <2>5. In(stk2, a2, ak, st2, d)
    <3>1. SUFFICES ASSUME ak.kind = "in", ak.frame \in IdsOf(stk2), ~ak.leaving
                   PROVE  InFrame(stk2, ak, st2, d)
      BY DEF In
    <3>2. InFrame(stk, ak, st, d)
      BY <1>1, <1>3, <2>1, <2>3, <3>1 DEF In
    <3>3. st.kind = "in"
      BY <1>1, <2>1, <3>1 DEF Stepping
    <3>4. ak.low \in Nat
      BY DEF Typed, Asks
    <3>5. \A i \in (ak.low + 1)..Len(stk) : i \in 1..Len(stk)
      BY <1>3, <3>4
    <3>6. QED
      BY <1>3, <2>1, <2>4, <3>2, <3>3, <3>5 DEF InFrame
  <2>6. Over(stk2, a2, ak, st2)
    BY <1>1, <1>3, <2>1, <2>3, <2>4 DEF Over
  <2>7. Gone(stk2, a2, ak, st2)
    <3>1. SUFFICES ASSUME ak.kind \in {"over", "out"}, ak.frame \notin IdsOf(stk2), ~ak.leaving
                   PROVE  BackIn(stk2, a2, ak, st2)
      BY <2>1 DEF Gone
    <3>2. stk[ak.low].id = st.frame /\ ak.low \in 1..Len(stk)
      BY <1>1, <1>3, <2>1, <2>3, <3>1 DEF Gone, BackIn, Recalled
    <3>3. ak.low = Len(stk)
      BY <1>6, <2>1, <3>2
    <3>4. QED
      BY <1>3, <2>1, <3>3 DEF BackIn
  <2>8. Seen(stk2, a2, ak)
    BY <1>7 DEF Seen
  <2>9. ~rs.on
    BY <2>1 DEF Typed
  <2>10. Restarting(stk2, a2, rs, un, in2)
    BY <1>4, <2>9 DEF Restarting
  <2>11. QED
    BY <1>2, <1>4, <2>2, <2>5, <2>6, <2>7, <2>8, <2>10 DEF Fit
<1>8. CASE ~(Waits(stk2, event, st) /\ Top(stk2).code \in Through)
  <2>1. st2 = st /\ in2 = in
    BY <1>8 DEF ReachStep, StepStays
  <2>2. st.on /\ Top(stk).id = st.frame /\ st.landing = event /\ Top(stk).code \notin Through
          => event = "line" /\ st.notAgain # 0
    BY <1>3 DEF Lands, Waits
  <2>3. ~(st.on /\ Caught(stk, a, st))
    BY <2>2 DEF Caught
  <2>4. Stepping(stk2, a2, ak, st, in)
    BY <1>1, <1>3, <1>4 DEF Stepping
  <2>5. ak.low \in Nat /\ \A i \in (ak.low + 1)..Len(stk) : i \in 1..Len(stk)
    BY <1>3 DEF Typed, Asks
  <2>6. st.on /\ ak.kind = "in" /\ ak.frame \in IdsOf(stk2) /\ ~ak.leaving => InFrame(stk, ak, st, d)
    BY <1>1, <1>3, <2>3 DEF In
  <2>7. In(stk2, a2, ak, st, d)
    BY <1>3, <2>5, <2>6 DEF In, InFrame
  <2>8. st.on /\ ak.kind \in {"over", "out"} /\ ak.frame \in IdsOf(stk2) /\ ~ak.leaving =>
          /\ st.frame = ak.frame
          /\ ak.own => /\ ~st.entering /\ st.notAgain = 0
                       /\ st.landing = IF ak.kind = "out" THEN "notYet" ELSE "line"
    BY <1>1, <1>3, <2>3 DEF Over
  <2>9. Over(stk2, a2, ak, st)
    BY <2>8 DEF Over
  <2>10. st.on /\ ak.kind \in {"over", "out"} /\ ak.frame \notin IdsOf(stk2) /\ ~ak.leaving =>
          /\ st.notAgain = 0 /\ stk[ak.low].id = st.frame /\ stk[ak.low].code \in Through
          /\ ak.low \in 1..Len(stk)
    <3>1. SUFFICES ASSUME st.on, ak.kind \in {"over", "out"}, ak.frame \notin IdsOf(stk2), ~ak.leaving
                   PROVE  /\ st.notAgain = 0 /\ stk[ak.low].id = st.frame /\ stk[ak.low].code \in Through
                          /\ ak.low \in 1..Len(stk)
      OBVIOUS
    <3>2. st.notAgain = 0 /\ BackIn(stk, a, ak, st) /\ ak.low \in 1..Len(stk)
      BY <1>1, <1>3, <2>3, <3>1 DEF Gone, Recalled
    <3>3. stk[ak.low].code \in Through
      BY <1>3, <2>2, <3>1, <3>2 DEF BackIn
    <3>4. QED
      BY <3>2, <3>3 DEF BackIn
  <2>11. Gone(stk2, a2, ak, st)
    BY <1>3, <2>10 DEF Gone, BackIn
  <2>12. Restarting(stk2, a2, rs, un, in)
    BY <1>1, <1>4 DEF Restarting
  <2>13. Seen(stk2, a2, ak)
    <3>1. SUFFICES ASSUME ak.kind # "nothing", ~ak.leaving,
                          ak.kind = "in" \/ ~\E i \in (ak.low + 1)..Len(stk2) : stk2[i - 1].code \in Through,
                          Top(stk2).code \notin Through, a2 = "past" => ak.frame \notin IdsOf(stk2)
                   PROVE  /\ ~(ak.kind = "over" /\ ak.frame \notin IdsOf(Front(stk2)))
                          /\ ~(ak.kind = "out" /\ ak.frame \notin IdsOf(stk2))
                          /\ ~(ak.kind = "in" /\ ak.target = 0 /\ ak.frame \in IdsOf(stk2))
      BY DEF Seen
    <3>2. st.on
      BY <1>1, <1>4, <3>1 DEF Stepping
    <3>3. ak.kind \in {"over", "out"} => ak.frame \in IdsOf(stk2)
      <4>1. SUFFICES ASSUME ak.kind \in {"over", "out"}, ak.frame \notin IdsOf(stk2) PROVE FALSE
        OBVIOUS
      <4>2. ak.low \in 1..Len(stk) /\ stk2[ak.low].code \in Through
        BY <1>3, <2>10, <3>1, <3>2, <4>1
      <4>3. ak.low # Len(stk)
        BY <1>3, <3>1, <4>2
      <4>4. ak.low + 1 \in (ak.low + 1)..Len(stk2) /\ (ak.low + 1) - 1 = ak.low
        BY <1>3, <4>2, <4>3
      <4>5. QED
        BY <3>1, <4>1, <4>2, <4>4
    <3>4. ak.frame = Top(stk2).id => ak.own /\ a2 = "line" /\ event = "line" /\ ak.low = Len(stk)
      <4>1. ak.frame = Top(stk2).id => ak.frame \in IdsOf(stk2)
        BY <1>2, <1>3, FrameAtTop
      <4>2. QED
        BY <1>1, <1>3, <1>4, <3>1, <4>1 DEF Recalled
    <3>5. ~(ak.kind = "over" /\ ak.frame \notin IdsOf(Front(stk2)))
      <4>1. SUFFICES ASSUME ak.kind = "over", ak.frame \notin IdsOf(Front(stk2)) PROVE FALSE
        OBVIOUS
      <4>2. ak.frame = Top(stk2).id
        BY <1>5, <3>3, <4>1
      <4>3. QED
        BY <1>3, <2>2, <2>8, <3>1, <3>2, <3>3, <3>4, <4>1, <4>2
    <3>6. ~(ak.kind = "in" /\ ak.target = 0 /\ ak.frame \in IdsOf(stk2))
      <4>1. SUFFICES ASSUME ak.kind = "in", ak.target = 0, ak.frame \in IdsOf(stk2) PROVE FALSE
        OBVIOUS
      <4>2. InFrame(stk, ak, st, d)
        BY <2>6, <3>1, <3>2, <4>1
      <4>3. PICK i \in 1..Len(stk) : stk[i].id = ak.frame
        BY <1>1, <1>3, <4>1, IdsAre
      <4>4. ak.low = i
        BY <1>1, <3>1, <4>3 DEF Recalled
      <4>5. ak.low = Len(stk)
        <5>1. SUFFICES ASSUME ak.low # Len(stk) PROVE FALSE
          OBVIOUS
        <5>2. Len(stk) \in (ak.low + 1)..Len(stk)
          BY <1>3, <4>3, <4>4, <5>1
        <5>3. QED
          BY <1>3, <3>1, <4>1, <4>2, <5>2 DEF InFrame
      <4>6. ak.frame = Top(stk2).id
        BY <1>3, <4>3, <4>4, <4>5
      <4>7. QED
        BY <1>3, <2>2, <3>1, <3>2, <3>4, <4>2, <4>6 DEF InFrame
    <3>7. QED
      BY <3>3, <3>5, <3>6
  <2>14. QED
    BY <1>2, <1>4, <2>1, <2>4, <2>7, <2>9, <2>11, <2>12, <2>13 DEF Fit
<1>9. QED
  BY <1>7, <1>8

ChosenThrough(stk, ak) ==
    /\ Caller(stk).id = ak.frame /\ Caller(stk).call = ak.target /\ Top(stk).code \in Through
ToldOfCall(stk, ak) ==
    IF ak.kind = "in" /\ ChosenThrough(stk, ak) THEN [ak EXCEPT !.target = 0] ELSE ak

\* A frame is entered.  When its start is not offered no step in hears of it.
LEMMA CallFits ==
    ASSUME NEW stk, NEW a, NEW w, NEW ak, NEW st, NEW rs, NEW un, NEW in, NEW d,
           Typed(stk, a, ak, st, rs, un, in), Fit(stk, a, w, ak, st, rs, un, in, d),
           a \in {"line", "mid", "past", "rewound"}, NEW k \in Nat, NEW f \in Frames,
           f.id \notin IdsOf(stk), f.id # st.frame, f.id # ak.frame,
           NEW stk2, stk2 = Pushed(stk, k, f), NEW st2, NEW in1, NEW rs2, NEW in2,
           \/ EnterStep(stk2, st, in, st2, in1)
           \/ StepStays(st, in, st2, in1) /\ \E c \in Codes : <<c, 0>> \in d,
           \/ rs2 = rs /\ in2 = in1
           \/ /\ EntersAgain(stk2, rs) /\ rs2.on /\ rs2.code = rs.code /\ rs2.phase = "landing"
              /\ rs2.caller = rs.caller /\ rs2.frame = Top(stk2).id /\ in2.watching = in1.watching
    PROVE  Fit(stk2, "started", w, ToldOfCall(stk2, ak), st2, rs2, un, in2, d)
<1> DEFINE n   == Len(stk)
           ak2 == ToldOfCall(stk2, ak)
<1>1. /\ stk \in Seq(Frames) /\ stk # <<>> /\ Stacked(stk, a) /\ Recalled(stk, a, ak)
      /\ Stepping(stk, a, ak, st, in) /\ In(stk, a, ak, st, d) /\ Over(stk, a, ak, st)
      /\ Gone(stk, a, ak, st) /\ Restarting(stk, a, rs, un, in) /\ Unwinding(stk, a, un, in)
  BY DEF Typed, Fit, Stacked
<1>2. /\ stk2 \in Seq(Frames) /\ stk2 # <<>> /\ Len(stk2) = n + 1 /\ n \in Nat \ {0}
      /\ \A i \in 1..n : stk2[i].id = stk[i].id /\ stk2[i].code = stk[i].code
      /\ stk2[n + 1] = f /\ Top(stk2) = f /\ Len(stk2) > 1
      /\ Caller(stk2) = stk2[n] /\ Caller(stk2).id = Top(stk).id /\ Caller(stk2).call = k
      /\ Top(stk) = stk[n]
  <2>1. Extends(stk, k, f, stk2)
    BY <1>1, PushedIs
  <2>2. QED
    BY <1>1, <2>1, TopIs DEF Extends
<1> SUFFICES Fit(stk2, "started", w, ak2, st2, rs2, un, in2, d)
  OBVIOUS
<1> HIDE DEF ak2
<1>3. \A i \in 1..(n + 1) : i \in 1..n \/ i = n + 1
  BY <1>2
<1>4. \A i \in 1..n : stk[i].id # f.id
  BY <1>1, IdsAre
<1>5. Stacked(stk2, "started")
  <2>1. \A i, j \in 1..(n + 1) : stk2[i].id = stk2[j].id => i = j
    BY <1>1, <1>2, <1>3, <1>4 DEF Stacked
  <2>2. QED
    BY <1>2, <2>1 DEF Stacked
<1>6. \A x : x \in IdsOf(stk2) <=> x \in IdsOf(stk) \/ x = f.id
  <2>1. \A x : x \in IdsOf(stk2) <=> \E i \in 1..(n + 1) : stk2[i].id = x
    BY <1>2, IdsAre
  <2>2. \A x : x \in IdsOf(stk) <=> \E i \in 1..n : stk[i].id = x
    BY <1>1, IdsAre
  <2>3. QED
    BY <1>2, <1>3, <2>1, <2>2
<1>7. /\ ak2.kind = ak.kind /\ ak2.frame = ak.frame /\ ak2.own = ak.own /\ ak2.leaving = ak.leaving
      /\ ak2.low = ak.low
      /\ ak2.target = IF ak.kind = "in" /\ ChosenThrough(stk2, ak) THEN 0 ELSE ak.target
  BY DEF Typed, Asks, ToldOfCall, ak2
<1>8. Recalled(stk2, "started", ak2)
  <2>1. SUFFICES ASSUME ak.kind # "nothing"
                 PROVE  /\ ak.low \in 1..(n + 1)
                        /\ \A i \in 1..(n + 1) : stk2[i].id = ak.frame =>
                              ak.low = i /\ (ak.own <=> stk2[i].code \notin Through)
                        /\ ak.leaving => ak.frame \notin IdsOf(stk2)
    BY <1>2, <1>7 DEF Recalled
  <2>2. ak.low \in 1..n
    BY <1>1, <1>2, <2>1 DEF Recalled
  <2>3. ak.leaving => ak.frame \notin IdsOf(stk2)
    BY <1>1, <1>6, <2>1 DEF Recalled
  <2>4. \A i \in 1..n : stk2[i].id = ak.frame => ak.low = i /\ (ak.own <=> stk2[i].code \notin Through)
    BY <1>1, <1>2, <2>1 DEF Recalled
  <2>5. QED
    BY <1>2, <1>3, <2>2, <2>3, <2>4
<1>9. ~un.on /\ (rs.on => rs.phase = "entering")
  <2>1. ~un.on
    BY <1>1 DEF Unwinding
  <2>2. rs.on => rs.phase = "entering"
    BY <1>1 DEF Restarting, Rewinding, Typed, RestartStates
  <2>3. QED
    BY <2>1, <2>2
<1>10. ~Caught(stk, a, st)
  BY DEF Caught
<1>11. st.on => rs2 = rs /\ in2 = in1
  BY DEF EntersAgain, Typed
<1>12. ~st.on => st2 = st /\ in1 = in
  BY DEF EnterStep, StepStays
<1>13. in2.watching = in1.watching
  OBVIOUS
<1>14. Restarting(stk2, "started", rs2, un, in2)
  <2>1. CASE rs2 = rs /\ in2 = in1
    BY <1>1, <1>9, <1>12, <2>1 DEF Restarting, Typed
  <2>2. CASE rs2 # rs \/ in2 # in1
    <3>1. /\ EntersAgain(stk2, rs) /\ rs2.on /\ rs2.code = rs.code /\ rs2.phase = "landing"
          /\ rs2.caller = rs.caller /\ rs2.frame = Top(stk2).id /\ in2.watching = in1.watching
      BY <2>2
    <3>2. rs.on /\ rs.phase = "entering" /\ in1 = in
      BY <3>1, <1>12 DEF EntersAgain, Typed
    <3>3. rs.code \in Codes /\ "line" \in in.watching[rs.code]
      BY <1>1, <3>2 DEF Restarting
    <3>4. QED
      BY <3>1, <3>2, <3>3 DEF Restarting, EntersAgain
  <2>3. QED
    BY <2>1, <2>2
<1>15. Unwinding(stk2, "started", un, in2) /\ Landed(stk2, "started", w, ak2) /\ Seen(stk2, "started", ak2)
  BY <1>9 DEF Unwinding, Landed, Seen
<1>16. CASE ~st.on
  <2>1. ~st2.on
    BY <1>12, <1>16
  <2>2. ak2.kind # "nothing" => ak2.leaving
    BY <1>1, <1>7, <1>16 DEF Stepping
  <2>3. Stepping(stk2, "started", ak2, st2, in2)
    BY <2>1, <2>2 DEF Stepping
  <2>4. In(stk2, "started", ak2, st2, d) /\ Over(stk2, "started", ak2, st2) /\ Gone(stk2, "started", ak2, st2)
    BY <2>1 DEF In, Over, Gone
  <2>5. QED
    BY <1>5, <1>8, <1>14, <1>15, <2>3, <2>4 DEF Fit
<1>17. CASE st.on
  <2>1. ak.kind = st.kind /\ ak.kind # "nothing" /\ a # "rewound"
    BY <1>1, <1>17 DEF Stepping
  <2>2. CASE \* It goes on in the new frame.
             /\ Top(stk2).code \notin Through /\ GoesOn(Top(stk2), "line", st, st2, in1) /\ st2.notAgain = 0
             /\ st.target # 0 => Called(stk2, st)
    <3>1. /\ st2.on /\ st2.kind = st.kind /\ st2.frame = f.id /\ st2.landing = "line" /\ f.code \notin Through
          /\ in2.watching[f.code] = Landing("line")
      BY <1>2, <1>13, <2>2 DEF GoesOn
    <3>2. Caught(stk2, "started", st2)
      BY <1>2, <2>2, <3>1 DEF Caught
    <3>3. Stepping(stk2, "started", ak2, st2, in2)
      BY <1>2, <1>3, <1>4, <1>6, <1>7, <2>1, <3>1 DEF Stepping
    <3>4. ak2 = ak
      BY <1>2, <3>1 DEF ak2, ToldOfCall, ChosenThrough
    <3>5. In(stk2, "started", ak2, st2, d)
      <4>1. SUFFICES ASSUME ak.kind = "in", ak.frame \in IdsOf(stk2), ~ak.leaving
                     PROVE  /\ st2.frame # ak.frame
                            /\ ak.target # 0 => Caller(stk2).id = ak.frame /\ Caller(stk2).call = ak.target
        BY <1>2, <3>2, <3>4 DEF In
      <4>2. ak.frame \in IdsOf(stk)
        BY <1>6, <4>1
      <4>3. st.frame = ak.frame /\ st.target = ak.target
        BY <1>1, <1>10, <1>17, <4>1, <4>2 DEF In, InFrame
      <4>4. QED
        BY <2>2, <3>1, <4>3 DEF Called
    <3>6. Over(stk2, "started", ak2, st2)
      <4>1. SUFFICES ASSUME ak.kind \in {"over", "out"}, ak.frame \in IdsOf(stk2), ~ak.leaving PROVE ~ak.own
        BY <3>2, <3>4 DEF Over
      <4>2. ak.frame \in IdsOf(stk)
        BY <1>6, <4>1
      <4>3. ak.own => ~st.entering
        BY <1>1, <1>17, <4>1, <4>2 DEF Over
      <4>4. ak.own => st2 = st
        BY <4>3 DEF EnterStep, StepStays
      <4>5. QED
        BY <3>1, <4>4
    <3>7. Gone(stk2, "started", ak2, st2)
      BY <2>2, <3>2 DEF Gone
    <3>8. QED
      BY <1>5, <1>8, <1>14, <1>15, <3>3, <3>5, <3>6, <3>7 DEF Fit
  <2>3. CASE \* It does not.
             /\ in1 = in /\ (st2 = st \/ st2 = [st EXCEPT !.target = 0])
             /\ ~(/\ Top(stk2).code \notin Through /\ GoesOn(Top(stk2), "line", st, st2, in1)
                  /\ st2.notAgain = 0 /\ (st.target # 0 => Called(stk2, st)))
    <3>1. /\ st2.on /\ st2.kind = st.kind /\ st2.frame = st.frame /\ st2.landing = st.landing
          /\ st2.entering = st.entering /\ st2.notAgain = st.notAgain
      BY <1>17, <2>3 DEF Typed, StepStates
    <3>2. Stepping(stk2, "started", ak2, st2, in2)
      <4>1. \A i \in 1..Len(stk2) : stk2[i].id = st2.frame =>
                 in2.watching[stk2[i].code] = Landing(st2.landing)
        BY <1>1, <1>2, <1>3, <1>13, <1>17, <2>3, <3>1 DEF Stepping
      <4>2. ~ak2.leaving => st2.frame \in IdsOf(stk2)
        BY <1>1, <1>6, <1>7, <1>17, <3>1 DEF Stepping
      <4>3. QED
        BY <1>7, <2>1, <3>1, <4>1, <4>2 DEF Stepping
    <3>3. ak.frame \in IdsOf(stk2) <=> ak.frame \in IdsOf(stk)
      BY <1>6
    <3>4. In(stk2, "started", ak2, st2, d)
      <4>1. SUFFICES ASSUME ak.kind = "in", ak.frame \in IdsOf(stk), ~ak.leaving
                     PROVE  InFrame(stk2, ak2, st2, d)
        BY <1>7, <3>3 DEF In
      <4>2. InFrame(stk, ak, st, d)
        BY <1>1, <1>10, <1>17, <4>1 DEF In
      <4>3. EnterStep(stk2, st, in, st2, in1)
        BY <4>2 DEF InFrame
      <4>4. st.entering /\ Top(stk2).id # st.frame
        BY <1>2, <4>2 DEF InFrame
      <4>5. \/ st.target # 0 /\ ~Called(stk2, st) /\ st2 = st
            \/ (st.target # 0 => Called(stk2, st)) /\ Top(stk2).code \in Through /\ st2 = [st EXCEPT !.target = 0]
        BY <1>17, <2>3, <4>3, <4>4 DEF EnterStep, StepStays
      <4>6. st.frame = ak.frame /\ st.target = ak.target
        BY <4>2 DEF InFrame
      <4>7. CASE st.target # 0 /\ ~Called(stk2, st) /\ st2 = st
        <5>1. ~ChosenThrough(stk2, ak)
          BY <1>2, <4>6, <4>7 DEF ChosenThrough, Called
        <5>2. ak2 = ak
          BY <5>1 DEF ak2, ToldOfCall
        <5>3. QED
          BY <4>2, <4>6, <4>7, <5>2 DEF InFrame
      <4>8. CASE /\ st.target # 0 => Called(stk2, st)
                 /\ Top(stk2).code \in Through /\ st2 = [st EXCEPT !.target = 0]
        <5>1. st2.target = 0
          BY <4>8 DEF Typed, StepStates
        <5>2. ak2.target = 0
          BY <1>2, <1>7, <4>1, <4>6, <4>8 DEF ChosenThrough, Called
        <5>3. \A i \in (ak.low + 1)..n : stk[i].code \in Through
          <6>1. CASE ak.target = 0
            BY <4>2, <6>1 DEF InFrame
          <6>2. CASE ak.target # 0
            <7>1. stk[n].id = ak.frame
              BY <1>2, <4>6, <4>8, <6>2 DEF Called
            <7>2. ak.low = n
              BY <1>1, <1>2, <2>1, <7>1 DEF Recalled
            <7>3. QED
              BY <1>2, <7>2
          <6>3. QED
            BY <6>1, <6>2
        <5>4. ak.low \in 1..n
          BY <1>1, <2>1 DEF Recalled
        <5>5. \A i \in (ak.low + 1)..(n + 1) : stk2[i].code \in Through
          <6>1. TAKE i \in (ak.low + 1)..(n + 1)
          <6>2. i \in (ak.low + 1)..n \/ i = n + 1
            BY <1>2, <5>4
          <6>3. (ak.low + 1)..n \subseteq 1..n
            BY <1>2, <5>4
          <6>4. QED
            BY <1>2, <4>8, <5>3, <6>2, <6>3
        <5>6. QED
          BY <1>2, <1>7, <3>1, <4>2, <5>1, <5>2, <5>5 DEF InFrame
      <4>9. QED
        BY <4>5, <4>7, <4>8
    <3>5. Over(stk2, "started", ak2, st2)
      <4>1. SUFFICES ASSUME ak.kind \in {"over", "out"}, ak.frame \in IdsOf(stk), ~ak.leaving
                     PROVE  /\ st2.frame = ak.frame
                            /\ ak.own => /\ ~st2.entering /\ st2.notAgain = 0
                                         /\ st2.landing = IF ak.kind = "out" THEN "notYet" ELSE "line"
        BY <1>7, <3>3 DEF Over
      <4>2. QED
        BY <1>1, <1>10, <1>17, <3>1, <4>1 DEF Over
    <3>6. Gone(stk2, "started", ak2, st2)
      <4>1. SUFFICES ASSUME ak.kind \in {"over", "out"}, ak.frame \notin IdsOf(stk), ~ak.leaving
                     PROVE  st2.notAgain = 0 /\ BackIn(stk2, "started", ak2, st2)
        BY <1>7, <3>3 DEF Gone
      <4>2. st.notAgain = 0 /\ stk[ak.low].id = st.frame /\ stk[ak.low].code \in Through
        BY <1>1, <1>10, <1>17, <4>1 DEF Gone, BackIn
      <4>3. ak.low \in 1..n
        BY <1>1, <2>1 DEF Recalled
      <4>4. QED
        BY <1>2, <1>7, <3>1, <4>2, <4>3 DEF BackIn
    <3>7. QED
      BY <1>5, <1>8, <1>14, <1>15, <3>2, <3>4, <3>5, <3>6 DEF Fit
  <2>4. QED
    BY <1>17, <2>2, <2>3 DEF EnterStep, StepStays
<1>18. QED
  BY <1>16, <1>17

\* What is left of a stack whose innermost frame has gone is what it was.
Lowered(stk, ak) == [ak EXCEPT !.low = IF Len(stk) <= @ THEN Len(stk) - 1 ELSE @]

\* A frame that goes leaves a stack, and an ask, that fit each other.
LEMMA LoweredIs ==
    ASSUME NEW stk \in Seq(Frames), stk # <<>>, NEW a, NEW ak \in Asks, Stacked(stk, a), Recalled(stk, a, ak),
           NEW a2, a2 = "over" <=> Len(stk) = 1
    PROVE  LET stk2 == Front(stk)
               ak2  == Lowered(stk, ak)
           IN  /\ ak2.kind = ak.kind /\ ak2.frame = ak.frame /\ ak2.own = ak.own /\ ak2.target = ak.target
               /\ ak2.line = ak.line /\ ak2.leaving = ak.leaving
               /\ ak2.low = IF Len(stk) <= ak.low THEN Len(stk) - 1 ELSE ak.low
               /\ Stacked(stk2, a2) /\ Recalled(stk2, a2, ak2)
<1> DEFINE n    == Len(stk)
           stk2 == Front(stk)
           ak2  == Lowered(stk, ak)
<1>1. /\ ak2.kind = ak.kind /\ ak2.frame = ak.frame /\ ak2.own = ak.own /\ ak2.target = ak.target
      /\ ak2.line = ak.line /\ ak2.leaving = ak.leaving
      /\ ak2.low = IF n <= ak.low THEN n - 1 ELSE ak.low
  BY DEF Lowered, Asks
<1>2. n \in Nat \ {0} /\ Len(stk2) = n - 1 /\ (stk2 = <<>> <=> n = 1)
  BY TopIs, FrontIs
<1>3. \A i \in 1..(n - 1) : stk2[i] = stk[i]
  BY FrontIs
<1> HIDE DEF stk2, ak2
<1>4. Stacked(stk2, a2)
  BY <1>2, <1>3 DEF Stacked
<1>5. Recalled(stk2, a2, ak2)
  <2>1. SUFFICES ASSUME ak.kind # "nothing"
                 PROVE  /\ stk2 # <<>> => ak2.low \in 1..(n - 1)
                        /\ \A i \in 1..(n - 1) : stk[i].id = ak.frame =>
                              ak2.low = i /\ (ak.own <=> stk[i].code \notin Through)
                        /\ ak.leaving => ak.frame \notin IdsOf(stk2)
    BY <1>1, <1>2, <1>3 DEF Recalled
  <2>2. ak.low \in 1..n
    BY <2>1 DEF Recalled
  <2>3. stk2 # <<>> => ak2.low \in 1..(n - 1)
    BY <1>1, <1>2, <2>2
  <2>4. \A i \in 1..n : stk[i].id = ak.frame => ak.low = i /\ (ak.own <=> stk[i].code \notin Through)
    BY <2>1 DEF Recalled
  <2>5. \A i \in 1..(n - 1) : i \in 1..n /\ ~(n <= i)
    BY <1>2
  <2>6. \A i \in 1..(n - 1) : stk[i].id = ak.frame =>
              ak2.low = i /\ (ak.own <=> stk[i].code \notin Through)
    BY <1>1, <2>4, <2>5
  <2>7. ak.frame \in IdsOf(stk2) => ak.frame \in IdsOf(stk) /\ ak.frame # Top(stk).id
    BY FrameAtTop DEF stk2
  <2>8. ak.leaving => ak.frame \notin IdsOf(stk2)
    BY <2>1, <2>7 DEF Recalled
  <2>9. QED
    BY <2>3, <2>6, <2>8
<1>6. QED
  BY <1>1, <1>4, <1>5 DEF stk2, ak2

\* The innermost frame has gone.
LEMMA PoppedFits ==
    ASSUME NEW stk, NEW a, NEW w, NEW ak, NEW st, NEW rs, NEW un, NEW in, NEW d,
           Typed(stk, a, ak, st, rs, un, in), Fit(stk, a, w, ak, st, rs, un, in, d),
           NEW place, NEW l, NEW st2, NEW in2,
           \/ a \in {"line", "mid", "past"} /\ place = "returned" /\ l = "instruction"
           \/ a = "forced" /\ place = "tail" /\ l = "instruction"
           \/ a = "tail" /\ un.on /\ place = "tail" /\ l = "instruction"
           \/ a = "raising" /\ place = "raising" /\ l = "line"
           \/ a = "leaving" /\ place = "raising" /\ StepStays(st, in, st2, in2),
           a # "leaving" => LeaveStep(stk, l, st, in, st2, in2),
           un.on => Top(stk).id # un.target,
           a = "raising" /\ rs.on => rs.phase = "entering",
           NEW stk2, stk2 = Front(stk), NEW ak2, ak2 = Lowered(stk, ak),
           NEW a2, a2 = IF Len(stk) = 1 THEN "over" ELSE place
    PROVE  Fit(stk2, a2, w, ak2, st2, rs, un, in2, d)
<1> DEFINE n == Len(stk)
<1>1. /\ stk \in Seq(Frames) /\ stk # <<>> /\ ak \in Asks /\ Stacked(stk, a) /\ Recalled(stk, a, ak)
      /\ Stepping(stk, a, ak, st, in) /\ In(stk, a, ak, st, d) /\ Over(stk, a, ak, st)
      /\ Gone(stk, a, ak, st) /\ Restarting(stk, a, rs, un, in) /\ Unwinding(stk, a, un, in)
  BY DEF Typed, Fit, Stacked
<1>2. n \in Nat \ {0} /\ Top(stk) = stk[n] /\ (n > 1 => Caller(stk) = stk[n - 1])
  BY <1>1, TopIs
<1>3. /\ stk2 \in Seq(Frames) /\ Len(stk2) = n - 1 /\ (stk2 = <<>> <=> n = 1)
      /\ \A i \in 1..(n - 1) : stk2[i] = stk[i]
  BY <1>1, FrontIs
<1>4. /\ ak2.kind = ak.kind /\ ak2.frame = ak.frame /\ ak2.own = ak.own /\ ak2.target = ak.target
      /\ ak2.leaving = ak.leaving /\ ak2.low = (IF n <= ak.low THEN n - 1 ELSE ak.low)
      /\ Stacked(stk2, a2) /\ Recalled(stk2, a2, ak2)
  <2>1. a2 = "over" <=> n = 1
    OBVIOUS
  <2>2. QED
    BY <1>1, <2>1, LoweredIs
<1>5. ASSUME NEW x
      PROVE  /\ x \in IdsOf(stk) <=> x \in IdsOf(stk2) \/ x = Top(stk).id
             /\ x = Top(stk).id => x \notin IdsOf(stk2)
             /\ x \in IdsOf(stk2) => \E i \in 1..(n - 1) : stk[i].id = x
             /\ \A i \in 1..(n - 1) : stk[i].id = x => x \in IdsOf(stk2)
  BY <1>1, FrameAtTop, FrontIs
<1>6. \A i \in 1..n : \A j \in 1..n : stk[i].id = stk[j].id => i = j
  BY <1>1 DEF Stacked
<1>7. /\ n > 1 => a2 \in {"returned", "tail", "raising"}
      /\ n = 1 => a2 = "over"
      /\ a2 \in {"over", "returned", "tail", "raising"}
      /\ ~Caught(stk, a, st)
  <2>. \A m \in Nat \ {0} : m > 1 <=> m # 1
    OBVIOUS
  <2>1. n > 1 <=> n # 1
    BY <1>2
  <2>2. place \in {"returned", "tail", "raising"} /\ a # "started"
    OBVIOUS
  <2>3. QED
    BY <2>1, <2>2 DEF Caught
<1>8. st.on /\ ~ak.leaving => a \in {"line", "mid", "past", "raising"} /\ ak.kind = st.kind /\ ak.kind # "nothing"
  BY <1>1 DEF Stepping
<1>9. \/ st2 = st /\ in2 = in /\ (st.on /\ ~ak.leaving => Top(stk).id # st.frame)
      \/ /\ st.on /\ n > 1 /\ Top(stk).id = st.frame /\ a # "leaving"
         /\ GoesOn(Caller(stk), st2.landing, st, st2, in2)
         /\ st.kind # "in" => st2.notAgain = 0 /\ st2.landing = l
      \/ st.on /\ n = 1 /\ ~st2.on
  BY <1>8 DEF LeaveStep, StepStays, NoStep
<1>10. st2.on => st.on /\ st2.kind = st.kind
  BY <1>9 DEF GoesOn
<1>11. Stepping(stk2, a2, ak2, st2, in2)
  <2>1. a2 \notin {"held", "over"} /\ ak2.kind # "nothing" /\ ~ak2.leaving => st2.on
    <3>1. SUFFICES ASSUME a2 # "over", ak.kind # "nothing", ~ak.leaving PROVE st2.on
      BY <1>4
    <3>. \A m \in Nat \ {0} : m > 1 <=> m # 1
      OBVIOUS
    <3>2. n # 1 /\ n > 1
      BY <1>2, <1>7, <3>1
    <3>3. st.on
      BY <1>1, <3>1 DEF Stepping
    <3>4. QED
      BY <1>9, <3>2, <3>3 DEF GoesOn
  <2>2. ASSUME st2.on
        PROVE  /\ ak2.kind = st2.kind /\ ak2.kind # "nothing"
               /\ a2 \notin {"held", "forced", "tail", "rewound"} /\ a2 # "leaving"
    <3>1. st.on /\ st2.kind = st.kind
      BY <1>10, <2>2
    <3>2. ak.kind = st.kind /\ ak.kind # "nothing" /\ a \notin {"forced", "tail"}
      BY <1>1, <3>1 DEF Stepping
    <3>3. QED
      BY <1>4, <3>1, <3>2
  <2>3. st2.on /\ ~ak2.leaving => st2.frame \in IdsOf(stk2)
    <3>1. SUFFICES ASSUME st2.on, ~ak.leaving PROVE st2.frame \in IdsOf(stk2)
      BY <1>4
    <3>2. st.on /\ st.frame \in IdsOf(stk)
      BY <1>1, <1>10, <3>1 DEF Stepping
    <3>3. CASE st2 = st /\ Top(stk).id # st.frame
      BY <1>5, <3>2, <3>3
    <3>4. CASE n > 1 /\ GoesOn(Caller(stk), st2.landing, st, st2, in2)
      <4>1. st2.frame = stk[n - 1].id /\ n - 1 \in 1..(n - 1)
        BY <1>2, <3>4 DEF GoesOn
      <4>2. QED
        BY <1>5, <4>1
    <3>5. QED
      BY <1>9, <3>1, <3>2, <3>3, <3>4
  <2>4. st2.on => \A i \in 1..Len(stk2) : stk2[i].id = st2.frame =>
            in2.watching[stk2[i].code] = Landing(st2.landing)
    <3>1. SUFFICES ASSUME st2.on, NEW i \in 1..(n - 1), stk[i].id = st2.frame
                   PROVE  in2.watching[stk[i].code] = Landing(st2.landing)
      BY <1>3
    <3>2. i \in 1..n
      BY <1>2
    <3>3. CASE st2 = st /\ in2 = in
      BY <1>1, <3>1, <3>2, <3>3 DEF Stepping
    <3>4. CASE n > 1 /\ GoesOn(Caller(stk), st2.landing, st, st2, in2)
      <4>1. st2.frame = stk[n - 1].id /\ n - 1 \in 1..n
        BY <1>2, <3>4 DEF GoesOn
      <4>2. i = n - 1
        BY <1>6, <3>1, <3>2, <4>1
      <4>3. QED
        BY <1>2, <3>4, <4>2 DEF GoesOn
    <3>5. QED
      BY <1>9, <3>1, <3>3, <3>4
  <2>5. QED
    BY <2>1, <2>2, <2>3, <2>4 DEF Stepping
<1>12. ASSUME ak.frame \in IdsOf(stk2), st2.on, ~ak.leaving, st.frame = ak.frame
       PROVE  st2 = st /\ in2 = in /\ ak2.low = ak.low
  <2>1. st2 = st /\ in2 = in
    BY <1>5, <1>9, <1>10, <1>12
  <2>2. PICK i \in 1..(n - 1) : stk[i].id = ak.frame
    BY <1>5, <1>12
  <2>3. ak.kind # "nothing" /\ i \in 1..n /\ ~(n <= i)
    BY <1>2, <1>8, <1>10, <1>12
  <2>4. ak.low = i
    BY <1>1, <2>2, <2>3 DEF Recalled
  <2>5. QED
    BY <1>4, <2>1, <2>3, <2>4
<1>13. In(stk2, a2, ak2, st2, d)
  <2>1. SUFFICES ASSUME st2.on, ak.kind = "in", ak.frame \in IdsOf(stk2), ~ak.leaving
                 PROVE  InFrame(stk2, ak2, st2, d)
    BY <1>4 DEF In
  <2>2. InFrame(stk, ak, st, d)
    BY <1>1, <1>5, <1>7, <1>10, <2>1 DEF In
  <2>3. st2 = st /\ ak2.low = ak.low
    BY <1>12, <2>1, <2>2 DEF InFrame
  <2>4. ak.low \in 1..n
    BY <1>1, <2>1 DEF Recalled
  <2>5. \A i \in (ak.low + 1)..(n - 1) : i \in (ak.low + 1)..n /\ i \in 1..(n - 1)
    BY <1>2, <2>4
  <2>6. ak.target = 0 => \A i \in (ak.low + 1)..(n - 1) : stk2[i].code \in Through
    BY <1>3, <2>2, <2>5 DEF InFrame
  <2>7. QED
    BY <1>3, <1>4, <2>2, <2>3, <2>6 DEF InFrame
<1>14. Over(stk2, a2, ak2, st2)
  <2>1. SUFFICES ASSUME st2.on, ak.kind \in {"over", "out"}, ak.frame \in IdsOf(stk2), ~ak.leaving
                 PROVE  /\ st2.frame = ak.frame
                        /\ ak.own => /\ ~st2.entering /\ st2.notAgain = 0
                                     /\ st2.landing = IF ak.kind = "out" THEN "notYet" ELSE "line"
    BY <1>4 DEF Over
  <2>2. /\ st.frame = ak.frame
        /\ ak.own => /\ ~st.entering /\ st.notAgain = 0
                     /\ st.landing = IF ak.kind = "out" THEN "notYet" ELSE "line"
    BY <1>1, <1>5, <1>7, <1>10, <2>1 DEF Over
  <2>3. QED
    BY <1>12, <2>1, <2>2
<1>15. Gone(stk2, a2, ak2, st2)
  <2>1. SUFFICES ASSUME st2.on, ak.kind \in {"over", "out"}, ak.frame \notin IdsOf(stk2), ~ak.leaving
                 PROVE  st2.notAgain = 0 /\ BackIn(stk2, a2, ak2, st2)
    BY <1>4 DEF Gone
  <2>2. st.on /\ st.kind = ak.kind /\ a \in {"line", "mid", "past", "raising"} /\ ak.low \in 1..n
    BY <1>1, <1>8, <1>10, <2>1 DEF Recalled
  <2>3. ASSUME ak.low = n, st.frame = Top(stk).id
        PROVE  st2.notAgain = 0 /\ BackIn(stk2, a2, ak2, st2)
    <3>1. /\ n > 1 /\ GoesOn(Caller(stk), st2.landing, st, st2, in2)
          /\ st2.notAgain = 0 /\ st2.landing = l
      BY <1>9, <2>1, <2>2, <2>3
    <3>2. ak2.low = n - 1 /\ ak2.low = Len(stk2) /\ n - 1 \in 1..(n - 1)
      BY <1>2, <1>3, <1>4, <2>3, <3>1
    <3>3. stk2[ak2.low].id = st2.frame /\ stk2 # <<>>
      BY <1>2, <1>3, <3>1, <3>2 DEF GoesOn
    <3>4. (a2 = "returned" /\ l = "instruction") \/ (a2 = "raising" /\ l = "line")
      BY <1>2, <2>2, <3>1
    <3>5. QED
      BY <3>1, <3>2, <3>3, <3>4 DEF BackIn
  <2>4. CASE ak.frame \in IdsOf(stk)
    <3>1. ak.frame = Top(stk).id
      BY <1>5, <2>4, <2>1
    <3>2. ak.low = n
      BY <1>1, <1>2, <2>1, <3>1 DEF Recalled
    <3>3. st.frame = ak.frame
      BY <1>1, <1>7, <2>1, <2>2, <2>4 DEF Over
    <3>4. QED
      BY <2>3, <3>1, <3>2, <3>3
  <2>5. CASE ak.frame \notin IdsOf(stk)
    <3>1. st.notAgain = 0 /\ BackIn(stk, a, ak, st)
      BY <1>1, <1>7, <2>1, <2>2, <2>5 DEF Gone
    <3>2. CASE ak.low = n
      BY <1>2, <2>3, <3>1, <3>2 DEF BackIn
    <3>3. CASE ak.low # n
      <4>1. stk[ak.low].id = st.frame /\ stk[ak.low].code \in Through
        BY <3>1, <3>3 DEF BackIn
      <4>2. st.frame # Top(stk).id
        BY <1>2, <1>6, <2>2, <3>3, <4>1
      <4>3. st2 = st
        BY <1>9, <1>2, <2>1, <4>2
      <4>4. ak2.low = ak.low /\ ak.low \in 1..(n - 1) /\ stk2 # <<>>
        BY <1>2, <1>3, <1>4, <2>2, <3>3
      <4>5. QED
        BY <1>3, <3>1, <4>1, <4>3, <4>4 DEF BackIn
    <3>4. QED
      BY <3>2, <3>3
  <2>6. QED
    BY <2>4, <2>5
<1>16. ~st.on => in2 = in
  BY <1>9
<1>17. un.on => n > 1 /\ ~rs.on /\ in2 = in
  <2>1. SUFFICES ASSUME un.on PROVE n > 1
    BY <1>16 DEF Typed
  <2>2. PICK p \in 1..n : ForcedFrom(stk, a, un, in, p)
    BY <1>1, <2>1 DEF Unwinding
  <2>3. p # n
    BY <1>2, <2>1, <2>2 DEF ForcedFrom
  <2>4. QED
    BY <1>2, <2>3
<1>18. Restarting(stk2, a2, rs, un, in2)
  <2>1. rs.on => in2 = in
    BY <1>16 DEF Typed
  <2>2. ASSUME rs.on, rs.phase = "rewinding" PROVE Rewinding(stk2, a2, rs, in)
    <3>1. Rewinding(stk, a, rs, in) /\ ~un.on
      BY <1>1, <2>2 DEF Restarting, Typed
    <3>2. a = "forced" /\ n > 1 /\ Caller(stk).id = rs.caller
      BY <2>2, <3>1 DEF Rewinding
    <3>3. a2 = "tail" /\ n # 1
      BY <1>2, <3>2
    <3>4. stk2 # <<>> /\ n - 1 \in 1..(n - 1)
      BY <1>2, <1>3, <3>2
    <3>5. Top(stk2) = stk[n - 1]
      BY <1>3, <3>4, TopIs
    <3>6. \A i \in 1..(n - 1) : stk[i].id = rs.caller => "line" \in in.watching[stk[i].code]
      BY <1>2, <3>1 DEF Rewinding
    <3>7. QED
      BY <1>2, <1>3, <3>2, <3>3, <3>5, <3>6 DEF Rewinding
  <2>3. ASSUME rs.on
        PROVE  /\ a2 # "held" /\ rs.code \in Codes
               /\ rs.phase # "rewinding" => "line" \in in2.watching[rs.code]
               /\ rs.phase # "landing"
    BY <1>1, <1>7, <2>1, <2>3 DEF Restarting
  <2>4. a2 = "tail" => un.on \/ (rs.on /\ rs.phase = "rewinding")
    BY <1>1, <1>7 DEF Restarting
  <2>5. QED
    BY <1>7, <2>1, <2>2, <2>3, <2>4 DEF Restarting
<1>19. Unwinding(stk2, a2, un, in2)
  <2>1. SUFFICES ASSUME un.on PROVE Unwinding(stk2, a2, un, in2)
    BY DEF Unwinding
  <2>2. a \in {"forced", "tail", "raising"} /\ a2 \in {"tail", "raising"}
    BY <1>1, <1>2, <1>17, <2>1 DEF Unwinding
  <2>3. PICK p \in 1..n : ForcedFrom(stk, a, un, in, p)
    BY <1>1, <2>1 DEF Unwinding
  <2>4. p # n
    BY <1>2, <2>1, <2>3 DEF ForcedFrom
  <2>5. p \in 1..(n - 1)
    BY <1>2, <2>4
  <2>6. ForcedFrom(stk2, a2, un, in, p)
    <3>1. stk2[p].id = un.target
      BY <1>3, <2>3, <2>5 DEF ForcedFrom
    <3>2. ASSUME NEW j \in p..(n - 1) PROVE in.watching[stk2[j].code] = {"line"}
      <4>1. j \in p..n /\ j \in 1..(n - 1)
        BY <1>2, <2>5
      <4>2. QED
        BY <1>3, <2>3, <4>1 DEF ForcedFrom
    <3>3. ASSUME NEW j \in (p + 1)..(n - 1)
          PROVE  LET k == Len(un.above) + 1 - (j - p) IN k >= 1 /\ un.above[k] = stk2[j].id
      <4>1. j \in (p + 1)..n /\ j \in 1..(n - 1) /\ j # n
        BY <1>2, <2>5
      <4>2. LET k == Len(un.above) + 1 - (j - p) IN k >= 1 /\ un.above[k] = stk[j].id
        BY <2>3, <4>1 DEF ForcedFrom
      <4>3. QED
        BY <1>3, <4>1, <4>2
    <3>4. QED
      BY <1>3, <3>1, <3>2, <3>3 DEF ForcedFrom
  <2>7. QED
    BY <1>1, <1>3, <1>17, <2>1, <2>2, <2>5, <2>6 DEF Unwinding
<1>20. Landed(stk2, a2, w, ak2) /\ Seen(stk2, a2, ak2)
  BY <1>7 DEF Landed, Seen
<1>21. QED
  BY <1>4, <1>11, <1>13, <1>14, <1>15, <1>18, <1>19, <1>20 DEF Fit

\* An exception is raised, and stops nothing.
LEMMA RaisingFits ==
    ASSUME NEW stk, NEW a, NEW w, NEW ak, NEW st, NEW rs, NEW un, NEW in, NEW d,
           Fit(stk, a, w, ak, st, rs, un, in, d),
           a \in {"line", "mid", "past", "tail", "rewound"}
    PROVE  Fit(stk, "raising", w, ak, st, rs, un, in, d)
<1>1. /\ Stacked(stk, a) /\ Recalled(stk, a, ak)
      /\ Stepping(stk, a, ak, st, in) /\ In(stk, a, ak, st, d) /\ Over(stk, a, ak, st)
      /\ Gone(stk, a, ak, st) /\ Restarting(stk, a, rs, un, in) /\ Unwinding(stk, a, un, in)
  BY DEF Fit
<1>2. Stacked(stk, "raising") /\ Recalled(stk, "raising", ak) /\ Stepping(stk, "raising", ak, st, in)
  BY <1>1 DEF Stacked, Recalled, Stepping
<1>3. ~Caught(stk, a, st)
  BY DEF Caught
<1>4. In(stk, "raising", ak, st, d)
  BY <1>1, <1>3 DEF In
<1>5. Over(stk, "raising", ak, st)
  BY <1>1, <1>3 DEF Over
<1>6. Gone(stk, "raising", ak, st)
  BY <1>1, <1>3 DEF Gone, BackIn
<1>7. Restarting(stk, "raising", rs, un, in)
  BY <1>1 DEF Restarting, Rewinding
<1>8. Unwinding(stk, "raising", un, in)
  <2>1. SUFFICES ASSUME un.on PROVE \E p \in 1..Len(stk) : ForcedFrom(stk, "raising", un, in, p)
    BY <1>1 DEF Unwinding
  <2>2. PICK p \in 1..Len(stk) : ForcedFrom(stk, a, un, in, p)
    BY <1>1, <2>1 DEF Unwinding
  <2>3. ForcedFrom(stk, "raising", un, in, p)
    BY <2>2 DEF ForcedFrom
  <2>4. QED
    BY <2>3
<1>9. Landed(stk, "raising", w, ak) /\ Seen(stk, "raising", ak)
  BY DEF Landed, Seen
<1>10. QED
  BY <1>2, <1>4, <1>5, <1>6, <1>7, <1>8, <1>9 DEF Fit

\* A held thread's innermost frame is moved to its first line.
LEMMA ResetFits ==
    ASSUME NEW stk \in Seq(Frames), stk # <<>>, NEW w, NEW ak, NEW st, NEW rs, NEW un, NEW in, NEW d,
           Fit(stk, "held", w, ak, st, rs, un, in, d), ~st.on, ~rs.on, ~un.on,
           NEW stk2 \in Seq(Frames), Alike(stk, stk2)
    PROVE  Fit(stk2, "held", w, ak, st, rs, un, in, d)
<1>1. Stacked(stk, "held") /\ Recalled(stk, "held", ak) /\ Landed(stk, "held", w, ak)
  BY DEF Fit
<1>2. Stacked(stk2, "held") /\ Recalled(stk2, "held", ak)
  BY <1>1, AlikeKeeps
<1>3. /\ stk2 # <<>> /\ IdsOf(stk2) = IdsOf(stk) /\ IdsOf(Front(stk2)) = IdsOf(Front(stk))
      /\ Top(stk2).code = Top(stk).code /\ Len(stk2) = Len(stk)
      /\ \A i \in 1..(Len(stk) - 1) : stk2[i] = stk[i]
  BY AlikeIs DEF Alike
<1>4. Landed(stk2, "held", w, ak)
  <2>1. ASSUME ak.frame \in IdsOf(Front(stk)) PROVE FrameOf(stk2, ak.frame) = FrameOf(stk, ak.frame)
    <3>1. PICK i \in 1..(Len(stk) - 1) : stk[i].id = ak.frame
      BY <2>1, FrontIs
    <3>2. stk2[i] = stk[i] /\ i \in 1..Len(stk) /\ i \in 1..Len(stk2)
      BY <1>3
    <3>3. FrameOf(stk, stk[i].id) = stk[i] /\ FrameOf(stk2, stk2[i].id) = stk2[i]
      BY <1>1, <1>2, <3>2, FrameOfIs
    <3>4. QED
      BY <3>1, <3>2, <3>3
  <2>2. QED
    BY <1>1, <1>3, <2>1 DEF Landed
<1>5. QED
  BY <1>2, <1>4, IdleFits

AskedFor(stk, kind, target, leaving) ==
    [kind |-> kind, frame |-> Top(stk).id, line |-> Top(stk).line, target |-> target,
     own |-> Top(stk).code \notin Through, leaving |-> leaving, low |-> Len(stk)]

ArmedInterest(stk, kind) ==
    Waiting(Top(stk).code, IF kind = "out" THEN "notYet" ELSE "line", kind = "in")

\* A held thread is let go with a step.
LEMMA ArmedStepFits ==
    ASSUME NEW stk \in Seq(Frames), stk # <<>>, NEW w, NEW a2 \in {"mid", "raising", "leaving"},
           Stacked(stk, "held"), NEW kind \in {"over", "in", "out"}, NEW target \in Nat,
           NEW leaving \in BOOLEAN, leaving <=> a2 = "leaving",
           NEW ak, ak = AskedFor(stk, kind, target, leaving),
           NEW st, st = ArmedStep(Top(stk), kind, target), NEW rs, NEW un, ~rs.on, ~un.on, NEW in,
           in = ArmedInterest(stk, kind)
    PROVE  ak \in Asks /\ Fit(stk, a2, w, ak, st, rs, un, in, {})
<1>1. Len(stk) \in Nat \ {0} /\ Top(stk) = stk[Len(stk)] /\ Top(stk) \in Frames
  BY TopIs
<1>2. /\ ak.kind = kind /\ ak.frame = Top(stk).id /\ ak.target = target /\ ak.low = Len(stk)
      /\ (ak.own <=> Top(stk).code \notin Through) /\ (ak.leaving <=> a2 = "leaving") /\ ak \in Asks
  BY <1>1 DEF AskedFor, Asks, Kinds, Frames
<1>3. /\ st.on /\ st.kind = kind /\ st.frame = Top(stk).id /\ st.target = target /\ st.notAgain = 0
      /\ st.landing = (IF kind = "out" THEN "notYet" ELSE "line") /\ (st.entering <=> kind = "in")
  BY DEF ArmedStep
<1>4. in.watching[Top(stk).code] = Landing(st.landing)
  <2>1. Top(stk).code \in Codes
    BY <1>1 DEF Frames
  <2>2. in.watching = [x \in Codes |-> IF x = Top(stk).code THEN Landing(st.landing) ELSE {}]
    BY <1>3 DEF Waiting, ArmedInterest
  <2>3. QED
    BY <2>1, <2>2
<1>5. Top(stk).id \in IdsOf(stk) /\ \A i \in 1..Len(stk) : stk[i].id = Top(stk).id => i = Len(stk)
  BY FrameAtTop
<1> HIDE DEF ArmedStep
<1>6. Stacked(stk, a2)
  BY DEF Stacked
<1>7. Recalled(stk, a2, ak)
  BY <1>1, <1>2, <1>5 DEF Recalled
<1>8. Stepping(stk, a2, ak, st, in)
  BY <1>1, <1>2, <1>3, <1>4, <1>5 DEF Stepping
<1>9. In(stk, a2, ak, st, {})
  <2>1. (ak.low + 1)..Len(stk) = {}
    BY <1>1, <1>2
  <2>2. kind = "in" => InFrame(stk, ak, st, {})
    BY <1>2, <1>3, <2>1 DEF InFrame
  <2>3. QED
    BY <1>2, <2>2 DEF In
<1>10. Over(stk, a2, ak, st)
  BY <1>2, <1>3 DEF Over
<1>11. Gone(stk, a2, ak, st)
  BY <1>2, <1>5 DEF Gone
<1>12. Restarting(stk, a2, rs, un, in) /\ Unwinding(stk, a2, un, in)
  BY DEF Restarting, Unwinding
<1>13. Landed(stk, a2, w, ak) /\ Seen(stk, a2, ak)
  BY DEF Landed, Seen
<1>14. QED
  BY <1>2, <1>6, <1>7, <1>8, <1>9, <1>10, <1>11, <1>12, <1>13 DEF Fit

\* Nothing that a step was asked for: only what is armed beside it.
LEMMA UnaskedFits ==
    ASSUME NEW stk, NEW a, NEW w, NEW st, NEW rs, NEW un, NEW in, NEW d, a # "held",
           Stacked(stk, a), ~st.on, Restarting(stk, a, rs, un, in), Unwinding(stk, a, un, in)
    PROVE  NotAsked \in Asks /\ Fit(stk, a, w, NotAsked, st, rs, un, in, d)
<1>1. NotAsked.kind = "nothing" /\ NotAsked \in Asks
  BY DEF NotAsked, Asks, Kinds
<1>2. Recalled(stk, a, NotAsked) /\ Stepping(stk, a, NotAsked, st, in)
  BY <1>1 DEF Recalled, Stepping
<1>3. In(stk, a, NotAsked, st, d) /\ Over(stk, a, NotAsked, st) /\ Gone(stk, a, NotAsked, st)
  BY DEF In, Over, Gone
<1>4. Landed(stk, a, w, NotAsked) /\ Seen(stk, a, NotAsked)
  BY <1>1 DEF Landed, Seen
<1>5. QED
  BY <1>1, <1>2, <1>3, <1>4 DEF Fit

\* It is let go to run its innermost frame again.
LEMMA ArmedRestartFits ==
    ASSUME NEW stk \in Seq(Frames), Len(stk) > 1, NEW w, Stacked(stk, "held"), NEW d,
           NEW st, NEW un, ~st.on, ~un.on
    PROVE  Fit(stk, "forced", w, NotAsked, st, ArmedRestart(stk), un, WatchingLines({Caller(stk).code}), d)
<1> DEFINE rs == ArmedRestart(stk)
           in == WatchingLines({Caller(stk).code})
<1>1. stk # <<>> /\ Len(stk) \in Nat \ {0}
  OBVIOUS
<1>2. Caller(stk) \in Frames /\ Caller(stk) = stk[Len(stk) - 1] /\ Top(stk) \in Frames
  BY <1>1, TopIs
<1>3. rs.on /\ rs.caller = Caller(stk).id /\ rs.code \in Codes /\ rs.phase = "rewinding"
  BY <1>2 DEF ArmedRestart, Frames
<1>4. "line" \in in.watching[Caller(stk).code]
  <2>1. Caller(stk).code \in Codes
    BY <1>2 DEF Frames
  <2>2. in.watching = [c \in Codes |-> IF c \in {Caller(stk).code} THEN {"line"} ELSE {}]
    BY DEF WatchingLines
  <2> HIDE DEF in
  <2>3. in.watching[Caller(stk).code] = {"line"}
    BY <2>1, <2>2
  <2>4. QED
    BY <2>3
<1> HIDE DEF rs, in
<1>5. \A i \in 1..Len(stk) : stk[i].id = Caller(stk).id => stk[i] = Caller(stk)
  BY <1>1, <1>2 DEF Stacked
<1>6. Restarting(stk, "forced", rs, un, in)
  BY <1>3, <1>4, <1>5 DEF Restarting, Rewinding
<1>7. Unwinding(stk, "forced", un, in) /\ Stacked(stk, "forced")
  BY DEF Unwinding, Stacked
<1>8. QED
  BY <1>6, <1>7, UnaskedFits DEF rs, in

\* It is let go to run a frame further down again.
LEMMA ArmedUnwindFits ==
    ASSUME NEW stk \in Seq(Frames), NEW p \in 1..(Len(stk) - 1), NEW w, Stacked(stk, "held"), NEW d,
           NEW st, NEW rs, ~st.on, ~rs.on
    PROVE  Fit(stk, "forced", w, NotAsked, st, rs, ArmedUnwind(stk, p), WatchingLines(CodesFrom(stk, p)), d)
<1> DEFINE un == ArmedUnwind(stk, p)
           in == WatchingLines(CodesFrom(stk, p))
           n  == Len(stk)
<1>1. n \in Nat /\ p \in 1..n /\ stk # <<>> /\ p < n /\ n - p \in Nat
  OBVIOUS
<1>2. Top(stk) = stk[n]
  BY <1>1, TopIs
<1>3. /\ un.on /\ un.target = stk[p].id /\ Len(un.above) = n - p
      /\ \A k \in 1..(n - p) : un.above[k] = stk[n + 1 - k].id
  BY <1>1 DEF ArmedUnwind
<1>4. \A i, j \in 1..n : stk[i].id = stk[j].id => i = j
  BY DEF Stacked
<1>5. \A j \in p..n : in.watching[stk[j].code] = {"line"}
  <2>1. \A j \in p..n : stk[j].code \in Codes /\ stk[j].code \in CodesFrom(stk, p)
    <3>1. \A j \in p..n : stk[j] \in Frames
      BY <1>1
    <3>2. QED
      BY <3>1 DEF Frames, CodesFrom
  <2>2. QED
    BY <2>1, WatchingLinesIs
<1> HIDE DEF un, in
<1>6. ForcedFrom(stk, "forced", un, in, p)
  <2>1. ASSUME NEW j \in (p + 1)..n
        PROVE  LET k == Len(un.above) + 1 - (j - p) IN k >= 1 /\ un.above[k] = stk[j].id
    <3>1. n + 1 - j \in 1..(n - p) /\ n + 1 - (n + 1 - j) = j /\ (n - p) + 1 - (j - p) = n + 1 - j
      BY <1>1
    <3>2. un.above[n + 1 - j] = stk[j].id
      BY <1>3, <3>1
    <3>3. Len(un.above) + 1 - (j - p) = n + 1 - j /\ n + 1 - j >= 1
      BY <1>3, <3>1
    <3>4. QED
      BY <3>2, <3>3
  <2>2. QED
    BY <1>3, <1>5, <2>1 DEF ForcedFrom
<1>7. \A k \in 1..(n - p) : n + 1 - k \in 1..n /\ n + 1 - k # p
  BY <1>1
<1>8. un.target \notin ToSet(un.above)
  <2>1. ToSet(un.above) = {un.above[k] : k \in 1..(n - p)}
    BY <1>1, <1>3 DEF ToSet, un, ArmedUnwind
  <2>2. QED
    BY <1>1, <1>3, <1>4, <1>7, <2>1
<1>9. \A i, j \in 1..Len(un.above) : un.above[i] = un.above[j] => i = j
  <2>1. SUFFICES ASSUME NEW i \in 1..(n - p), NEW j \in 1..(n - p), stk[n + 1 - i].id = stk[n + 1 - j].id
                 PROVE  i = j
    BY <1>3
  <2>2. n + 1 - i = n + 1 - j
    BY <1>4, <1>7, <2>1
  <2>3. QED
    BY <1>1, <2>2
<1>10. Top(stk).id # un.target
  <2>1. n \in 1..n /\ n # p
    BY <1>1
  <2>2. QED
    BY <1>1, <1>2, <1>3, <1>4, <2>1
<1>11. Unwinding(stk, "forced", un, in)
  BY <1>1, <1>6, <1>8, <1>9, <1>10 DEF Unwinding
<1>12. Restarting(stk, "forced", rs, un, in) /\ Stacked(stk, "forced")
  BY <1>3 DEF Restarting, Stacked
<1>13. QED
  BY <1>11, <1>12, UnaskedFits DEF un, in

\* The line of the caller begins, and is moved back to the call.
LEMMA RewoundFits ==
    ASSUME NEW stk, NEW a, NEW w, NEW ak, NEW st, NEW rs, NEW un, NEW in, NEW d,
           Typed(stk, a, ak, st, rs, un, in), Fit(stk, a, w, ak, st, rs, un, in, d),
           rs.on, rs.phase = "rewinding", a # "forced",
           NEW stk2 \in Seq(Frames), Alike(stk, stk2), NEW rs2, NEW in2,
           rs2.on, rs2.code = rs.code, rs2.phase = "entering", "line" \in in2.watching[rs.code]
    PROVE  Fit(stk2, "rewound", w, ak, st, rs2, un, in2, d)
<1>1. /\ stk \in Seq(Frames) /\ Stacked(stk, a) /\ Recalled(stk, a, ak)
      /\ Stepping(stk, a, ak, st, in) /\ Restarting(stk, a, rs, un, in)
  BY DEF Typed, Fit
<1>2. ~st.on /\ ~un.on /\ rs.code \in Codes /\ a \in {"tail", "raising"}
  BY <1>1 DEF Typed, Restarting, Rewinding
<1>3. stk # <<>>
  BY <1>1, <1>2 DEF Stacked
<1>4. Stacked(stk2, "rewound") /\ Recalled(stk2, "rewound", ak)
  BY <1>1, <1>2, <1>3, AlikeKeeps
<1>5. Stepping(stk2, "rewound", ak, st, in2)
  BY <1>1, <1>2 DEF Stepping
<1>6. In(stk2, "rewound", ak, st, d) /\ Over(stk2, "rewound", ak, st) /\ Gone(stk2, "rewound", ak, st)
  BY <1>2 DEF In, Over, Gone
<1>7. Restarting(stk2, "rewound", rs2, un, in2)
  BY <1>2 DEF Restarting
<1>8. Unwinding(stk2, "rewound", un, in2) /\ Landed(stk2, "rewound", w, ak) /\ Seen(stk2, "rewound", ak)
  BY <1>2 DEF Unwinding, Landed, Seen
<1>9. QED
  BY <1>4, <1>5, <1>6, <1>7, <1>8 DEF Fit

\* A line of a frame above the target begins, and the frame is forced out.
LEMMA ForcedOutFits ==
    ASSUME NEW stk, NEW a, NEW w, NEW ak, NEW st, NEW rs, NEW un, NEW in, NEW d,
           Typed(stk, a, ak, st, rs, un, in), Fit(stk, a, w, ak, st, rs, un, in, d),
           un.on, a # "forced", Top(stk).id # un.target,
           NEW stk2 \in Seq(Frames), Alike(stk, stk2), NEW un2, Forced(un, Top(stk).id, un2)
    PROVE  Fit(stk2, "forced", w, ak, st, rs, un2, in, d)
<1>. un2.on /\ un2.target = un.target
  BY DEF Forced
<1>0. PICK gone \in 1..Len(un.above) :
        un.above[gone] = Top(stk).id /\ un2.above = SubSeq(un.above, gone + 1, Len(un.above))
  BY DEF Forced
<1> DEFINE n     == Len(stk)
           above == un.above
           m     == Len(above)
<1>1. /\ stk \in Seq(Frames) /\ Stacked(stk, a) /\ Recalled(stk, a, ak)
      /\ Stepping(stk, a, ak, st, in) /\ Unwinding(stk, a, un, in) /\ above \in Seq(Nat)
  BY DEF Typed, Fit, UnwindStates
<1>2. ~st.on /\ ~rs.on /\ a \in {"tail", "raising"}
  BY <1>1 DEF Typed, Unwinding
<1>3. stk # <<>>
  BY <1>1, <1>2 DEF Stacked
<1>4. /\ n \in Nat \ {0} /\ m \in Nat /\ gone \in 1..m /\ Top(stk) = stk[n]
      /\ Len(stk) = n /\ Len(above) = m /\ above[gone] = Top(stk).id
  BY <1>0, <1>1, <1>3, TopIs
<1>5. /\ Len(stk2) = n /\ Top(stk2).id = Top(stk).id
      /\ \A i \in 1..n : stk2[i].id = stk[i].id /\ stk2[i].code = stk[i].code
  BY <1>1, <1>3, AlikeIs DEF Alike
<1>6. Stacked(stk2, "forced") /\ Recalled(stk2, "forced", ak)
  BY <1>1, <1>2, <1>3, AlikeKeeps
<1>7. PICK p \in 1..n : ForcedFrom(stk, a, un, in, p)
  BY <1>1 DEF Unwinding
<1> HIDE DEF n, m
<1>8. p # n
  BY <1>4, <1>7 DEF ForcedFrom
<1>9. n \in (p + 1)..n /\ p \in Nat /\ n - p \in Nat
  BY <1>4, <1>8
<1>10. ASSUME NEW j \in (p + 1)..n PROVE m + 1 - (j - p) >= 1 /\ above[m + 1 - (j - p)] = stk[j].id
  BY <1>2, <1>4, <1>7 DEF ForcedFrom
<1>11. gone = m + 1 - (n - p)
  <2>1. m + 1 - (n - p) \in 1..m
    <3>1. m + 1 - (n - p) >= 1
      BY <1>9, <1>10
    <3>2. QED
      BY <1>4, <1>8, <3>1
  <2>2. above[m + 1 - (n - p)] = above[gone]
    BY <1>4, <1>9, <1>10
  <2>3. QED
    BY <1>1, <1>4, <2>1, <2>2 DEF Unwinding
<1>12. /\ Len(un2.above) = m - gone
       /\ \A k \in 1..(m - gone) : un2.above[k] = above[k + gone]
  <2>1. /\ Len(SubSeq(above, gone + 1, m)) = IF gone + 1 <= m THEN m - (gone + 1) + 1 ELSE 0
        /\ \A k \in 1..(m - (gone + 1) + 1) : SubSeq(above, gone + 1, m)[k] = above[gone + 1 + k - 1]
    <3>1. gone + 1 \in Int /\ m \in Int /\ \A k \in (gone + 1)..m : above[k] \in Nat
      <4>1. \A k \in (gone + 1)..m : k \in 1..m
        BY <1>4
      <4>2. \A k \in 1..m : above[k] \in Nat
        BY <1>1, <1>4
      <4>3. QED
        BY <1>4, <4>1, <4>2
    <3> HIDE DEF above
    <3>2. above \in Seq(Nat)
      BY <1>1 DEF above
    <3>3. QED
      BY <3>1, <3>2, SubSeqProperties, SMTT(30)
  <2>2. m - (gone + 1) + 1 = m - gone /\ \A k \in 1..(m - gone) : gone + 1 + k - 1 = k + gone
    BY <1>4
  <2>3. (IF gone + 1 <= m THEN m - (gone + 1) + 1 ELSE 0) = m - gone
    BY <1>4
  <2>4. un2.above = SubSeq(above, gone + 1, m)
    BY <1>0, <1>4
  <2>5. QED
    BY <2>1, <2>2, <2>3, <2>4
<1>13. m - gone = (n - p) - 1
  BY <1>4, <1>9, <1>11
<1>14. ForcedFrom(stk2, "forced", un2, in, p)
  <2>1. stk2[p].id = un2.target
    BY <1>5, <1>7 DEF ForcedFrom
  <2>2. \A j \in p..n : in.watching[stk2[j].code] = {"line"}
    <3>1. \A j \in p..n : j \in 1..n
      BY <1>4, <1>9
    <3>2. QED
      BY <1>4, <1>5, <1>7, <3>1 DEF ForcedFrom
  <2>3. ASSUME NEW j \in (p + 1)..n, j # n
        PROVE  LET k == Len(un2.above) + 1 - (j - p) IN k >= 1 /\ un2.above[k] = stk2[j].id
    <3>1. n - j \in 1..(m - gone) /\ (n - j) + gone = m + 1 - (j - p) /\ j \in 1..n
      BY <1>4, <1>9, <1>11, <1>13, <2>3
    <3>2. Len(un2.above) + 1 - (j - p) = n - j
      BY <1>4, <1>9, <1>12, <1>13, <2>3
    <3>3. un2.above[n - j] = stk[j].id
      BY <1>10, <1>12, <3>1
    <3>4. un2.above[Len(un2.above) + 1 - (j - p)] = stk2[j].id
      BY <1>5, <3>1, <3>2, <3>3
    <3>5. Len(un2.above) + 1 - (j - p) >= 1
      BY <3>1, <3>2
    <3>6. QED
      BY <3>4, <3>5
  <2>4. QED
    BY <1>5, <2>1, <2>2, <2>3 DEF ForcedFrom
<1>15. un2.target \notin ToSet(un2.above)
  <2>1. \A k \in 1..m : above[k] # un.target
    BY <1>1, <1>4 DEF Unwinding, ToSet
  <2>2. \A k \in 1..(m - gone) : k + gone \in 1..m
    BY <1>4
  <2>3. \A k \in 1..(m - gone) : un2.above[k] # un.target
    BY <1>12, <2>1, <2>2
  <2>4. un2.above \in Seq(Nat)
    <3>1. \A k \in (gone + 1)..m : above[k] \in Nat
      <4>1. \A k \in (gone + 1)..m : k \in 1..m
        BY <1>4
      <4>2. \A k \in 1..m : above[k] \in Nat
        BY <1>1, <1>4
      <4>3. QED
        BY <4>1, <4>2
    <3>2. gone + 1 \in Int /\ m \in Int
      BY <1>4
    <3>3. un2.above = SubSeq(above, gone + 1, m) /\ above \in Seq(Nat)
      BY <1>0, <1>1, <1>4
    <3> HIDE DEF above
    <3>4. SubSeq(above, gone + 1, m) \in Seq(Nat)
      BY <3>1, <3>2, <3>3, SubSeqProperties, SMTT(30)
    <3>5. QED
      BY <3>3, <3>4
  <2>5. ToSet(un2.above) = {un2.above[k] : k \in 1..Len(un2.above)}
    BY <2>4 DEF ToSet
  <2>6. QED
    BY <1>12, <2>3, <2>5
<1>16. ASSUME NEW i \in 1..Len(un2.above), NEW j \in 1..Len(un2.above), un2.above[i] = un2.above[j]
       PROVE  i = j
  <2>1. i \in 1..(m - gone) /\ j \in 1..(m - gone)
    BY <1>12
  <2>2. un2.above[i] = above[i + gone] /\ un2.above[j] = above[j + gone]
    BY <1>12, <2>1
  <2>. \A x \in 1..(m - gone) : x + gone \in 1..m
    BY <1>4
  <2>3. i + gone \in 1..m /\ j + gone \in 1..m
    BY <2>1
  <2>4. \A x, y \in 1..m : above[x] = above[y] => x = y
    BY <1>1, <1>4 DEF Unwinding
  <2>5. i + gone = j + gone
    BY <1>16, <2>2, <2>3, <2>4
  <2>6. QED
    BY <1>4, <2>1, <2>5
<1>17. Unwinding(stk2, "forced", un2, in)
  BY <1>5, <1>14, <1>15, <1>16 DEF Unwinding
<1>18. Stepping(stk2, "forced", ak, st, in)
  BY <1>1, <1>2 DEF Stepping
<1>19. In(stk2, "forced", ak, st, d) /\ Over(stk2, "forced", ak, st) /\ Gone(stk2, "forced", ak, st)
  BY <1>2 DEF In, Over, Gone
<1>20. Restarting(stk2, "forced", rs, un2, in)
  BY <1>2 DEF Restarting
<1>21. Landed(stk2, "forced", w, ak) /\ Seen(stk2, "forced", ak)
  BY DEF Landed, Seen
<1>22. QED
  BY <1>6, <1>17, <1>18, <1>19, <1>20, <1>21 DEF Fit

-----------------------------------------------------------------------------
(***************************************************************************)
(* The address of a new frame, and the first line.                         *)
(***************************************************************************)
\* A set of numbers that is not empty has a least one.
LEMMA HasLeast ==
    ASSUME NEW S \in SUBSET Nat, S # {} PROVE \E m \in S : \A n \in S : m <= n
<1> DEFINE less == {ss \in Nat \X Nat : ss[1] < ss[2]}
<1>1. IsWellFoundedOn(less, Nat)
  BY NatLessThanWellFounded DEF OpToRel
<1>2. PICK m \in S : \A n \in S : ~(<<n, m>> \in less)
  BY <1>1, WFMin
<1>3. ASSUME NEW n \in S PROVE m <= n
  <2>1. <<n, m>> \in Nat \X Nat /\ ~(n < m)
    BY <1>2
  <2>2. QED
    BY <2>1
<1>4. QED
  BY <1>2, <1>3

\* There is a first line when there is a line.
LEMMA FirstLineIs ==
    ASSUME Lines # {} PROVE FirstLine \in Lines /\ FirstLine \in Nat
<1>1. Lines \in SUBSET Nat
  BY StepsAssumption
<1>2. \E l \in Lines : \A m \in Lines : l <= m
  BY <1>1, HasLeast
<1>3. FirstLine \in Lines
  BY <1>2 DEF FirstLine
<1>4. QED
  BY <1>1, <1>3

\* A finite set of m elements at most.
Few(S, m) == IsFiniteSet(S) /\ Cardinality(S) \in Nat /\ Cardinality(S) <= m

\* One more element.
LEMMA OneMore ==
    ASSUME NEW S, NEW x, NEW m \in Nat, Few(S, m) PROVE Few(S \cup {x}, m + 1)
<1>1. IsFiniteSet(S) /\ Cardinality(S) \in Nat /\ Cardinality(S) <= m
  BY DEF Few
<1>2. /\ IsFiniteSet(S \cup {x})
      /\ Cardinality(S \cup {x}) = IF x \in S THEN Cardinality(S) ELSE Cardinality(S) + 1
  BY <1>1, FS_AddElement
<1>3. Cardinality(S \cup {x}) \in Nat /\ Cardinality(S \cup {x}) <= m + 1
  BY <1>1, <1>2
<1>4. QED
  BY <1>2, <1>3 DEF Few

\* There are fewer frames and operations than addresses.
LEMMA FreshIs ==
    ASSUME NEW t \in Threads, stack[t] \in Seq(Frames), Len(stack[t]) < Depth[t],
           session.unwind[t] = NoUnwind
    PROVE  /\ Fresh(t) \in Nat \ {0} /\ Fresh(t) \notin IdsOf(stack[t])
           /\ Fresh(t) # session.step[t].frame /\ Fresh(t) # asked[t].frame
<1> DEFINE stk   == stack[t]
           n     == Len(stk)
           ids   == IdsOf(stk)
           taken == ids \cup Referred(session, t)
           all   == 1..(Depth[t] + 6)
<1>1. n \in Nat /\ Depth[t] \in Nat /\ n < Depth[t] /\ Depth[t] + 6 \in Nat
  BY StepsAssumption
<1>2. Few(ids, n)
  <2> DEFINE f == [i \in 1..n |-> stk[i].id]
  <2>1. f \in Surjection(1..n, ids)
    BY DEF Surjection, IdsOf
  <2> HIDE DEF f, ids, n
  <2>2. IsFiniteSet(1..n) /\ Cardinality(1..n) = n
    <3>1. 1 \in Int /\ n \in Int /\ (IF 1 > n THEN 0 ELSE n - 1 + 1) = n
      BY <1>1
    <3>2. QED
      BY <3>1, FS_Interval
  <2>3. IsFiniteSet(ids) /\ Cardinality(ids) <= Cardinality(1..n)
    BY <2>1, <2>2, FS_Surjection
  <2>4. QED
    BY <2>2, <2>3, FS_CardinalityType DEF Few
<1>3. Few(taken, n + 5)
  <2> DEFINE s1 == ids \cup {session.step[t].frame}
             s2 == s1 \cup {session.restart[t].caller}
             s3 == s2 \cup {session.restart[t].frame}
             s4 == s3 \cup {session.unwind[t].target}
             s5 == s4 \cup {asked[t].frame}
  <2>1. taken = s5
    BY DEF Referred, NoUnwind, ToSet
  <2> HIDE DEF ids, taken, n
  <2>2. /\ n + 1 \in Nat /\ (n + 1) + 1 \in Nat /\ ((n + 1) + 1) + 1 \in Nat
        /\ (((n + 1) + 1) + 1) + 1 \in Nat /\ ((((n + 1) + 1) + 1) + 1) + 1 = n + 5
    BY <1>1
  <2>3. Few(s1, n + 1)
    BY <1>1, <1>2, OneMore
  <2> HIDE DEF s1
  <2>4. Few(s2, (n + 1) + 1)
    BY <2>2, <2>3, OneMore
  <2> HIDE DEF s2
  <2>5. Few(s3, ((n + 1) + 1) + 1)
    BY <2>2, <2>4, OneMore
  <2> HIDE DEF s3
  <2>6. Few(s4, (((n + 1) + 1) + 1) + 1)
    BY <2>2, <2>5, OneMore
  <2> HIDE DEF s4
  <2>7. Few(s5, ((((n + 1) + 1) + 1) + 1) + 1)
    BY <2>2, <2>6, OneMore
  <2> HIDE DEF s5
  <2>8. QED
    BY <2>1, <2>2, <2>7
<1>4. IsFiniteSet(taken) /\ Cardinality(taken) \in Nat /\ Cardinality(taken) <= n + 5
  BY <1>3 DEF Few
<1>5. ~(all \subseteq taken)
  <2>1. Cardinality(all) = Depth[t] + 6
    <3>1. 1 \in Int /\ Depth[t] + 6 \in Int /\ ~(1 > Depth[t] + 6) /\ Depth[t] + 6 - 1 + 1 = Depth[t] + 6
      BY <1>1
    <3>2. QED
      BY <3>1, FS_Interval
  <2> HIDE DEF all, taken, n
  <2>2. all \subseteq taken => Cardinality(all) <= Cardinality(taken)
    BY <1>4, FS_Subset
  <2>3. QED
    BY <1>1, <1>4, <2>1, <2>2
<1>6. PICK id \in all \ taken : \A m \in all \ taken : id <= m
  <2>1. all \ taken \in SUBSET Nat /\ all \ taken # {}
    BY <1>1, <1>5
  <2>2. QED
    BY <2>1, HasLeast
<1>7. \A low \in 1..(id - 1) : low \in taken
  <2>1. SUFFICES ASSUME NEW low \in 1..(id - 1), low \notin taken PROVE FALSE
    OBVIOUS
  <2>2. id \in all /\ low \in all /\ ~(id <= low)
    <3> HIDE DEF taken
    <3>1. QED
      BY <1>1
  <2>3. QED
    BY <1>6, <2>1, <2>2
<1>8. \E x \in all : x \notin taken /\ \A low \in 1..(x - 1) : low \in taken
  BY <1>6, <1>7
<1>9. Fresh(t) \in all /\ Fresh(t) \notin taken
  BY <1>8 DEF Fresh
<1>10. Fresh(t) \in Nat \ {0}
  BY <1>1, <1>9
<1>11. QED
  BY <1>9, <1>10 DEF Referred

-----------------------------------------------------------------------------
(***************************************************************************)
(* One thread moves, and the others stay as they are.                      *)
(***************************************************************************)
\* What is offered less than before is not what an operation waits for.
Forgets(s, r, t) ==
    \/ r.disabled = {}
    \/ /\ r.interest[t].held => s.interest[t].held
       /\ \/ r.disabled = s.disabled
          \/ ~EnteringAnywhere(r) /\ \E c \in Codes : r.disabled = s.disabled \cup {<<c, 0>>}
          \/ ~ArmedAnywhere(r) /\ \E c \in Codes, l \in Lines : r.disabled = s.disabled \cup {<<c, l>>}

\* One thread moves, and its session with it: the invariant is kept when
\* what that thread has fits, whatever the other threads do.
LEMMA Moves ==
    ASSUME IndInv, NEW t \in Threads, NEW stk2 \in Seq(Frames), NEW a2 \in Places, NEW w2 \in Reasons,
           NEW ak2 \in Asks, NEW st2, NEW rs2, NEW un2, NEW in2,
           stack' = [stack EXCEPT ![t] = stk2], at' = [at EXCEPT ![t] = a2],
           why' = [why EXCEPT ![t] = w2], asked' = [asked EXCEPT ![t] = ak2],
           NEW h2 \in {"line", "mid", "raising", "leaving"}, after' = [after EXCEPT ![t] = h2],
           a2 = "held" /\ h2 = "line" => Lines # {},
           left' \in [asks : Nat, pauses : Nat], Len(stk2) <= Depth[t],
           Kept(session'), Becomes(session, session', t, st2, rs2, un2, in2),
           Forgets(session, session', t),
           Fit(stk2, a2, w2, ak2, st2, rs2, un2, in2, session'.disabled)
    PROVE  IndInv'
<1> DEFINE r == session'
<1>1. Shape /\ Kept(session) /\ session \in Sessions /\ Offering /\ \A u \in Threads : Fits(u)
  BY DEF IndInv, Kept
<1>2. Shape'
  BY <1>1 DEF Shape
<1>3. /\ r.step[t] = st2 /\ r.restart[t] = rs2 /\ r.unwind[t] = un2 /\ r.interest[t] = in2
      /\ \A u \in Threads \ {t} : /\ r.step[u] = session.step[u] /\ r.restart[u] = session.restart[u]
                                  /\ r.unwind[u] = session.unwind[u] /\ r.interest[u] = session.interest[u]
  BY <1>1, BecomesAt
<1>4. Lines \subseteq Nat \ {0}
  BY StepsAssumption
<1>5. Offering'
  <2>1. SUFFICES ASSUME ArmedAnywhere(r), NEW c \in Codes, NEW l \in Lines, <<c, l>> \in r.disabled PROVE FALSE
    BY DEF Offering
  <2>2. r.interest[t].held => session.interest[t].held
    BY <2>1 DEF Forgets
  <2>3. ArmedAnywhere(session)
    BY <1>3, <2>1, <2>2 DEF ArmedAnywhere
  <2>4. <<c, l>> \notin session.disabled
    BY <1>1, <2>3 DEF Offering
  <2>5. \A x \in Codes : <<c, l>> # <<x, 0>>
    BY <1>4
  <2>6. QED
    BY <2>1, <2>4, <2>5 DEF Forgets
<1>6. ASSUME NEW u \in Threads, u # t PROVE Fits(u)'
  <2>1. /\ stack'[u] = stack[u] /\ at'[u] = at[u] /\ why'[u] = why[u] /\ asked'[u] = asked[u]
        /\ r.step[u] = session.step[u] /\ r.restart[u] = session.restart[u]
        /\ r.unwind[u] = session.unwind[u] /\ r.interest[u] = session.interest[u]
    BY <1>1, <1>3, <1>6 DEF Shape
  <2>2. Tidy(r, u)
    BY DEF Kept
  <2>3. ASSUME r.step[u].on, r.step[u].entering, NEW c \in Codes, <<c, 0>> \in r.disabled
        PROVE  <<c, 0>> \in session.disabled
    <3>1. EnteringAnywhere(r)
      BY <2>2, <2>3 DEF Tidy, EnteringAnywhere
    <3>2. \A x \in Codes, l \in Lines : <<c, 0>> # <<x, l>>
      BY <1>4
    <3>3. QED
      BY <2>3, <3>1, <3>2 DEF Forgets
  <2>4. /\ Len(stack[u]) <= Depth[u]
        /\ Fit(stack[u], at[u], why[u], asked[u], session.step[u], session.restart[u],
               session.unwind[u], session.interest[u], session.disabled)
    BY <1>1 DEF Fits
  <2>5. Fit(stack[u], at[u], why[u], asked[u], session.step[u], session.restart[u],
            session.unwind[u], session.interest[u], r.disabled)
    BY <2>1, <2>3, <2>4, OfferedFits
  <2>6. QED
    BY <2>1, <2>4, <2>5 DEF Fits
<1>7. Fits(t)'
  <2>1. stack'[t] = stk2 /\ at'[t] = a2 /\ why'[t] = w2 /\ asked'[t] = ak2
    BY <1>1 DEF Shape
  <2>2. QED
    BY <1>3, <2>1 DEF Fits
<1>8. QED
  BY <1>2, <1>5, <1>6, <1>7 DEF IndInv

\* The budgets stay numbers.
LEMMA LeftIs ==
    ASSUME NEW b \in [asks : Nat, pauses : Nat]
    PROVE  /\ b.pauses > 0 => [b EXCEPT !.pauses = @ - 1] \in [asks : Nat, pauses : Nat]
           /\ b.asks > 0 => [b EXCEPT !.asks = @ - 1] \in [asks : Nat, pauses : Nat]
<1>1. b.pauses \in Nat /\ b.asks \in Nat
  OBVIOUS
<1>2. (b.pauses > 0 => b.pauses - 1 \in Nat) /\ (b.asks > 0 => b.asks - 1 \in Nat)
  BY <1>1
<1>3. ASSUME NEW n \in Nat
      PROVE  /\ [b EXCEPT !.pauses = n] \in [asks : Nat, pauses : Nat]
             /\ [b EXCEPT !.asks = n] \in [asks : Nat, pauses : Nat]
  OBVIOUS
<1>4. QED
  BY <1>2, <1>3

\* A pause is asked for.
LEMMA AskPauseKeeps ==
    ASSUME IndInv, AskPause PROVE IndInv'
<1>1. Shape /\ Kept(session) /\ Offering /\ \A u \in Threads : Fits(u)
  BY DEF IndInv
<1>2. Shape'
  <2>1. left' \in [asks : Nat, pauses : Nat]
    BY <1>1, LeftIs DEF AskPause, Shape
  <2>2. QED
    BY <1>1, <2>1 DEF AskPause, Shape
<1>3. /\ Kept(session') /\ session'.step = session.step /\ session'.restart = session.restart
      /\ session'.unwind = session.unwind /\ session'.interest = session.interest
      /\ session'.disabled = session.disabled
  BY <1>1, PausingIs DEF AskPause
<1>4. Offering'
  BY <1>1, <1>3 DEF Offering, ArmedAnywhere
<1>5. ASSUME NEW u \in Threads PROVE Fits(u)'
  BY <1>1, <1>3 DEF AskPause, Fits
<1>6. QED
  BY <1>2, <1>3, <1>4, <1>5 DEF IndInv

-----------------------------------------------------------------------------
(***************************************************************************)
(* A held thread is let go, or moved where it stands.                      *)
(***************************************************************************)
\* A function that is given the value it has is the same.
LEMMA SameAt ==
    ASSUME NEW S, NEW T, NEW f \in [S -> T], NEW t \in S PROVE [f EXCEPT ![t] = f[t]] = f
OBVIOUS

\* What the invariant says of one thread.
LEMMA AtIs ==
    ASSUME IndInv, NEW t \in Threads
    PROVE  /\ Typed(stack[t], at[t], asked[t], session.step[t], session.restart[t], session.unwind[t],
                    session.interest[t])
           /\ Fit(stack[t], at[t], why[t], asked[t], session.step[t], session.restart[t],
                  session.unwind[t], session.interest[t], session.disabled)
           /\ Len(stack[t]) <= Depth[t] /\ Kept(session) /\ session \in Sessions
           /\ One(session, t) /\ Tidy(session, t) /\ stack[t] \in Seq(Frames) /\ at[t] \in Places
           /\ asked[t] \in Asks /\ why[t] \in Reasons /\ after[t] \in {"line", "mid", "raising", "leaving"}
           /\ stack \in [Threads -> Seq(Frames)] /\ at \in [Threads -> Places]
           /\ after \in [Threads -> {"line", "mid", "raising", "leaving"}]
           /\ asked \in [Threads -> Asks] /\ left \in [asks : Nat, pauses : Nat] /\ why \in [Threads -> Reasons]
<1>1. /\ Shape /\ Kept(session) /\ Fits(t) /\ session \in Sessions
      /\ One(session, t) /\ Tidy(session, t)
  BY DEF IndInv, Kept
<1>2. /\ stack[t] \in Seq(Frames) /\ at[t] \in Places /\ asked[t] \in Asks /\ why[t] \in Reasons
      /\ after[t] \in {"line", "mid", "raising", "leaving"}
  BY <1>1 DEF Shape
<1>3. /\ session.step[t] \in StepStates /\ session.restart[t] \in RestartStates
      /\ session.unwind[t] \in UnwindStates /\ session.interest[t] \in Interests
  BY <1>1 DEF Sessions
<1>4. Typed(stack[t], at[t], asked[t], session.step[t], session.restart[t], session.unwind[t],
            session.interest[t])
  BY <1>1, <1>2, <1>3 DEF Typed, One
<1>5. QED
  BY <1>1, <1>2, <1>4 DEF Fits, Shape

\* A held thread has frames, and nothing armed.
LEMMA HeldIs ==
    ASSUME IndInv, NEW t \in Threads, at[t] = "held"
    PROVE  Idle(session, t) /\ stack[t] # <<>> /\ Stacked(stack[t], "held") /\ Top(stack[t]) \in Frames
<1>1. /\ Stacked(stack[t], at[t])
      /\ Stepping(stack[t], at[t], asked[t], session.step[t], session.interest[t])
      /\ Restarting(stack[t], at[t], session.restart[t], session.unwind[t], session.interest[t])
      /\ Unwinding(stack[t], at[t], session.unwind[t], session.interest[t])
  BY AtIs DEF Fit
<1>2. Idle(session, t)
  BY <1>1 DEF Idle, Stepping, Restarting, Unwinding
<1>3. stack[t] # <<>>
  BY <1>1 DEF Stacked
<1>4. Top(stack[t]) \in Frames
  BY <1>3, AtIs, TopIs
<1>5. QED
  BY <1>1, <1>2, <1>3, <1>4

\* A session that is told again, or whose pause is asked for or not.
LEMMA AlsoBecomes ==
    ASSUME NEW s \in Sessions, NEW t \in Threads, NEW r, r.step = s.step, r.restart = s.restart,
           r.unwind = s.unwind, r.interest = s.interest
    PROVE  /\ Becomes(s, r, t, s.step[t], s.restart[t], s.unwind[t], s.interest[t])
           /\ \A st, rs, un, in, q : Becomes(r, q, t, st, rs, un, in) => Becomes(s, q, t, st, rs, un, in)
BY DEF Becomes, Sessions

\* A held thread goes on.
LEMMA ResumeKeeps ==
    ASSUME IndInv, NEW t \in Threads, Resume(t) PROVE IndInv'
<1> DEFINE a2 == IF after[t] = "line" THEN "mid" ELSE after[t]
<1>1. /\ stack' = stack /\ at' = [at EXCEPT ![t] = a2] /\ after' = after /\ why' = why /\ left' = left
      /\ asked' = [asked EXCEPT ![t] = NotAsked] /\ session' = RefreshEvents(session) /\ at[t] = "held"
  BY DEF Resume, Onward
<1>2. /\ Len(stack[t]) <= Depth[t] /\ Kept(session) /\ session \in Sessions
      /\ stack[t] \in Seq(Frames) /\ why[t] \in Reasons /\ after[t] \in {"line", "mid", "raising", "leaving"}
      /\ left \in [asks : Nat, pauses : Nat]
      /\ stack = [stack EXCEPT ![t] = stack[t]] /\ after = [after EXCEPT ![t] = after[t]]
      /\ why = [why EXCEPT ![t] = why[t]]
  BY AtIs, SameAt
<1>3. Idle(session, t) /\ stack[t] # <<>> /\ Stacked(stack[t], "held")
  BY <1>1, HeldIs
<1>4. a2 \in {"mid", "raising", "leaving"} /\ a2 \in Places
  BY <1>2 DEF Places
<1>5. /\ Kept(session') /\ session'.disabled = session.disabled /\ session'.interest = session.interest
      /\ session'.step = session.step /\ session'.restart = session.restart /\ session'.unwind = session.unwind
  BY <1>1, <1>2, RefreshedIs
<1>6. Becomes(session, session', t, session.step[t], session.restart[t], session.unwind[t], session.interest[t])
  BY <1>2, <1>5, AlsoBecomes
<1>7. Forgets(session, session', t)
  BY <1>5 DEF Forgets
<1> HIDE DEF a2
<1>8. /\ NotAsked \in Asks
      /\ Fit(stack[t], a2, why[t], NotAsked, session.step[t], session.restart[t], session.unwind[t],
             session.interest[t], session'.disabled)
  <2>1. /\ Stacked(stack[t], a2) /\ ~session.step[t].on
        /\ Restarting(stack[t], a2, session.restart[t], session.unwind[t], session.interest[t])
        /\ Unwinding(stack[t], a2, session.unwind[t], session.interest[t])
    BY <1>3, <1>4 DEF Stacked, Idle, Restarting, Unwinding
  <2>2. QED
    BY <1>4, <2>1, UnaskedFits
<1>9. QED
  BY <1>1, <1>2, <1>4, <1>5, <1>6, <1>7, <1>8, Moves

\* A held thread is let go with a step.
LEMMA StepKeeps ==
    ASSUME IndInv, NEW t \in Threads, NEW kind \in {"over", "in", "out"}, NEW target \in Calls \cup {0},
           Step(t, kind, target)
    PROVE  IndInv'
<1> DEFINE a2  == IF after[t] = "line" THEN "mid" ELSE after[t]
           stk == stack[t]
           f   == Top(stk)
           lv  == after[t] = "leaving"
           ak2 == AskedFor(stk, kind, target, lv)
           st2 == ArmedStep(f, kind, target)
           in2 == ArmedInterest(stk, kind)
           s1  == RefreshEvents(session)
<1>1. /\ stack' = stack /\ at' = [at EXCEPT ![t] = a2] /\ after' = after /\ why' = why
      /\ asked' = [asked EXCEPT ![t] = ak2] /\ session' = StepArm(s1, t, kind, target) /\ at[t] = "held"
      /\ left' = [left EXCEPT !.asks = @ - 1] /\ left.asks > 0
  BY DEF Step, Asking, Onward, AskedFor
<1>2. /\ Len(stk) <= Depth[t] /\ Kept(session) /\ session \in Sessions
      /\ stk \in Seq(Frames) /\ why[t] \in Reasons /\ after[t] \in {"line", "mid", "raising", "leaving"}
      /\ left \in [asks : Nat, pauses : Nat]
      /\ stack = [stack EXCEPT ![t] = stk] /\ after = [after EXCEPT ![t] = after[t]]
      /\ why = [why EXCEPT ![t] = why[t]]
  BY AtIs, SameAt
<1>3. Idle(session, t) /\ stk # <<>> /\ Stacked(stk, "held") /\ f \in Frames
  BY <1>1, HeldIs
<1>4. a2 \in {"mid", "raising", "leaving"} /\ a2 \in Places
  BY <1>2 DEF Places
<1>5. left' \in [asks : Nat, pauses : Nat]
  BY <1>1, <1>2, LeftIs
<1>6. target \in Nat
  BY StepsAssumption
<1>7. /\ Kept(s1) /\ s1.interest = session.interest /\ s1.step = session.step
      /\ s1.restart = session.restart /\ s1.unwind = session.unwind
  BY <1>2, RefreshedIs
<1> HIDE DEF a2, s1
<1>8. Idle(s1, t)
  BY <1>3, <1>7 DEF Idle
<1>9. /\ Kept(session') /\ session'.disabled = {}
      /\ Becomes(s1, session', t, st2, s1.restart[t], s1.unwind[t], in2)
  BY <1>1, <1>3, <1>6, <1>7, <1>8, StepArmIs DEF ArmedInterest
<1>10. Becomes(session, session', t, st2, session.restart[t], session.unwind[t], in2)
  BY <1>2, <1>7, <1>9, AlsoBecomes
<1>11. Forgets(session, session', t)
  BY <1>9 DEF Forgets
<1>12. /\ ak2 \in Asks
       /\ Fit(stk, a2, why[t], ak2, st2, session.restart[t], session.unwind[t], in2, session'.disabled)
  <2>1. ~session.restart[t].on /\ ~session.unwind[t].on /\ Stacked(stk, "held")
    BY <1>3 DEF Idle
  <2>2. /\ lv \in BOOLEAN /\ (lv <=> a2 = "leaving")
        /\ stk \in Seq(Frames) /\ stk # <<>> /\ target \in Nat
    BY <1>2, <1>3, <1>6 DEF a2
  <2> HIDE DEF stk, lv
  <2>. ak2 \in Asks /\ Fit(stk, a2, why[t], ak2, st2, session.restart[t], session.unwind[t], in2, {})
    BY <1>4, <2>1, <2>2, ArmedStepFits
  <2>3. QED
    BY <1>9
<1> HIDE DEF st2, in2, ak2, stk
<1>13. QED
  BY <1>1, <1>2, <1>4, <1>5, <1>9, <1>10, <1>11, <1>12, Moves

\* A held thread restarts its innermost frame.
LEMMA RestartFrameKeeps ==
    ASSUME IndInv, NEW t \in Threads, RestartFrame(t) PROVE IndInv'
<1> DEFINE stk == stack[t]
           rs2 == ArmedRestart(stk)
           in2 == WatchingLines({Caller(stk).code})
<1>1. /\ stack' = stack /\ at' = [at EXCEPT ![t] = "forced"] /\ after' = after /\ why' = why
      /\ asked' = [asked EXCEPT ![t] = NotAsked] /\ session' = RestartArm(session, t, stk) /\ at[t] = "held"
      /\ left' = [left EXCEPT !.asks = @ - 1] /\ left.asks > 0 /\ Len(stk) > 1
  BY DEF RestartFrame, Asking
<1>2. /\ Len(stk) <= Depth[t] /\ Kept(session) /\ session \in Sessions
      /\ stk \in Seq(Frames) /\ why[t] \in Reasons /\ after[t] \in {"line", "mid", "raising", "leaving"}
      /\ left \in [asks : Nat, pauses : Nat]
      /\ stack = [stack EXCEPT ![t] = stk] /\ after = [after EXCEPT ![t] = after[t]]
      /\ why = [why EXCEPT ![t] = why[t]]
  BY AtIs, SameAt
<1>3. Idle(session, t) /\ Stacked(stk, "held")
  BY <1>1, HeldIs
<1>4. left' \in [asks : Nat, pauses : Nat]
  BY <1>1, <1>2, LeftIs
<1>5. "forced" \in Places
  BY DEF Places
<1>6. /\ Kept(session') /\ session'.disabled = {}
      /\ Becomes(session, session', t, session.step[t], rs2, session.unwind[t], in2)
  BY <1>1, <1>2, <1>3, RestartArmIs
<1>7. Forgets(session, session', t)
  BY <1>6 DEF Forgets
<1>8. NotAsked \in Asks
  BY DEF NotAsked, Asks, Kinds
<1>9. Fit(stk, "forced", why[t], NotAsked, session.step[t], rs2, session.unwind[t], in2, session'.disabled)
  BY <1>1, <1>2, <1>3, ArmedRestartFits DEF Idle
<1> HIDE DEF stk, rs2, in2
<1>10. QED
  BY <1>1, <1>2, <1>4, <1>5, <1>6, <1>7, <1>8, <1>9, Moves

\* A held thread restarts a frame further down.
LEMMA UnwindToKeeps ==
    ASSUME IndInv, NEW t \in Threads, NEW i \in 1..(Len(stack[t]) - 1), UnwindTo(t, i) PROVE IndInv'
<1> DEFINE stk == stack[t]
           un2 == ArmedUnwind(stk, i)
           in2 == WatchingLines(CodesFrom(stk, i))
<1>1. /\ stack' = stack /\ at' = [at EXCEPT ![t] = "forced"] /\ after' = after /\ why' = why
      /\ asked' = [asked EXCEPT ![t] = NotAsked] /\ session' = UnwindArm(session, t, stk, i) /\ at[t] = "held"
      /\ left' = [left EXCEPT !.asks = @ - 1] /\ left.asks > 0
  BY DEF UnwindTo, Asking
<1>2. /\ Len(stk) <= Depth[t] /\ Kept(session) /\ session \in Sessions
      /\ stk \in Seq(Frames) /\ why[t] \in Reasons /\ after[t] \in {"line", "mid", "raising", "leaving"}
      /\ left \in [asks : Nat, pauses : Nat]
      /\ stack = [stack EXCEPT ![t] = stk] /\ after = [after EXCEPT ![t] = after[t]]
      /\ why = [why EXCEPT ![t] = why[t]]
  BY AtIs, SameAt
<1>3. Idle(session, t) /\ Stacked(stk, "held")
  BY <1>1, HeldIs
<1>4. left' \in [asks : Nat, pauses : Nat]
  BY <1>1, <1>2, LeftIs
<1>5. "forced" \in Places
  BY DEF Places
<1>6. /\ Kept(session') /\ session'.disabled = {}
      /\ Becomes(session, session', t, session.step[t], session.restart[t], un2, in2)
  BY <1>1, <1>2, <1>3, UnwindArmIs
<1>7. Forgets(session, session', t)
  BY <1>6 DEF Forgets
<1>8. NotAsked \in Asks
  BY DEF NotAsked, Asks, Kinds
<1>9. Fit(stk, "forced", why[t], NotAsked, session.step[t], session.restart[t], un2, in2, session'.disabled)
  BY <1>2, <1>3, ArmedUnwindFits DEF Idle
<1> HIDE DEF stk, un2, in2
<1>10. QED
  BY <1>1, <1>2, <1>4, <1>5, <1>6, <1>7, <1>8, <1>9, Moves

\* A held thread is moved to the first line of its frame.
LEMMA ResetInPlaceKeeps ==
    ASSUME IndInv, NEW t \in Threads, ResetInPlace(t) PROVE IndInv'
<1> DEFINE stk  == stack[t]
           stk2 == [stk EXCEPT ![Len(stk)].line = FirstLine]
<1>1. /\ stack' = [stack EXCEPT ![t] = stk2] /\ at' = at /\ after' = after /\ why' = why
      /\ asked' = asked /\ session' = session /\ at[t] = "held" /\ after[t] = "line"
      /\ left' = [left EXCEPT !.asks = @ - 1] /\ left.asks > 0
  <2>1. stack' = [stack EXCEPT ![t][Len(stk)].line = FirstLine] /\ stack \in [Threads -> Seq(Frames)]
    BY AtIs DEF ResetInPlace
  <2>2. stack' = [stack EXCEPT ![t] = stk2]
    BY <2>1
  <2>3. QED
    BY <2>2 DEF ResetInPlace, Asking
<1>2. /\ Len(stk) <= Depth[t] /\ Kept(session) /\ session \in Sessions
      /\ stk \in Seq(Frames) /\ at[t] \in Places /\ asked[t] \in Asks /\ why[t] \in Reasons
      /\ after[t] \in {"line", "mid", "raising", "leaving"} /\ left \in [asks : Nat, pauses : Nat]
      /\ at = [at EXCEPT ![t] = at[t]] /\ after = [after EXCEPT ![t] = after[t]]
      /\ why = [why EXCEPT ![t] = why[t]] /\ asked = [asked EXCEPT ![t] = asked[t]]
      /\ Fit(stk, at[t], why[t], asked[t], session.step[t], session.restart[t],
             session.unwind[t], session.interest[t], session.disabled)
  BY AtIs, SameAt
<1>3. Idle(session, t) /\ stk # <<>>
  BY <1>1, HeldIs
<1>4. left' \in [asks : Nat, pauses : Nat]
  BY <1>1, <1>2, LeftIs
<1>5. Lines # {} /\ FirstLine \in Nat
  <2>1. Lines # {}
    BY <1>1 DEF IndInv, Shape
  <2>2. QED
    BY <2>1, FirstLineIs
<1>6. stk2 \in Seq(Frames) /\ Alike(stk, stk2) /\ Len(stk2) <= Depth[t]
  <2>1. stk2 \in Seq(Frames) /\ Alike(stk, stk2)
    BY <1>2, <1>3, <1>5, BegunIs
  <2> HIDE DEF stk2
  <2>2. QED
    BY <1>2, <2>1 DEF Alike
<1> HIDE DEF stk, stk2
<1>7. Becomes(session, session', t, session.step[t], session.restart[t], session.unwind[t], session.interest[t])
  BY <1>1, <1>2, AlsoBecomes
<1>8. Forgets(session, session', t)
  BY <1>1 DEF Forgets
<1>9. Fit(stk2, at[t], why[t], asked[t], session.step[t], session.restart[t],
          session.unwind[t], session.interest[t], session'.disabled)
  BY <1>1, <1>2, <1>3, <1>6, ResetFits DEF Idle
<1>10. QED
  BY <1>1, <1>2, <1>4, <1>5, <1>6, <1>7, <1>8, <1>9, Moves

-----------------------------------------------------------------------------
(***************************************************************************)
(* A callback of a thread: it is held, or it runs on.                      *)
(***************************************************************************)
\* A thread is held, for its step only where that lands.
LEMMA HeldKeeps ==
    ASSUME IndInv, NEW t \in Threads, at[t] \notin {"leaving", "over"}, NEW stk2 \in Seq(Frames),
           Alike(stack[t], stk2), stack' = [stack EXCEPT ![t] = stk2], NEW w2 \in Reasons,
           NEW place \in {"line", "mid", "raising", "leaving"}, place = "line" => Lines # {},
           Stop(t, w2, place), Kept(session'), NEW in2,
           Becomes(session, session', t, NoStep, NoRestart, NoUnwind, in2),
           session'.disabled = session.disabled,
           \/ w2 # "stepped"
           \/ \E event \in {"line", "instruction"} : Lands(stk2, event, session.step[t])
    PROVE  IndInv'
<1>1. /\ at' = [at EXCEPT ![t] = "held"] /\ after' = [after EXCEPT ![t] = place]
      /\ why' = [why EXCEPT ![t] = w2] /\ asked' = asked /\ left' = left /\ "held" \in Places
  BY DEF Stop, Places
<1>2. /\ Typed(stack[t], at[t], asked[t], session.step[t], session.restart[t], session.unwind[t],
               session.interest[t])
      /\ Fit(stack[t], at[t], why[t], asked[t], session.step[t], session.restart[t],
             session.unwind[t], session.interest[t], session.disabled)
      /\ Len(stack[t]) <= Depth[t] /\ session \in Sessions /\ left \in [asks : Nat, pauses : Nat]
      /\ asked[t] \in Asks /\ asked = [asked EXCEPT ![t] = asked[t]]
  BY AtIs, SameAt
<1>3. Len(stk2) <= Depth[t]
  BY <1>2 DEF Alike
<1>4. Forgets(session, session', t)
  <2>1. session'.step[t] = NoStep /\ session'.restart[t] = NoRestart /\ session'.unwind[t] = NoUnwind
    BY <1>2, BecomesAt
  <2>2. One(session', t)
    BY DEF Kept
  <2>3. ~session'.interest[t].held
    BY <2>1, <2>2 DEF One, NoStep, NoRestart, NoUnwind
  <2>4. QED
    BY <2>3 DEF Forgets
<1>5. Fit(stk2, "held", w2, asked[t], NoStep, NoRestart, NoUnwind, in2, session'.disabled)
  <2>1. CASE w2 # "stepped"
    BY <1>2, <2>1, HeldFits
  <2>2. CASE w2 = "stepped"
    <3>1. PICK event \in {"line", "instruction"} : Lands(stk2, event, session.step[t])
      BY <2>2
    <3>2. QED
      BY <1>2, <2>2, <3>1, LandedFits
  <2>3. QED
    BY <2>1, <2>2
<1>6. QED
  BY <1>1, <1>2, <1>3, <1>4, <1>5, Moves

\* A thread runs past an event where its step does not land.
LEMMA PassedKeeps ==
    ASSUME IndInv, NEW t \in Threads, at[t] \notin {"leaving", "over", "held"}, NEW stk2 \in Seq(Frames),
           Alike(stack[t], stk2), stack' = [stack EXCEPT ![t] = stk2], NEW a2,
           NEW event \in {"line", "instruction"},
           \/ event = "line" /\ a2 = "line" /\ at[t] # "returned" /\ Top(stk2).line # 0
           \/ event = "instruction" /\ a2 = "past" /\ at[t] = "returned",
           RunOn(t, a2), Kept(session'), NEW st2, NEW in2,
           Becomes(session, session', t, st2, session.restart[t], session.unwind[t], in2),
           Forgets(session, session', t),
           \A c \in Codes : <<c, 0>> \in session'.disabled => <<c, 0>> \in session.disabled,
           ReachStep(stk2, event, session.step[t], session.interest[t], st2, in2),
           ~Lands(stk2, event, session.step[t]),
           ~session.unwind[t].on, session.restart[t].on => session.restart[t].phase = "entering"
    PROVE  IndInv'
<1>1. /\ at' = [at EXCEPT ![t] = a2] /\ after' = after
      /\ why' = why /\ asked' = asked /\ left' = left /\ a2 \in Places /\ a2 # "held"
  BY DEF RunOn, Places
<1>2. /\ Typed(stack[t], at[t], asked[t], session.step[t], session.restart[t], session.unwind[t],
               session.interest[t])
      /\ Fit(stack[t], at[t], why[t], asked[t], session.step[t], session.restart[t],
             session.unwind[t], session.interest[t], session.disabled)
      /\ Len(stack[t]) <= Depth[t] /\ session \in Sessions /\ left \in [asks : Nat, pauses : Nat]
      /\ asked[t] \in Asks /\ why[t] \in Reasons /\ after[t] \in {"line", "mid", "raising", "leaving"}
      /\ asked = [asked EXCEPT ![t] = asked[t]] /\ why = [why EXCEPT ![t] = why[t]]
      /\ after = [after EXCEPT ![t] = after[t]]
  BY AtIs, SameAt
<1>3. Len(stk2) <= Depth[t]
  BY <1>2 DEF Alike
<1>4. Fit(stk2, a2, why[t], asked[t], st2, session.restart[t], session.unwind[t], in2, session.disabled)
  BY <1>2, PassedFits
<1>5. Fit(stk2, a2, why[t], asked[t], st2, session.restart[t], session.unwind[t], in2, session'.disabled)
  BY <1>4, OfferedFits
<1>6. QED
  BY <1>1, <1>2, <1>3, <1>5, Moves

\* What is watched for a thread the interpreter tells of.
LEMMA WatchedIsTold ==
    ASSUME NEW s, Kept(s), NEW t \in Threads, NEW c \in Codes
    PROVE  s.interest[t].watching[c] \subseteq s.local[c]
BY DEF Kept, LocalMasked, LocalWanted

\* What is armed waits for an event of the innermost frame that is told of.
LEMMA WaitsAreTold ==
    ASSUME IndInv, NEW t \in Threads, stack[t] # <<>>, at[t] # "forced"
    PROVE  LET stk == stack[t]
               st  == session.step[t]
               rs  == session.restart[t]
               un  == session.unwind[t]
               c   == Top(stk).code
           IN  /\ un.on => /\ "line" \in session.local[c]
                           /\ Top(stk).id \in {un.target} \cup ToSet(un.above)
               /\ rs.on /\ rs.phase = "rewinding" => "line" \in session.local[c] /\ Top(stk).id = rs.caller
               /\ rs.on /\ rs.phase = "landing" => "line" \in session.local[c] /\ Top(stk).id = rs.frame
               /\ \A event \in {"line", "instruction"} : Waits(stk, event, st) => event \in session.local[c]
               /\ st.on /\ Top(stk).id = st.frame => "return" \in session.local[c]
<1> DEFINE stk == stack[t]
           st  == session.step[t]
           rs  == session.restart[t]
           un  == session.unwind[t]
           in  == session.interest[t]
           n   == Len(stk)
           c   == Top(stk).code
<1>1. /\ stk \in Seq(Frames) /\ Kept(session) /\ Stepping(stk, at[t], asked[t], st, in)
      /\ Restarting(stk, at[t], rs, un, in) /\ Unwinding(stk, at[t], un, in)
      /\ st \in StepStates /\ un \in UnwindStates
  BY AtIs DEF Fit, Typed
<1>2. n \in Nat \ {0} /\ n \in 1..n /\ Top(stk) = stk[n] /\ c \in Codes
  <2>1. n \in Nat \ {0} /\ Top(stk) = stk[n] /\ Top(stk) \in Frames
    BY <1>1, TopIs
  <2>2. \A m \in Nat \ {0} : m \in 1..m
    OBVIOUS
  <2> HIDE DEF n, stk
  <2>3. QED
    BY <2>1, <2>2 DEF Frames
<1>3. in.watching[c] \subseteq session.local[c]
  BY <1>1, <1>2, WatchedIsTold
<1> HIDE DEF n, stk, st, rs, un, in
<1>4. ASSUME un.on
      PROVE  "line" \in in.watching[c] /\ Top(stk).id \in {un.target} \cup ToSet(un.above)
  <2>1. n = Len(stk)
    BY DEF n
  <2>2. PICK p \in 1..n : ForcedFrom(stk, at[t], un, in, p)
    BY <1>1, <1>4, <2>1 DEF Unwinding
  <2>3. n \in p..n
    BY <1>2
  <2>4. "line" \in in.watching[c]
    BY <1>2, <2>1, <2>2, <2>3 DEF ForcedFrom
  <2>5. CASE p = n
    BY <1>2, <2>2, <2>4, <2>5 DEF ForcedFrom
  <2>6. CASE p # n
    <3>1. n \in (p + 1)..n
      BY <1>2, <2>6
    <3>2. Len(un.above) + 1 - (n - p) >= 1 /\ un.above[Len(un.above) + 1 - (n - p)] = Top(stk).id
      BY <1>2, <2>1, <2>2, <3>1 DEF ForcedFrom, stk
    <3>3. un.above \in Seq(Nat) /\ Len(un.above) \in Nat
      BY <1>1 DEF UnwindStates
    <3> DEFINE m == Len(un.above)
    <3>4. m \in Nat
      BY <3>3
    <3>5. m + 1 - (n - p) >= 1 => m + 1 - (n - p) \in 1..m
      <4> HIDE DEF m
      <4>1. QED
        BY <1>2, <3>1, <3>4
    <3>6. Top(stk).id \in ToSet(un.above)
      BY <3>2, <3>3, <3>5 DEF ToSet
    <3>7. QED
      BY <2>4, <3>6
  <2>7. QED
    BY <2>5, <2>6
<1>5. ASSUME rs.on, rs.phase = "rewinding" PROVE "line" \in in.watching[c] /\ Top(stk).id = rs.caller
  <2>1. Rewinding(stk, at[t], rs, in) /\ n = Len(stk)
    BY <1>1, <1>5 DEF Restarting, n
  <2>2. Top(stk).id = rs.caller
    BY <2>1 DEF Rewinding, stk
  <2>3. QED
    BY <1>2, <2>1, <2>2 DEF Rewinding
<1>6. ASSUME rs.on, rs.phase = "landing" PROVE "line" \in in.watching[c] /\ Top(stk).id = rs.frame
  BY <1>1, <1>6 DEF Restarting
<1>7. ASSUME st.on, Top(stk).id = st.frame PROVE in.watching[c] = Landing(st.landing)
  <2>1. n = Len(stk)
    BY DEF n
  <2>2. QED
    BY <1>1, <1>2, <1>7, <2>1 DEF Stepping
<1>8. ASSUME NEW event \in {"line", "instruction"}, Waits(stk, event, st) PROVE event \in session.local[c]
  BY <1>3, <1>7, <1>8 DEF Waits, Landing
<1>9. st.on /\ Top(stk).id = st.frame => "return" \in session.local[c]
  BY <1>3, <1>7 DEF Landing
<1>10. QED
  BY <1>3, <1>4, <1>5, <1>6, <1>8, <1>9 DEF stk, st, rs, un

\* Something armed: every line is offered.
LEMMA ArmedIsOffered ==
    ASSUME IndInv, NEW t \in Threads, ~Idle(session, t)
    PROVE  ArmedAnywhere(session) /\ \A c \in Codes, l \in Lines : <<c, l>> \notin session.disabled
<1>1. One(session, t) /\ Offering
  BY AtIs DEF IndInv
<1>2. session.interest[t].held
  BY <1>1 DEF One, Idle
<1>3. QED
  BY <1>1, <1>2 DEF ArmedAnywhere, Offering

-----------------------------------------------------------------------------
(***************************************************************************)
(* A line begins.                                                          *)
(***************************************************************************)
\* The thread t is where a line may begin, and stk2 is its stack with the line.
Begins(t, stk2) ==
    /\ at[t] \in {"started", "line", "mid", "past", "tail", "raising"} /\ stack[t] # <<>>
    /\ stk2 \in Seq(Frames) /\ stk2 # <<>> /\ Alike(stack[t], stk2)
    /\ Top(stk2) \in Frames /\ Top(stk2).line \in Lines
    /\ Top(stk2).id = Top(stack[t]).id /\ Top(stk2).code = Top(stack[t]).code

\* A line that begins is one of the innermost frame.
LEMMA LineBegins ==
    ASSUME IndInv, NEW t \in Threads, NEW l \in Lines, InLine(t) \/ at[t] \in {"started", "tail", "raising"}
    PROVE  LET stk2 == [stack[t] EXCEPT ![Len(stack[t])].line = l, ![Len(stack[t])].call = 0]
           IN  Begins(t, stk2) /\ Top(stk2).line = l
<1> DEFINE stk  == stack[t]
           stk2 == [stk EXCEPT ![Len(stk)].line = l, ![Len(stk)].call = 0]
<1>1. at[t] \in {"started", "line", "mid", "past", "tail", "raising"}
  BY DEF InLine
<1>2. stk \in Seq(Frames) /\ stk # <<>> /\ l \in Nat
  <2>1. stk \in Seq(Frames) /\ Stacked(stk, at[t])
    BY AtIs DEF Fit
  <2>2. l \in Nat
    BY StepsAssumption
  <2>3. QED
    BY <1>1, <2>1, <2>2 DEF Stacked
<1>3. stk2 \in Seq(Frames) /\ Alike(stk, stk2) /\ Top(stk2).line = l
  BY <1>2, BegunIs
<1> HIDE DEF stk2
<1>4. stk2 # <<>> /\ Top(stk2).id = Top(stk).id /\ Top(stk2).code = Top(stk).code
  BY <1>2, <1>3, AlikeIs
<1>5. Top(stk2) \in Frames
  BY <1>3, <1>4, TopIs
<1>6. Begins(t, stk2) /\ Top(stk2).line = l
  BY <1>1, <1>2, <1>3, <1>4, <1>5 DEF Begins
<1>7. QED
  BY <1>6 DEF stk2

\* Put at its first line, a stack is what it was in all else.
LEMMA FirstLineOf ==
    ASSUME NEW t \in Threads, NEW stk2, Begins(t, stk2), stack[t] \in Seq(Frames), NEW l \in Nat
    PROVE  LET stk3 == [stk2 EXCEPT ![Len(stk2)].line = l]
           IN  stk3 \in Seq(Frames) /\ Alike(stack[t], stk3)
<1> DEFINE stk3 == [stk2 EXCEPT ![Len(stk2)].line = l]
<1>1. stk2 \in Seq(Frames) /\ stk2 # <<>> /\ Alike(stack[t], stk2)
  BY DEF Begins
<1>2. stk3 \in Seq(Frames) /\ Alike(stk2, stk3)
  BY <1>1, BegunIs
<1> HIDE DEF stk3
<1>3. Alike(stack[t], stk3)
  BY <1>1, <1>2 DEF Alike
<1>4. QED
  BY <1>2, <1>3 DEF stk3

\* What the callback sees of the operations of its thread.
LEMMA BeginsAt ==
    ASSUME IndInv, NEW t \in Threads, NEW stk2, Begins(t, stk2)
    PROVE  /\ session.unwind[t].on => Unwinds(t, stk2)
           /\ session.restart[t].on /\ session.restart[t].phase = "rewinding" => Rewinds(session, t, stk2)
           /\ session.restart[t].phase \in {"rewinding", "entering", "landing"}
           /\ session.restart[t].on /\ session.restart[t].phase = "landing" =>
                Top(stk2).id = session.restart[t].frame
           /\ \A event : Waits(stk2, event, session.step[t]) <=> Waits(stack[t], event, session.step[t])
<1>1. /\ at[t] # "forced" /\ stack[t] # <<>> /\ Top(stk2).id = Top(stack[t]).id
  BY DEF Begins
<1>2. session.restart[t].phase \in {"rewinding", "entering", "landing"}
  BY AtIs DEF Sessions, RestartStates
<1>3. QED
  BY <1>1, <1>2, WaitsAreTold DEF Unwinds, Rewinds, Waits

\* The callback of an unwinding: a frame is forced out, or the target is reached.
LEMMA UnwindTakesLineKeeps ==
    ASSUME IndInv, NEW t \in Threads, NEW stk2, Begins(t, stk2), UnwindTakesLine(t, stk2) PROVE IndInv'
<1> DEFINE un == session.unwind[t]
<1>1. /\ at[t] \notin {"leaving", "over", "held", "forced"} /\ stk2 \in Seq(Frames) /\ stk2 # <<>>
      /\ Alike(stack[t], stk2) /\ Top(stk2).id = Top(stack[t]).id /\ Lines # {}
      /\ {"reset", "abandoned"} \subseteq Reasons
  BY DEF Begins, Reasons
<1>2. un.on /\ Top(stk2).id \in {un.target} \cup ToSet(un.above)
  BY DEF UnwindTakesLine, Unwinds
<1>3. /\ Kept(session) /\ session \in Sessions /\ One(session, t) /\ stack[t] \in Seq(Frames)
  BY AtIs
<1>4. session.step[t] = NoStep /\ session.restart[t] = NoRestart
  BY <1>2, <1>3 DEF One
<1>5. ASSUME session' = UnwindRelease(session, t)
      PROVE  /\ Kept(session') /\ session'.disabled = session.disabled
             /\ Becomes(session, session', t, NoStep, NoRestart, NoUnwind, NoInterest)
  BY <1>2, <1>3, <1>4, <1>5, UnwindReleaseIs
<1>6. ASSUME session' = UnwindRelease(session, t), Stop(t, "abandoned", "line"),
             stack' = [stack EXCEPT ![t] = stk2]
      PROVE  IndInv'
  BY <1>1, <1>5, <1>6, HeldKeeps
<1>7. ASSUME session' = UnwindRelease(session, t), Stop(t, "reset", "line"),
             stack' = [stack EXCEPT ![t] = [stk2 EXCEPT ![Len(stk2)].line = FirstLine]]
      PROVE  IndInv'
  <2> DEFINE stk3 == [stk2 EXCEPT ![Len(stk2)].line = FirstLine]
  <2>1. stk3 \in Seq(Frames) /\ Alike(stack[t], stk3)
    BY <1>1, <1>3, FirstLineIs, FirstLineOf
  <2>2. stack' = [stack EXCEPT ![t] = stk3]
    BY <1>7
  <2> HIDE DEF stk3
  <2>3. QED
    BY <1>1, <1>5, <1>7, <2>1, <2>2, HeldKeeps
<1>8. ASSUME Top(stk2).id # un.target, stack' = [stack EXCEPT ![t] = stk2],
             session' = ForcedOut(session, t, Top(stk2).id), RunOn(t, "forced")
      PROVE  IndInv'
  <2>1. /\ Typed(stack[t], at[t], asked[t], session.step[t], session.restart[t], un, session.interest[t])
        /\ Fit(stack[t], at[t], why[t], asked[t], session.step[t], session.restart[t], un,
               session.interest[t], session.disabled)
        /\ Len(stack[t]) <= Depth[t] /\ asked[t] \in Asks /\ why[t] \in Reasons
        /\ after[t] \in {"line", "mid", "raising", "leaving"} /\ left \in [asks : Nat, pauses : Nat]
        /\ asked = [asked EXCEPT ![t] = asked[t]] /\ why = [why EXCEPT ![t] = why[t]]
        /\ after = [after EXCEPT ![t] = after[t]]
    BY AtIs, SameAt
  <2> DEFINE id  == Top(stk2).id
             un2 == session'.unwind[t]
  <2>2. Once(un, id)
    <3>1. un.above \in Seq(Nat) /\ id \in ToSet(un.above)
      BY <1>2, <1>8, <2>1 DEF Typed, UnwindStates
    <3>2. \A i, j \in 1..Len(un.above) : un.above[i] = un.above[j] => i = j
      BY <1>2, <2>1 DEF Fit, Unwinding
    <3> HIDE DEF un, id
    <3>3. \E i \in 1..Len(un.above) : un.above[i] = id
      BY <3>1 DEF ToSet
    <3>4. QED
      BY <3>2, <3>3 DEF Once
  <2>3. session' = ForcedOut(session, t, id) /\ id = Top(stack[t]).id /\ id # un.target
    BY <1>1, <1>8
  <2> HIDE DEF id
  <2>4. /\ Kept(session') /\ session'.disabled = session.disabled
        /\ Becomes(session, session', t, session.step[t], session.restart[t], un2, session.interest[t])
        /\ Forced(un, id, un2)
    BY <1>2, <1>3, <2>2, <2>3, ForcedOutIs
  <2> HIDE DEF un2, un
  <2>5. Fit(stk2, "forced", why[t], asked[t], session.step[t], session.restart[t], un2,
            session.interest[t], session'.disabled)
    BY <1>1, <1>2, <2>1, <2>3, <2>4, ForcedOutFits
  <2>6. Forgets(session, session', t)
    <3>1. session'.interest[t] = session.interest[t]
      BY <1>3, <2>4, BecomesAt
    <3>2. QED
      BY <2>4, <3>1 DEF Forgets
  <2>7. /\ at' = [at EXCEPT ![t] = "forced"] /\ after' = after /\ why' = why /\ asked' = asked /\ left' = left
        /\ "forced" \in Places
    BY <1>8 DEF RunOn, Places
  <2>8. Len(stk2) <= Depth[t]
    BY <1>1, <2>1 DEF Alike
  <2>9. QED
    BY <1>1, <1>8, <2>1, <2>4, <2>5, <2>6, <2>7, <2>8, Moves
<1>9. QED
  BY <1>6, <1>7, <1>8 DEF UnwindTakesLine

\* The callback of a restart: the caller is moved back to the call.
LEMMA RestartTakesLineKeeps ==
    ASSUME IndInv, NEW t \in Threads, NEW stk2, Begins(t, stk2), RestartTakesLine(t, stk2) PROVE IndInv'
<1> DEFINE rs == session.restart[t]
           un == session.unwind[t]
<1>1. /\ at[t] \notin {"leaving", "over", "held", "forced"} /\ stk2 \in Seq(Frames)
      /\ Alike(stack[t], stk2) /\ Lines # {} /\ "abandoned" \in Reasons
  BY DEF Begins, Reasons
<1>2. rs.on /\ rs.phase = "rewinding"
  BY DEF RestartTakesLine, Rewinds
<1>3. /\ Typed(stack[t], at[t], asked[t], session.step[t], rs, un, session.interest[t])
      /\ Fit(stack[t], at[t], why[t], asked[t], session.step[t], rs, un, session.interest[t], session.disabled)
      /\ Len(stack[t]) <= Depth[t] /\ asked[t] \in Asks /\ why[t] \in Reasons
      /\ after[t] \in {"line", "mid", "raising", "leaving"} /\ left \in [asks : Nat, pauses : Nat]
      /\ asked = [asked EXCEPT ![t] = asked[t]] /\ why = [why EXCEPT ![t] = why[t]]
      /\ after = [after EXCEPT ![t] = after[t]]
      /\ Kept(session) /\ session \in Sessions /\ One(session, t) /\ stack[t] \in Seq(Frames)
  BY AtIs, SameAt
<1>4. session.step[t] = NoStep /\ un = NoUnwind /\ session.interest[t].held
  BY <1>2, <1>3 DEF One
<1>5. rs.code \in Codes /\ rs.line \in Nat
  BY <1>2, <1>3 DEF Fit, Restarting, Typed, RestartStates
<1>6. ASSUME session' = RestartRelease(session, t), Stop(t, "abandoned", "line"),
             stack' = [stack EXCEPT ![t] = stk2]
      PROVE  IndInv'
  <2>1. /\ Kept(session') /\ session'.disabled = session.disabled
        /\ Becomes(session, session', t, NoStep, NoRestart, NoUnwind, NoInterest)
    BY <1>2, <1>3, <1>4, <1>6, RestartReleaseIs
  <2>2. QED
    BY <1>1, <1>6, <2>1, HeldKeeps
<1>7. ASSUME session' = Rewound(session, t), RunOn(t, "rewound"),
             stack' = [stack EXCEPT ![t] = [stk2 EXCEPT ![Len(stk2)].line = rs.line]]
      PROVE  IndInv'
  <2> DEFINE stk3 == [stk2 EXCEPT ![Len(stk2)].line = rs.line]
             rs2  == session'.restart[t]
             in2  == session'.interest[t]
  <2>1. stk3 \in Seq(Frames) /\ Alike(stack[t], stk3)
    BY <1>3, <1>5, FirstLineOf
  <2>2. /\ Kept(session') /\ session'.disabled = session.disabled
        /\ Becomes(session, session', t, session.step[t], rs2, un, in2)
        /\ rs2.on /\ rs2.code = rs.code /\ rs2.phase = "entering" /\ "line" \in in2.watching[rs.code]
    BY <1>2, <1>3, <1>5, <1>7, RewoundIs
  <2>3. /\ at' = [at EXCEPT ![t] = "rewound"] /\ after' = after /\ why' = why /\ asked' = asked /\ left' = left
        /\ "rewound" \in Places /\ stack' = [stack EXCEPT ![t] = stk3]
    BY <1>7 DEF RunOn, Places
  <2> HIDE DEF stk3, rs2, in2
  <2>4. Fit(stk3, "rewound", why[t], asked[t], session.step[t], rs2, un, in2, session'.disabled)
    BY <1>1, <1>2, <1>3, <2>1, <2>2, RewoundFits
  <2>5. Forgets(session, session', t)
    BY <1>4, <2>2 DEF Forgets
  <2>6. Len(stk3) <= Depth[t]
    BY <1>3, <2>1 DEF Alike
  <2>7. /\ after' = [after EXCEPT ![t] = after[t]] /\ why' = [why EXCEPT ![t] = why[t]]
        /\ asked' = [asked EXCEPT ![t] = asked[t]] /\ left' \in [asks : Nat, pauses : Nat]
    BY <1>3, <2>3
  <2>8. "rewound" # "held" /\ asked[t] \in Asks /\ why[t] \in Reasons
        /\ after[t] \in {"line", "mid", "raising", "leaving"}
    BY <1>3
  <2> HIDE DEF un
  <2>9. QED
    BY <2>1, <2>2, <2>3, <2>4, <2>5, <2>6, <2>7, <2>8, Moves
<1>8. QED
  BY <1>6, <1>7 DEF RestartTakesLine

\* What a callback that neither an unwinding nor a rewinding takes is left with.
LEMMA NotTaken ==
    ASSUME IndInv, NEW t \in Threads, NEW stk2, Begins(t, stk2), ~Unwinds(t, stk2), ~Rewinds(session, t, stk2)
    PROVE  /\ ~session.unwind[t].on /\ session.unwind[t] = NoUnwind
           /\ session.restart[t].on => session.restart[t].phase \in {"entering", "landing"}
           /\ session.restart[t].on /\ session.restart[t].phase = "landing" =>
                Top(stk2).id = session.restart[t].frame
<1>1. ~session.unwind[t].on
  BY BeginsAt
<1>2. One(session, t)
  BY AtIs
<1>3. QED
  BY <1>1, <1>2, BeginsAt DEF One

\* The line is no event of the thread's operations: nothing is decided.
LEMMA QuietLineKeeps ==
    ASSUME IndInv, NEW t \in Threads, NEW stk2, Begins(t, stk2), ~LineOffered(Top(stk2).code, Top(stk2).line),
           stack' = [stack EXCEPT ![t] = stk2], session' = session, RunOn(t, "line")
    PROVE  IndInv'
<1> DEFINE st == session.step[t]
           rs == session.restart[t]
           un == session.unwind[t]
           c  == Top(stk2).code
           l  == Top(stk2).line
<1>1. /\ at[t] \notin {"leaving", "over", "held", "forced", "returned"} /\ stk2 \in Seq(Frames)
      /\ Alike(stack[t], stk2) /\ c \in Codes /\ l \in Lines /\ stack[t] # <<>>
      /\ c = Top(stack[t]).code /\ l # 0
  BY StepsAssumption DEF Begins, Frames
<1>2. Kept(session) /\ session \in Sessions /\ One(session, t)
  BY AtIs
<1>3. ~Idle(session, t) => "line" \notin session.local[c]
  BY <1>1, ArmedIsOffered DEF LineOffered
<1>4. ~un.on
  BY <1>1, <1>3, WaitsAreTold DEF Idle
<1>5. rs.on => rs.phase = "entering"
  BY <1>1, <1>3, WaitsAreTold, BeginsAt DEF Idle
<1>6. ~Waits(stk2, "line", st)
  <2>1. Waits(stk2, "line", st) => Waits(stack[t], "line", st) /\ st.on
    BY BeginsAt DEF Waits
  <2>2. QED
    BY <1>1, <1>3, <2>1, WaitsAreTold DEF Idle
<1>7. /\ ReachStep(stk2, "line", st, session.interest[t], st, session.interest[t])
      /\ ~Lands(stk2, "line", st)
  BY <1>6 DEF ReachStep, Lands, StepStays
<1>8. Becomes(session, session', t, st, rs, un, session.interest[t])
  BY <1>2, AlsoBecomes
<1>9. Forgets(session, session', t)
  BY DEF Forgets
<1>10. QED
  BY <1>1, <1>2, <1>4, <1>5, <1>7, <1>8, <1>9, PassedKeeps

\* A line with no breakpoint, while nothing is armed, is not offered again.
LEMMA ForgetsLineKeeps ==
    ASSUME IndInv, NEW t \in Threads, NEW stk2, Begins(t, stk2), ForgetsLine(t, stk2) PROVE IndInv'
<1> DEFINE st == session.step[t]
           rs == session.restart[t]
           un == session.unwind[t]
           c  == Top(stk2).code
           l  == Top(stk2).line
<1>1. /\ at[t] \notin {"leaving", "over", "held", "forced", "returned"} /\ stk2 \in Seq(Frames)
      /\ Alike(stack[t], stk2) /\ c \in Codes /\ l \in Lines /\ l # 0
  BY StepsAssumption DEF Begins, Frames
<1>2. /\ ~ArmedAnywhere(session) /\ session' = [session EXCEPT !.disabled = @ \cup {<<c, l>>}]
      /\ stack' = [stack EXCEPT ![t] = stk2] /\ RunOn(t, "line")
  BY DEF ForgetsLine, Unwanted
<1>3. Kept(session) /\ session \in Sessions /\ One(session, t)
  BY AtIs
<1>4. ~st.on /\ ~rs.on /\ ~un.on
  BY <1>2, <1>3 DEF One, ArmedAnywhere
<1>5. /\ Kept(session') /\ session'.step = session.step /\ session'.restart = session.restart
      /\ session'.unwind = session.unwind /\ session'.interest = session.interest
      /\ session'.disabled = session.disabled \cup {<<c, l>>}
  <2>1. <<c, l>> \in Locations
    BY <1>1 DEF Locations
  <2>2. QED
    BY <1>2, <1>3, <2>1, ForgottenIs
<1>6. Becomes(session, session', t, st, rs, un, session.interest[t])
  BY <1>3, <1>5, AlsoBecomes
<1>7. Forgets(session, session', t)
  <2>1. ~ArmedAnywhere(session') /\ session'.interest[t] = session.interest[t]
    BY <1>2, <1>5 DEF ArmedAnywhere
  <2>2. QED
    BY <1>1, <1>5, <2>1 DEF Forgets
<1>8. \A x \in Codes : <<x, 0>> \in session'.disabled => <<x, 0>> \in session.disabled
  BY <1>1, <1>5
<1>9. /\ ReachStep(stk2, "line", st, session.interest[t], st, session.interest[t])
      /\ ~Lands(stk2, "line", st)
  BY <1>4 DEF ReachStep, Lands, Waits, StepStays
<1>10. QED
  BY <1>1, <1>2, <1>4, <1>5, <1>6, <1>7, <1>8, <1>9, PassedKeeps

\* The callback decides whether the thread is held at the line.
LEMMA DecidesLineKeeps ==
    ASSUME IndInv, NEW t \in Threads, NEW stk2, Begins(t, stk2), NEW hit \in BOOLEAN, DecidesLine(t, stk2, hit)
    PROVE  IndInv'
<1> DEFINE st        == session.step[t]
           rs        == session.restart[t]
           un        == session.unwind[t]
           reached   == StepReached(session, t, stk2, "line")
           landed    == StepLands(session, t, stk2, "line")
           restarted == RestartLands(reached, t, stk2)
           both      == IF restarted THEN RestartRelease(reached, t) ELSE reached
           paused    == session.pausing /\ Top(stk2).code \notin Launcher
           unpaused  == RefreshEvents([both EXCEPT !.pausing = FALSE])
<1>1. /\ at[t] \notin {"leaving", "over", "held", "forced", "returned"} /\ stk2 \in Seq(Frames) /\ stk2 # <<>>
      /\ Alike(stack[t], stk2) /\ Top(stk2).line # 0 /\ Lines # {}
      /\ {"breakpoint", "restarted", "stepped", "paused"} \subseteq Reasons
  BY StepsAssumption DEF Begins, Reasons
<1>2. /\ ~Unwinds(t, stk2) /\ ~Rewinds(session, t, stk2) /\ stack' = [stack EXCEPT ![t] = stk2]
      /\ \/ hit /\ session' = LeftArmedHere(both, t) /\ Stop(t, "breakpoint", "line")
         \/ ~hit /\ restarted /\ session' = StepCancel(both, t) /\ Stop(t, "restarted", "line")
         \/ ~hit /\ ~restarted /\ landed /\ session' = both /\ Stop(t, "stepped", "line")
         \/ /\ ~hit /\ ~restarted /\ ~landed /\ paused
            /\ session' = LeftArmedHere(unpaused, t)
            /\ Stop(t, "paused", "line")
         \/ /\ ~hit /\ ~restarted /\ ~landed /\ ~paused
            /\ session' = both
            /\ RunOn(t, "line")
  BY DEF DecidesLine
<1>3. Kept(session) /\ session \in Sessions /\ One(session, t)
  BY AtIs
<1>4. /\ ~un.on /\ un = NoUnwind
      /\ rs.on => rs.phase \in {"entering", "landing"}
      /\ rs.on /\ rs.phase = "landing" => Top(stk2).id = rs.frame
  BY <1>2, NotTaken
<1>5. /\ Changes(session, reached, t)
      /\ ReachStep(stk2, "line", st, session.interest[t], reached.step[t], reached.interest[t])
  BY <1>1, <1>3, StepReachedIs
<1>6. landed <=> Lands(stk2, "line", st)
  BY DEF StepLands, StepWaits, Lands, Waits
<1> HIDE DEF reached, landed
<1>7. /\ Kept(reached) /\ reached \in Sessions /\ reached.disabled = session.disabled
      /\ Becomes(session, reached, t, reached.step[t], rs, un, reached.interest[t])
      /\ reached.restart[t] = rs /\ reached.unwind[t] = un
  <2>1. /\ Kept(reached) /\ reached \in Sessions /\ reached.disabled = session.disabled
        /\ Becomes(session, reached, t, reached.step[t], rs, un, reached.interest[t])
    BY <1>5 DEF Changes, Kept
  <2>2. QED
    BY <1>3, <2>1, BecomesAt
<1>8. restarted <=> rs.on /\ rs.phase = "landing"
  BY <1>4, <1>7 DEF RestartLands
<1>9. ASSUME restarted
      PROVE  /\ Kept(both) /\ both \in Sessions /\ both.disabled = session.disabled
             /\ Becomes(session, both, t, NoStep, NoRestart, NoUnwind, NoInterest) /\ both.step[t] = NoStep
  <2>1. st = NoStep /\ ~st.on
    BY <1>3, <1>8, <1>9 DEF One
  <2>2. reached.step[t] = NoStep
    BY <1>5, <2>1 DEF ReachStep, Lands, Waits, StepStays
  <2>3. both = RestartRelease(reached, t) /\ reached.restart[t].on
    BY <1>7, <1>8, <1>9
  <2> HIDE DEF both
  <2>4. /\ Kept(both) /\ both.disabled = reached.disabled
        /\ Becomes(reached, both, t, NoStep, NoRestart, NoUnwind, NoInterest)
    BY <1>4, <1>7, <2>2, <2>3, RestartReleaseIs
  <2>5. Becomes(session, both, t, NoStep, NoRestart, NoUnwind, NoInterest)
    BY <1>3, <1>7, <2>4, BecomesThen
  <2>6. both.step[t] = NoStep
    BY <1>3, <2>5, BecomesAt
  <2>7. QED
    BY <1>7, <2>4, <2>5, <2>6 DEF Kept
<1>10. ~restarted => both = reached
  OBVIOUS
<1>11. /\ Kept(both) /\ both \in Sessions /\ both.disabled = session.disabled
       /\ \E st2, rs2, un2, in2 : Becomes(session, both, t, st2, rs2, un2, in2)
  BY <1>7, <1>9, <1>10
<1> HIDE DEF both, restarted
<1>12. ASSUME NEW r, Kept(r), r.step = both.step, r.restart = both.restart, r.unwind = both.unwind,
              r.interest = both.interest, r.disabled = both.disabled, session' = LeftArmedHere(r, t)
       PROVE  /\ Kept(session') /\ session'.disabled = session.disabled
              /\ Becomes(session, session', t, NoStep, NoRestart, NoUnwind, NoInterest)
  <2>1. /\ Kept(session') /\ session'.disabled = session.disabled
        /\ Becomes(r, session', t, NoStep, NoRestart, NoUnwind, NoInterest)
    BY <1>11, <1>12, LeftArmedHereIs
  <2>2. Becomes(both, session', t, NoStep, NoRestart, NoUnwind, NoInterest)
    BY <1>11, <1>12, <2>1, AlsoBecomes
  <2>3. QED
    BY <1>3, <1>11, <2>1, <2>2, BecomesThen
<1>13. ASSUME session' = LeftArmedHere(both, t), Stop(t, "breakpoint", "line") PROVE IndInv'
  BY <1>1, <1>2, <1>11, <1>12, <1>13, HeldKeeps
<1>14. ASSUME restarted, session' = StepCancel(both, t), Stop(t, "restarted", "line") PROVE IndInv'
  <2>1. session' = both
    BY <1>9, <1>14 DEF StepCancel, NoStep
  <2>2. QED
    BY <1>1, <1>2, <1>9, <1>14, <2>1, HeldKeeps
<1>15. ASSUME ~restarted, landed, session' = both, Stop(t, "stepped", "line") PROVE IndInv'
  <2>1. st.on /\ Lands(stk2, "line", st)
    BY <1>6, <1>15 DEF Lands, Waits
  <2>2. rs = NoRestart
    BY <1>3, <2>1 DEF One
  <2>3. reached.step[t] = NoStep /\ session' = reached
    BY <1>5, <1>10, <1>15, <2>1 DEF ReachStep, StepStays, Lands
  <2>4. /\ Kept(session') /\ session'.disabled = session.disabled
        /\ Becomes(session, session', t, NoStep, NoRestart, NoUnwind, reached.interest[t])
    BY <1>4, <1>7, <2>2, <2>3
  <2>5. QED
    BY <1>1, <1>2, <1>15, <2>1, <2>4, HeldKeeps
<1>16. ASSUME session' = LeftArmedHere(unpaused, t), Stop(t, "paused", "line") PROVE IndInv'
  <2>1. /\ Kept(unpaused) /\ unpaused.step = both.step /\ unpaused.restart = both.restart
        /\ unpaused.unwind = both.unwind /\ unpaused.interest = both.interest
        /\ unpaused.disabled = both.disabled
    BY <1>11, PausingIs
  <2> HIDE DEF unpaused
  <2>2. QED
    BY <1>1, <1>2, <1>12, <1>16, <2>1, HeldKeeps
<1>17. ASSUME ~restarted, ~landed, session' = both, RunOn(t, "line") PROVE IndInv'
  <2>1. session' = reached /\ ~Lands(stk2, "line", st) /\ (rs.on => rs.phase = "entering")
    BY <1>4, <1>6, <1>8, <1>10, <1>17
  <2>2. Forgets(session, session', t)
    <3>1. ~session.interest[t].held => reached.interest[t] = session.interest[t]
      BY <1>3, <1>5 DEF One, ReachStep, Lands, Waits, StepStays
    <3>2. QED
      BY <1>7, <2>1, <3>1 DEF Forgets
  <2> DEFINE st2 == reached.step[t]
             in2 == reached.interest[t]
  <2>3. /\ Kept(session') /\ session'.disabled = session.disabled
        /\ Becomes(session, session', t, st2, rs, un, in2)
        /\ ReachStep(stk2, "line", st, session.interest[t], st2, in2)
    BY <1>5, <1>7, <2>1
  <2> HIDE DEF st2, in2
  <2>4. QED
    BY <1>1, <1>2, <1>4, <1>17, <2>1, <2>2, <2>3, PassedKeeps
<1>18. QED
  BY <1>2, <1>13, <1>14, <1>15, <1>16, <1>17

\* A line begins, whether or not the callback hears of it.
LEMMA BeginLineKeeps ==
    ASSUME IndInv, NEW t \in Threads, NEW l \in Lines, BeginLine(t, l) PROVE IndInv'
<1> DEFINE stk2 == [stack[t] EXCEPT ![Len(stack[t])].line = l, ![Len(stack[t])].call = 0]
<1>1. Begins(t, stk2) /\ Top(stk2).line = l
  BY LineBegins DEF BeginLine
<1>2. \/ /\ ~LineOffered(Top(stk2).code, l) /\ stack' = [stack EXCEPT ![t] = stk2]
         /\ session' = session /\ RunOn(t, "line")
      \/ UnwindTakesLine(t, stk2)
      \/ RestartTakesLine(t, stk2)
      \/ ForgetsLine(t, stk2)
      \/ \E hit \in BOOLEAN : DecidesLine(t, stk2, hit)
  BY DEF BeginLine
<1> HIDE DEF stk2
<1>3. QED
  BY <1>1, <1>2, QuietLineKeeps, UnwindTakesLineKeeps, RestartTakesLineKeeps, ForgetsLineKeeps,
     DecidesLineKeeps

-----------------------------------------------------------------------------
(***************************************************************************)
(* A frame is entered.                                                     *)
(***************************************************************************)
\* What a step (st, in), then a restart (rs) make of the entry of a frame.
Hears(stk, st, in, rs, st2, rs2, in2) ==
    \E in1 :
      /\ EnterStep(stk, st, in, st2, in1)
      /\ \/ rs2 = rs /\ in2 = in1
         \/ /\ EntersAgain(stk, rs) /\ rs2.on /\ rs2.code = rs.code /\ rs2.phase = "landing"
            /\ rs2.caller = rs.caller /\ rs2.frame = Top(stk).id /\ in2.watching = in1.watching

\* The callback of a start tells the step, then the restart.
LEMMA HeardIs ==
    ASSUME NEW s, Kept(s), NEW t \in Threads, NEW stk \in Seq(Frames), stk # <<>>
    PROVE  LET r == RestartEntered(StepEntered(s, t, stk), t, stk) IN
           /\ Kept(r) /\ r.disabled = s.disabled
           /\ Becomes(s, r, t, r.step[t], r.restart[t], s.unwind[t], r.interest[t])
           /\ Hears(stk, s.step[t], s.interest[t], s.restart[t], r.step[t], r.restart[t], r.interest[t])
<1> DEFINE s1  == StepEntered(s, t, stk)
           r   == RestartEntered(s1, t, stk)
           in1 == s1.interest[t]
<1>1. Changes(s, s1, t) /\ EnterStep(stk, s.step[t], s.interest[t], s1.step[t], in1)
  BY StepEnteredIs
<1> HIDE DEF s1
<1>2. /\ Kept(s1) /\ s1.disabled = s.disabled /\ s \in Sessions /\ s1 \in Sessions
      /\ Becomes(s, s1, t, s1.step[t], s.restart[t], s.unwind[t], in1)
  BY <1>1 DEF Changes, Kept
<1>3. s1.restart[t] = s.restart[t] /\ s1.unwind[t] = s.unwind[t]
  BY <1>2, BecomesAt
<1>4. \/ ~EntersAgain(stk, s1.restart[t]) /\ r = s1
      \/ /\ EntersAgain(stk, s1.restart[t]) /\ Kept(r) /\ r.disabled = s1.disabled
         /\ Becomes(s1, r, t, s1.step[t], r.restart[t], s1.unwind[t], r.interest[t])
         /\ r.restart[t].on /\ r.restart[t].code = s1.restart[t].code /\ r.restart[t].phase = "landing"
         /\ r.restart[t].caller = s1.restart[t].caller /\ r.restart[t].frame = Top(stk).id
         /\ r.interest[t].watching = in1.watching
  BY <1>2, RestartEnteredIs
<1> HIDE DEF r
<1>5. CASE r = s1
  <2>1. Hears(stk, s.step[t], s.interest[t], s.restart[t], r.step[t], r.restart[t], r.interest[t])
    BY <1>1, <1>3, <1>5 DEF Hears
  <2>2. /\ Kept(r) /\ r.disabled = s.disabled
        /\ Becomes(s, r, t, r.step[t], r.restart[t], s.unwind[t], r.interest[t])
    BY <1>2, <1>3, <1>5
  <2>3. QED
    BY <2>1, <2>2 DEF r, s1
<1>6. CASE r # s1
  <2>1. Becomes(s, r, t, s1.step[t], r.restart[t], s.unwind[t], r.interest[t])
    BY <1>2, <1>3, <1>4, <1>6, BecomesThen
  <2>2. r.step[t] = s1.step[t]
    BY <1>2, <2>1, BecomesAt
  <2>3. Hears(stk, s.step[t], s.interest[t], s.restart[t], r.step[t], r.restart[t], r.interest[t])
    BY <1>1, <1>3, <1>4, <1>6, <2>2 DEF Hears
  <2>4. QED
    BY <1>2, <1>4, <1>6, <2>1, <2>2, <2>3 DEF r, s1
<1>7. QED
  BY <1>5, <1>6

\* The ask is one after a call as well.
LEMMA ToldIsTyped ==
    ASSUME NEW stk, NEW ak \in Asks PROVE ToldOfCall(stk, ak) \in Asks
<1>1. [ak EXCEPT !.target = 0] \in Asks
  BY DEF Asks
<1>2. QED
  BY <1>1 DEF ToldOfCall

\* What has nothing armed hears of nothing.
LEMMA HeldBefore ==
    ASSUME NEW s, NEW t, One(s, t), NEW stk, NEW st2, NEW rs2, NEW in2,
           Hears(stk, s.step[t], s.interest[t], s.restart[t], st2, rs2, in2), in2.held
    PROVE  s.interest[t].held
<1>1. SUFFICES ASSUME ~s.interest[t].held PROVE FALSE
  OBVIOUS
<1>2. ~s.step[t].on /\ ~s.restart[t].on
  BY <1>1 DEF One
<1>3. in2 = s.interest[t]
  BY <1>2 DEF Hears, EnterStep, EntersAgain, StepStays
<1>4. QED
  BY <1>1, <1>3

\* A function is called.
LEMMA CallKeeps ==
    ASSUME IndInv, NEW t \in Threads, NEW c \in Codes, NEW k \in Calls, Call(t, c, k) PROVE IndInv'
<1> DEFINE stk   == stack[t]
           st    == session.step[t]
           rs    == session.restart[t]
           un    == session.unwind[t]
           in    == session.interest[t]
           f     == Frame(Fresh(t), c)
           stk2  == Pushed(stk, k, f)
           heard == RestartEntered(StepEntered(session, t, stk2), t, stk2)
           ak2   == ToldOfCall(stk2, asked[t])
<1>1. /\ at[t] \in {"line", "mid", "past", "rewound"} /\ Len(stk) < Depth[t]
      /\ stack' = [stack EXCEPT ![t] = stk2] /\ at' = [at EXCEPT ![t] = "started"]
      /\ after' = after /\ why' = why /\ left' = left
      /\ session' = IF ~StartOffered(c) THEN session
                    ELSE IF EnteringAnywhere(heard) THEN heard
                    ELSE [heard EXCEPT !.disabled = @ \cup {<<c, 0>>}]
      /\ asked' = IF asked[t].kind = "in" /\ ChosenEntersThrough(t, stk2)
                  THEN [asked EXCEPT ![t].target = 0] ELSE asked
  BY DEF Call, InLine, Pushed
<1>2. /\ Typed(stk, at[t], asked[t], st, rs, un, in)
      /\ Fit(stk, at[t], why[t], asked[t], st, rs, un, in, session.disabled)
      /\ Kept(session) /\ session \in Sessions /\ One(session, t) /\ stk \in Seq(Frames)
      /\ asked[t] \in Asks /\ why[t] \in Reasons /\ after[t] \in {"line", "mid", "raising", "leaving"}
      /\ left \in [asks : Nat, pauses : Nat] /\ asked \in [Threads -> Asks]
      /\ why = [why EXCEPT ![t] = why[t]] /\ after = [after EXCEPT ![t] = after[t]]
  BY AtIs, SameAt
<1>3. asked' = [asked EXCEPT ![t] = ak2]
  <2>1. ChosenEntersThrough(t, stk2) <=> ChosenThrough(stk2, asked[t])
    BY DEF ChosenEntersThrough, ChosenThrough
  <2> HIDE DEF stk2
  <2>2. QED
    BY <1>1, <1>2, <2>1 DEF ToldOfCall
<1>4. ak2 \in Asks
  BY <1>2, ToldIsTyped
<1>5. un = NoUnwind /\ stk # <<>>
  BY <1>1, <1>2 DEF Fit, Unwinding, Stacked, One
<1>6. f \in Frames /\ k \in Nat /\ f.id \notin IdsOf(stk) /\ f.id # st.frame /\ f.id # asked[t].frame
  <2>1. k \in Nat
    BY StepsAssumption
  <2>2. /\ Fresh(t) \in Nat \ {0} /\ Fresh(t) \notin IdsOf(stk)
        /\ Fresh(t) # st.frame /\ Fresh(t) # asked[t].frame
    BY <1>1, <1>2, <1>5, FreshIs
  <2>3. QED
    BY <2>1, <2>2 DEF Frame, Frames
<1> HIDE DEF f
<1>7. Extends(stk, k, f, stk2)
  BY <1>2, <1>5, <1>6, PushedIs
<1>8. stk2 \in Seq(Frames) /\ stk2 # <<>> /\ Len(stk2) <= Depth[t]
  <2>1. stk2 \in Seq(Frames) /\ stk2 # <<>> /\ Len(stk2) = Len(stk) + 1 /\ Len(stk) \in Nat
    BY <1>7 DEF Extends
  <2>2. Depth[t] \in Nat
    BY StepsAssumption
  <2> HIDE DEF stk2, stk
  <2>3. QED
    BY <1>1, <2>1, <2>2
<1>9. stk2 = Pushed(stk, k, f)
  OBVIOUS
<1> HIDE DEF stk2, ak2
<1>10. "started" \in Places /\ "started" # "held"
  BY DEF Places
<1>11. /\ Kept(heard) /\ heard.disabled = session.disabled
       /\ Becomes(session, heard, t, heard.step[t], heard.restart[t], un, heard.interest[t])
       /\ Hears(stk2, st, in, rs, heard.step[t], heard.restart[t], heard.interest[t])
  BY <1>2, <1>8, HeardIs
<1> HIDE DEF heard
<1>12. CASE ~StartOffered(c)
  <2>1. Fit(stk2, "started", why[t], ak2, st, rs, un, in, session.disabled)
    <3>1. StepStays(st, in, st, in) /\ \E x \in Codes : <<x, 0>> \in session.disabled
      BY <1>12 DEF StepStays, StartOffered
    <3>2. QED
      BY <1>1, <1>2, <1>6, <1>9, <3>1, CallFits, ZenonT(40) DEF ak2
  <2>2. session' = session
    BY <1>1, <1>12
  <2>3. Becomes(session, session', t, st, rs, un, in) /\ Forgets(session, session', t)
    BY <1>2, <2>2, AlsoBecomes DEF Forgets
  <2>4. QED
    BY <1>1, <1>2, <1>3, <1>4, <1>8, <1>10, <2>1, <2>2, <2>3, Moves
<1>13. CASE StartOffered(c)
  <2> DEFINE st2 == heard.step[t]
             rs2 == heard.restart[t]
             in2 == heard.interest[t]
  <2>1. Fit(stk2, "started", why[t], ak2, st2, rs2, un, in2, session.disabled)
    <3>1. PICK in1 : /\ EnterStep(stk2, st, in, st2, in1)
                     /\ \/ rs2 = rs /\ in2 = in1
                        \/ /\ EntersAgain(stk2, rs) /\ rs2.on /\ rs2.code = rs.code
                           /\ rs2.phase = "landing" /\ rs2.caller = rs.caller
                           /\ rs2.frame = Top(stk2).id /\ in2.watching = in1.watching
      BY <1>11 DEF Hears
    <3> HIDE DEF st2, rs2, in2
    <3>2. QED
      BY <1>1, <1>2, <1>6, <1>9, <3>1, CallFits, ZenonT(40) DEF ak2
  <2>2. in2.held => in.held
    BY <1>2, <1>11, HeldBefore
  <2>3. /\ Kept(session')
        /\ session'.step = heard.step /\ session'.restart = heard.restart
        /\ session'.unwind = heard.unwind /\ session'.interest = heard.interest
        /\ \/ session'.disabled = session.disabled
           \/ /\ ~EnteringAnywhere(session') /\ session'.disabled = session.disabled \cup {<<c, 0>>}
    <3>1. CASE EnteringAnywhere(heard)
      BY <1>1, <1>11, <1>13, <3>1
    <3>2. CASE ~EnteringAnywhere(heard)
      <4>1. session' = [heard EXCEPT !.disabled = @ \cup {<<c, 0>>}] /\ <<c, 0>> \in Locations
        BY <1>1, <1>13, <3>2 DEF Locations
      <4>2. /\ Kept(session')
            /\ session'.step = heard.step /\ session'.restart = heard.restart
            /\ session'.unwind = heard.unwind /\ session'.interest = heard.interest
            /\ session'.disabled = heard.disabled \cup {<<c, 0>>}
        BY <1>11, <4>1, ForgottenIs
      <4>3. QED
        BY <1>11, <3>2, <4>2 DEF EnteringAnywhere
    <3>3. QED
      BY <3>1, <3>2
  <2>4. Becomes(session, session', t, st2, rs2, un, in2)
    BY <1>11, <2>3 DEF Becomes
  <2>5. session'.step[t] = st2 /\ session'.interest[t] = in2
    BY <2>3
  <2>6. Forgets(session, session', t)
    BY <2>2, <2>3, <2>5 DEF Forgets
  <2>7. Fit(stk2, "started", why[t], ak2, st2, rs2, un, in2, session'.disabled)
    <3>1. ASSUME st2.on, st2.entering, NEW x \in Codes, <<x, 0>> \in session'.disabled
          PROVE  <<x, 0>> \in session.disabled
      <4>1. Tidy(session', t)
        BY <2>3 DEF Kept
      <4>2. EnteringAnywhere(session')
        BY <2>5, <3>1, <4>1 DEF Tidy, EnteringAnywhere
      <4>3. QED
        BY <2>3, <3>1, <4>2
    <3> HIDE DEF st2, rs2, in2
    <3>2. QED
      BY <2>1, <3>1, OfferedFits
  <2> HIDE DEF st2, rs2, in2
  <2>8. QED
    BY <1>1, <1>2, <1>3, <1>4, <1>8, <1>10, <2>3, <2>4, <2>6, <2>7, Moves
<1>14. QED
  BY <1>12, <1>13

-----------------------------------------------------------------------------
(***************************************************************************)
(* A frame is left.                                                        *)
(***************************************************************************)
\* The innermost frame goes, whichever way.
LEMMA PopKeeps ==
    ASSUME IndInv, NEW t \in Threads, NEW place \in {"returned", "tail", "raising"}, Popped(t, place),
           at[t] # "over", Kept(session'), session'.disabled = session.disabled, NEW st2, NEW in2,
           Becomes(session, session', t, st2, session.restart[t], session.unwind[t], in2),
           NEW l \in {"line", "instruction"},
           \/ at[t] \in {"line", "mid", "past"} /\ place = "returned" /\ l = "instruction"
           \/ at[t] = "forced" /\ place = "tail" /\ l = "instruction"
           \/ at[t] = "tail" /\ session.unwind[t].on /\ place = "tail" /\ l = "instruction"
           \/ at[t] = "raising" /\ place = "raising" /\ l = "line"
           \/ at[t] = "leaving" /\ place = "raising" /\ StepStays(session.step[t], session.interest[t], st2, in2),
           at[t] # "leaving" => LeaveStep(stack[t], l, session.step[t], session.interest[t], st2, in2),
           session.unwind[t].on => Top(stack[t]).id # session.unwind[t].target,
           at[t] = "raising" /\ session.restart[t].on => session.restart[t].phase = "entering"
    PROVE  IndInv'
<1> DEFINE stk  == stack[t]
           st   == session.step[t]
           rs   == session.restart[t]
           un   == session.unwind[t]
           in   == session.interest[t]
           stk2 == Front(stk)
           a2   == IF Len(stk) = 1 THEN "over" ELSE place
           ak2  == Lowered(stk, asked[t])
<1>1. /\ Typed(stk, at[t], asked[t], st, rs, un, in)
      /\ Fit(stk, at[t], why[t], asked[t], st, rs, un, in, session.disabled)
      /\ session \in Sessions /\ One(session, t) /\ stk \in Seq(Frames) /\ Len(stk) <= Depth[t]
      /\ asked[t] \in Asks /\ why[t] \in Reasons /\ after[t] \in {"line", "mid", "raising", "leaving"}
      /\ left \in [asks : Nat, pauses : Nat] /\ asked \in [Threads -> Asks]
      /\ stack \in [Threads -> Seq(Frames)]
      /\ why = [why EXCEPT ![t] = why[t]] /\ after = [after EXCEPT ![t] = after[t]]
  BY AtIs, SameAt
<1>2. /\ stack' = [stack EXCEPT ![t] = stk2] /\ at' = [at EXCEPT ![t] = a2]
      /\ asked' = [asked EXCEPT ![t] = ak2] /\ after' = after /\ why' = why /\ left' = left
  BY <1>1 DEF Popped, Lowered
<1>3. stk # <<>>
  BY <1>1 DEF Fit, Stacked
<1>4. stk2 \in Seq(Frames) /\ Len(stk2) <= Depth[t]
  <2>1. /\ stk2 \in Seq(Frames) /\ Len(stk2) = Len(stk) - 1 /\ Len(stk) \in Nat /\ Depth[t] \in Nat
    BY <1>1, <1>3, FrontIs, StepsAssumption
  <2> HIDE DEF stk, stk2
  <2>2. QED
    BY <1>1, <2>1
<1>5. ak2 \in Asks
  <2>1. Len(stk) \in Nat \ {0}
    BY <1>1, <1>3, TopIs
  <2> DEFINE low == IF Len(stk) <= asked[t].low THEN Len(stk) - 1 ELSE asked[t].low
  <2>2. asked[t].low \in Nat
    BY <1>1 DEF Asks
  <2>3. low \in Nat
    <3> HIDE DEF stk
    <3>1. QED
      BY <2>1, <2>2
  <2>4. ak2 = [asked[t] EXCEPT !.low = low]
    BY DEF Lowered
  <2> HIDE DEF low
  <2>5. QED
    BY <1>1, <2>3, <2>4 DEF Asks
<1>6. a2 \in Places /\ a2 # "held"
  BY DEF Places
<1>7. Forgets(session, session', t)
  <2>1. session'.interest[t] = in2
    BY <1>1, BecomesAt
  <2>2. ~in.held => in2 = in
    BY <1>1 DEF LeaveStep, StepStays, One
  <2>3. QED
    BY <2>1, <2>2 DEF Forgets
<1>8. Fit(stk2, a2, why[t], ak2, st2, rs, un, in2, session'.disabled)
  <2>1. stk2 = Front(stk) /\ ak2 = Lowered(stk, asked[t]) /\ a2 = IF Len(stk) = 1 THEN "over" ELSE place
    OBVIOUS
  <2>2. /\ \/ at[t] \in {"line", "mid", "past"} /\ place = "returned" /\ l = "instruction"
           \/ at[t] = "forced" /\ place = "tail" /\ l = "instruction"
           \/ at[t] = "tail" /\ un.on /\ place = "tail" /\ l = "instruction"
           \/ at[t] = "raising" /\ place = "raising" /\ l = "line"
           \/ at[t] = "leaving" /\ place = "raising" /\ StepStays(st, in, st2, in2)
        /\ at[t] # "leaving" => LeaveStep(stk, l, st, in, st2, in2)
        /\ un.on => Top(stk).id # un.target
        /\ at[t] = "raising" /\ rs.on => rs.phase = "entering"
    OBVIOUS
  <2>3. session'.disabled = session.disabled
    OBVIOUS
  <2> DEFINE d == session.disabled
             a == at[t]
             w == why[t]
             ak == asked[t]
  <2>4. Typed(stk, a, ak, st, rs, un, in) /\ Fit(stk, a, w, ak, st, rs, un, in, d)
    BY <1>1
  <2> HIDE DEF stk2, ak2, a2, st, rs, un, in, stk, d, a, w, ak
  <2>5. Fit(stk2, a2, w, ak2, st2, rs, un, in2, d)
    BY <2>1, <2>2, <2>4, PoppedFits DEF a, ak
  <2>6. QED
    BY <2>3, <2>5 DEF d, w
<1> HIDE DEF stk2, ak2, a2
<1>9. QED
  BY <1>1, <1>2, <1>4, <1>5, <1>6, <1>7, <1>8, Moves

\* A frame returns.
LEMMA ReturnKeeps ==
    ASSUME IndInv, NEW t \in Threads, Return(t) PROVE IndInv'
<1> DEFINE stk   == stack[t]
           st    == session.step[t]
           rs    == session.restart[t]
           un    == session.unwind[t]
           in    == session.interest[t]
           place == IF InLine(t) THEN "returned" ELSE "tail"
           st2   == session'.step[t]
           in2   == session'.interest[t]
<1>1. /\ \/ at[t] \in {"line", "mid", "past"} /\ place = "returned"
         \/ at[t] = "forced" /\ place = "tail"
         \/ at[t] = "tail" /\ place = "tail" /\ Top(stk).id \in ToSet(un.above)
      /\ Popped(t, place) /\ place \in {"returned", "tail", "raising"}
      /\ session' = IF "return" \in session.local[Top(stk).code]
                    THEN StepLeft(session, t, stk, "instruction") ELSE session
  BY DEF Return, InLine
<1>2. /\ Kept(session) /\ session \in Sessions /\ One(session, t) /\ stk \in Seq(Frames)
      /\ Stacked(stk, at[t]) /\ Stepping(stk, at[t], asked[t], st, in) /\ Unwinding(stk, at[t], un, in)
  BY AtIs DEF Fit
<1>3. stk # <<>>
  BY <1>1, <1>2 DEF Stacked
<1>4. at[t] = "tail" => un.on
  <2>1. ToSet(NoUnwind.above) = {}
    BY DEF NoUnwind, ToSet
  <2>2. QED
    BY <1>1, <1>2, <2>1 DEF One
<1>5. un.on => Top(stk).id # un.target
  BY <1>1, <1>2 DEF Unwinding
<1>6. /\ Kept(session') /\ session'.disabled = session.disabled
      /\ Becomes(session, session', t, st2, rs, un, in2)
      /\ LeaveStep(stk, "instruction", st, in, st2, in2)
  <2>1. CASE "return" \in session.local[Top(stk).code]
    <3>1. session' = StepLeft(session, t, stk, "instruction")
      BY <1>1, <2>1
    <3>2. QED
      BY <1>2, <1>3, <3>1, StepLeftIs DEF Changes
  <2>2. CASE "return" \notin session.local[Top(stk).code]
    <3>1. session' = session
      BY <1>1, <2>2
    <3>2. ~st.on \/ Top(stk).id # st.frame
      BY <1>2, <1>3, <2>2, WaitsAreTold DEF Stepping
    <3>3. Becomes(session, session', t, st2, rs, un, in2)
      BY <1>2, <3>1, AlsoBecomes
    <3>4. QED
      BY <1>2, <3>1, <3>2, <3>3 DEF LeaveStep, StepStays
  <2>3. QED
    BY <2>1, <2>2
<1> HIDE DEF st2, in2, place
<1>7. QED
  BY <1>1, <1>4, <1>5, <1>6, PopKeeps

\* An exception leaves a frame.
LEMMA UnwindKeeps ==
    ASSUME IndInv, NEW t \in Threads, Unwind(t) PROVE IndInv'
<1> DEFINE stk   == stack[t]
           st    == session.step[t]
           rs    == session.restart[t]
           un    == session.unwind[t]
           in    == session.interest[t]
           left1 == StepLeft(session, t, stk, "line")
           stops == \/ RestartLeft(left1, t, stk) /\ session' = RestartRelease(left1, t)
                    \/ /\ left1.unwind[t].on /\ Top(stk).id = left1.unwind[t].target
                       /\ session' = UnwindRelease(left1, t)
<1>1. /\ at[t] = "raising"
      /\ \/ "unwind" \notin session.global /\ session' = session /\ Popped(t, "raising")
         \/ stops /\ stack' = stack /\ Stop(t, "abandoned", "leaving")
         \/ /\ ~RestartLeft(left1, t, stk)
            /\ ~(left1.unwind[t].on /\ Top(stk).id = left1.unwind[t].target)
            /\ session' = left1 /\ Popped(t, "raising")
  BY DEF Unwind
<1>2. /\ Kept(session) /\ session \in Sessions /\ One(session, t) /\ stk \in Seq(Frames)
      /\ Stacked(stk, at[t]) /\ Restarting(stk, at[t], rs, un, in) /\ rs \in RestartStates
      /\ stack = [stack EXCEPT ![t] = stk]
  BY AtIs, SameAt DEF Fit, Typed
<1>3. stk # <<>>
  BY <1>1, <1>2 DEF Stacked
<1>4. Changes(session, left1, t) /\ LeaveStep(stk, "line", st, in, left1.step[t], left1.interest[t])
  BY <1>2, <1>3, StepLeftIs
<1> HIDE DEF left1
<1>5. /\ Kept(left1) /\ left1 \in Sessions /\ left1.disabled = session.disabled
      /\ Becomes(session, left1, t, left1.step[t], rs, un, left1.interest[t])
  BY <1>4 DEF Changes, Kept
<1>6. left1.restart[t] = rs /\ left1.unwind[t] = un
  BY <1>2, <1>5, BecomesAt
<1>7. ASSUME session' = left1, Popped(t, "raising"), ~RestartLeft(left1, t, stk),
             ~(left1.unwind[t].on /\ Top(stk).id = left1.unwind[t].target)
      PROVE  IndInv'
  <2>1. rs.on => rs.phase = "entering"
    <3>1. rs.on => rs.phase \in {"rewinding", "entering"}
      BY <1>1, <1>2 DEF Restarting, RestartStates
    <3>2. rs.on /\ rs.phase = "rewinding" => Top(stk).id = rs.caller
      BY <1>1, <1>3, WaitsAreTold
    <3>3. QED
      BY <1>6, <1>7, <3>1, <3>2 DEF RestartLeft
  <2>2. un.on => Top(stk).id # un.target
    BY <1>6, <1>7
  <2> DEFINE st2 == left1.step[t]
             in2 == left1.interest[t]
  <2>3. /\ Kept(session') /\ session'.disabled = session.disabled
        /\ Becomes(session, session', t, st2, rs, un, in2) /\ LeaveStep(stk, "line", st, in, st2, in2)
    BY <1>4, <1>5, <1>7
  <2> HIDE DEF st2, in2
  <2>4. QED
    BY <1>1, <1>7, <2>1, <2>2, <2>3, PopKeeps
<1>8. ASSUME session' = session, Popped(t, "raising"), "unwind" \notin session.global PROVE IndInv'
  <2>1. ~in.held
    BY <1>2, <1>8 DEF Kept, GlobalMasked, GlobalWanted, ArmedAnywhere
  <2>2. ~st.on /\ ~rs.on /\ ~un.on
    BY <1>2, <2>1 DEF One
  <2>3. LeaveStep(stk, "line", st, in, st, in)
    BY <2>2 DEF LeaveStep, StepStays
  <2>4. Kept(session') /\ session'.disabled = session.disabled /\ Becomes(session, session', t, st, rs, un, in)
    BY <1>2, <1>8, AlsoBecomes
  <2>5. QED
    BY <1>1, <1>8, <2>2, <2>3, <2>4, PopKeeps
<1>9. ASSUME stops, stack' = stack, Stop(t, "abandoned", "leaving") PROVE IndInv'
  <2>1. rs.on \/ un.on
    BY <1>6, <1>9 DEF RestartLeft
  <2>2. st = NoStep /\ ~st.on
    BY <1>2, <2>1 DEF One
  <2>3. left1.step[t] = NoStep
    BY <1>4, <2>2 DEF LeaveStep, StepStays
  <2>4. /\ Kept(session') /\ session'.disabled = session.disabled
        /\ Becomes(left1, session', t, NoStep, NoRestart, NoUnwind, NoInterest)
    <3>1. ASSUME rs.on, session' = RestartRelease(left1, t)
          PROVE  /\ Kept(session') /\ session'.disabled = left1.disabled
                 /\ Becomes(left1, session', t, NoStep, NoRestart, NoUnwind, NoInterest)
      <4>1. un = NoUnwind
        BY <1>2, <3>1 DEF One
      <4>2. QED
        BY <1>5, <1>6, <2>3, <3>1, <4>1, RestartReleaseIs
    <3>2. ASSUME un.on, session' = UnwindRelease(left1, t)
          PROVE  /\ Kept(session') /\ session'.disabled = left1.disabled
                 /\ Becomes(left1, session', t, NoStep, NoRestart, NoUnwind, NoInterest)
      <4>1. rs = NoRestart
        BY <1>2, <3>2 DEF One
      <4>2. QED
        BY <1>5, <1>6, <2>3, <3>2, <4>1, UnwindReleaseIs
    <3>3. QED
      BY <1>5, <1>6, <1>9, <3>1, <3>2 DEF RestartLeft
  <2>5. Becomes(session, session', t, NoStep, NoRestart, NoUnwind, NoInterest)
    BY <1>2, <1>5, <2>4, BecomesThen
  <2>6. Alike(stk, stk) /\ stack' = [stack EXCEPT ![t] = stk]
    BY <1>2, <1>9 DEF Alike
  <2>7. "abandoned" \in Reasons /\ "abandoned" # "stepped" /\ "leaving" # "line"
        /\ at[t] \notin {"leaving", "over"}
    BY <1>1 DEF Reasons
  <2>8. QED
    BY <1>2, <1>9, <2>4, <2>5, <2>6, <2>7, HeldKeeps
<1> HIDE DEF stops
<1>10. QED
  BY <1>1, <1>7, <1>8, <1>9

\* An exception leaves a frame whose thread was let go in that callback.
LEMMA LeaveKeeps ==
    ASSUME IndInv, NEW t \in Threads, Leave(t) PROVE IndInv'
<1>1. at[t] = "leaving" /\ session' = session /\ Popped(t, "raising")
  BY DEF Leave
<1>2. /\ Kept(session) /\ session \in Sessions
      /\ Unwinding(stack[t], at[t], session.unwind[t], session.interest[t])
  BY AtIs DEF Fit
<1>3. ~session.unwind[t].on
  BY <1>1, <1>2 DEF Unwinding
<1>4. /\ Becomes(session, session', t, session.step[t], session.restart[t], session.unwind[t],
              session.interest[t])
      /\ StepStays(session.step[t], session.interest[t], session.step[t], session.interest[t])
  BY <1>1, <1>2, AlsoBecomes DEF StepStays
<1>5. QED
  BY <1>1, <1>2, <1>3, <1>4, PopKeeps

-----------------------------------------------------------------------------
(***************************************************************************)
(* After a call, and when an exception is raised.                          *)
(***************************************************************************)
\* The instruction after a call begins.
LEMMA InstructionKeeps ==
    ASSUME IndInv, NEW t \in Threads, Instruction(t) PROVE IndInv'
<1> DEFINE stk   == stack[t]
           st    == session.step[t]
           rs    == session.restart[t]
           un    == session.unwind[t]
           in    == session.interest[t]
           st2   == session'.step[t]
           in2   == session'.interest[t]
           lands == StepLands(session, t, stk, "instruction")
<1>1. /\ at[t] = "returned" /\ stack' = stack
      /\ \/ /\ "instruction" \notin session.local[Top(stk).code] /\ session' = session /\ RunOn(t, "past")
         \/ /\ session' = StepReached(session, t, stk, "instruction")
            /\ \/ lands /\ Stop(t, "stepped", "mid")
               \/ ~lands /\ RunOn(t, "past")
  BY DEF Instruction
<1>2. /\ Kept(session) /\ session \in Sessions /\ One(session, t) /\ stk \in Seq(Frames)
      /\ Stacked(stk, at[t]) /\ Restarting(stk, at[t], rs, un, in) /\ Unwinding(stk, at[t], un, in)
      /\ rs \in RestartStates /\ stack = [stack EXCEPT ![t] = stk]
  BY AtIs, SameAt DEF Fit, Typed
<1>3. stk # <<>>
  BY <1>1, <1>2 DEF Stacked
<1>4. ~un.on /\ un = NoUnwind
  BY <1>1, <1>2 DEF Unwinding, One
<1>5. rs.on => rs.phase = "entering"
  BY <1>1, <1>2 DEF Restarting, Rewinding, RestartStates
<1>6. Alike(stk, stk) /\ stack' = [stack EXCEPT ![t] = stk]
  BY <1>1, <1>2 DEF Alike
<1>7. lands <=> Lands(stk, "instruction", st)
  BY DEF StepLands, StepWaits, Lands, Waits
<1>8. at[t] \notin {"leaving", "over", "held"} /\ "stepped" \in Reasons /\ "mid" # "line"
  BY <1>1 DEF Reasons
<1> HIDE DEF lands
<1>9. ASSUME "instruction" \notin session.local[Top(stk).code], session' = session, RunOn(t, "past")
      PROVE  IndInv'
  <2>1. ~Waits(stk, "instruction", st)
    BY <1>1, <1>3, <1>9, WaitsAreTold
  <2>2. /\ ReachStep(stk, "instruction", st, in, st, in) /\ ~Lands(stk, "instruction", st)
    BY <2>1 DEF ReachStep, Lands, StepStays
  <2>3. /\ Kept(session') /\ session'.disabled = session.disabled
        /\ Becomes(session, session', t, st, rs, un, in) /\ Forgets(session, session', t)
    BY <1>2, <1>9, AlsoBecomes DEF Forgets
  <2>4. QED
    BY <1>1, <1>2, <1>4, <1>5, <1>6, <1>8, <1>9, <2>2, <2>3, PassedKeeps
<1>10. ASSUME session' = StepReached(session, t, stk, "instruction")
       PROVE  /\ Kept(session') /\ session'.disabled = session.disabled
              /\ Becomes(session, session', t, st2, rs, un, in2)
              /\ ReachStep(stk, "instruction", st, in, st2, in2)
  BY <1>2, <1>3, <1>10, StepReachedIs DEF Changes
<1> HIDE DEF st2, in2
<1>11. ASSUME session' = StepReached(session, t, stk, "instruction"), lands, Stop(t, "stepped", "mid")
       PROVE  IndInv'
  <2>1. Lands(stk, "instruction", st) /\ st.on
    BY <1>7, <1>11 DEF Lands, Waits
  <2>2. rs = NoRestart
    BY <1>2, <2>1 DEF One
  <2>3. st2 = NoStep
    BY <1>10, <1>11, <2>1 DEF ReachStep, StepStays, Lands
  <2>4. /\ Kept(session') /\ session'.disabled = session.disabled
        /\ Becomes(session, session', t, NoStep, NoRestart, NoUnwind, in2)
    BY <1>4, <1>10, <1>11, <2>2, <2>3
  <2>5. QED
    BY <1>2, <1>6, <1>8, <1>11, <2>1, <2>4, HeldKeeps
<1>12. ASSUME session' = StepReached(session, t, stk, "instruction"), ~lands, RunOn(t, "past")
       PROVE  IndInv'
  <2>1. ~Lands(stk, "instruction", st)
    BY <1>7, <1>12
  <2>2. Forgets(session, session', t)
    <3>1. session'.interest[t] = in2
      BY DEF in2
    <3>2. ~in.held => in2 = in
      BY <1>2, <1>10, <1>12 DEF One, ReachStep, Lands, Waits, StepStays
    <3>3. QED
      BY <1>10, <1>12, <3>1, <3>2 DEF Forgets
  <2>3. QED
    BY <1>1, <1>2, <1>4, <1>5, <1>6, <1>8, <1>10, <1>12, <2>1, <2>2, PassedKeeps
<1>13. QED
  BY <1>1, <1>9, <1>11, <1>12

\* An exception is raised.
LEMMA RaiseKeeps ==
    ASSUME IndInv, NEW t \in Threads, Raise(t) PROVE IndInv'
<1> DEFINE stk == stack[t]
           st  == session.step[t]
           rs  == session.restart[t]
           un  == session.unwind[t]
           in  == session.interest[t]
<1>1. /\ at[t] \in {"line", "mid", "past", "tail", "rewound"} /\ stack' = stack
      /\ \/ session' = session /\ RunOn(t, "raising")
         \/ session' = LeftArmedHere(session, t) /\ Stop(t, "raised", "raising")
  BY DEF Raise, InLine
<1>2. /\ Kept(session) /\ session \in Sessions /\ stk \in Seq(Frames) /\ Len(stk) <= Depth[t]
      /\ Fit(stk, at[t], why[t], asked[t], st, rs, un, in, session.disabled)
      /\ asked[t] \in Asks /\ why[t] \in Reasons /\ after[t] \in {"line", "mid", "raising", "leaving"}
      /\ left \in [asks : Nat, pauses : Nat]
      /\ stack = [stack EXCEPT ![t] = stk] /\ asked = [asked EXCEPT ![t] = asked[t]]
      /\ why = [why EXCEPT ![t] = why[t]] /\ after = [after EXCEPT ![t] = after[t]]
  BY AtIs, SameAt
<1>3. ASSUME session' = session, RunOn(t, "raising") PROVE IndInv'
  <2>1. /\ at' = [at EXCEPT ![t] = "raising"] /\ after' = after /\ why' = why /\ asked' = asked /\ left' = left
        /\ "raising" \in Places /\ "raising" # "held"
    BY <1>3 DEF RunOn, Places
  <2>2. Fit(stk, "raising", why[t], asked[t], st, rs, un, in, session'.disabled)
    BY <1>1, <1>2, <1>3, RaisingFits
  <2>3. Kept(session') /\ Becomes(session, session', t, st, rs, un, in) /\ Forgets(session, session', t)
    BY <1>2, <1>3, AlsoBecomes DEF Forgets
  <2>4. QED
    BY <1>1, <1>2, <2>1, <2>2, <2>3, Moves
<1>4. ASSUME session' = LeftArmedHere(session, t), Stop(t, "raised", "raising") PROVE IndInv'
  <2>1. /\ Kept(session') /\ session'.disabled = session.disabled
        /\ Becomes(session, session', t, NoStep, NoRestart, NoUnwind, NoInterest)
    BY <1>2, <1>4, LeftArmedHereIs
  <2>2. /\ Alike(stk, stk) /\ stack' = [stack EXCEPT ![t] = stk] /\ at[t] \notin {"leaving", "over"}
        /\ "raised" \in Reasons /\ "raised" # "stepped" /\ "raising" # "line"
    BY <1>1, <1>2 DEF Alike, Reasons
  <2>3. QED
    BY <1>2, <1>4, <2>1, <2>2, HeldKeeps
<1>5. QED
  BY <1>1, <1>3, <1>4

-----------------------------------------------------------------------------
(***************************************************************************)
(* The whole.                                                              *)
(***************************************************************************)
\* Nothing is armed at first, and only breakpoints are wanted.
LEMMA InitKeeps ==
    ASSUME Init PROVE IndInv
<1>1. /\ stack = [t \in Threads |-> <<Frame(1, Entry[t])>>] /\ at = [t \in Threads |-> "started"]
      /\ after = [t \in Threads |-> "line"] /\ why = [t \in Threads |-> "none"]
      /\ asked = [t \in Threads |-> NotAsked] /\ left = [asks |-> MaxAsks, pauses |-> MaxPauses]
  BY DEF Init
<1> DEFINE base == [c \in Codes |-> IF \E l \in Lines : <<c, l>> \in Breaks THEN {"line"} ELSE {}]
<1>2. /\ session = [step |-> [t \in Threads |-> NoStep], restart |-> [t \in Threads |-> NoRestart],
                    unwind |-> [t \in Threads |-> NoUnwind], interest |-> [t \in Threads |-> NoInterest],
                    local |-> base, global |-> {}, disabled |-> {}, pausing |-> FALSE]
  BY DEF Init
<1>3. \A t \in Threads : Frame(1, Entry[t]) \in Frames
  BY StepsAssumption DEF Frame, Frames
<1>4. base \in [Codes -> SUBSET Events]
  BY DEF Events
<1>5. session \in Sessions
  <2> HIDE DEF base
  <2>1. QED
    BY <1>2, <1>4, NothingIsTyped DEF Sessions
<1>6. \A t \in Threads : /\ session.step[t] = NoStep /\ session.restart[t] = NoRestart
                         /\ session.unwind[t] = NoUnwind /\ session.interest[t] = NoInterest
  BY <1>2
<1>7. ASSUME NEW t \in Threads PROVE One(session, t) /\ Tidy(session, t)
  <2>1. /\ ~session.step[t].on /\ ~session.restart[t].on /\ ~session.unwind[t].on
        /\ ~session.interest[t].held /\ \A c \in Codes : session.interest[t].watching[c] = {}
    BY <1>6 DEF NoStep, NoRestart, NoUnwind, NoInterest
  <2>2. One(session, t)
    BY <1>6, <2>1 DEF One
  <2>3. Tidy(session, t)
    BY <2>1 DEF Tidy
  <2>4. QED
    BY <2>2, <2>3
<1>8. LocalMasked(session)
  <2>1. SUFFICES ASSUME NEW c \in Codes PROVE session.local[c] = LocalWanted(session, c)
    BY DEF LocalMasked
  <2>2. session.local[c] = IF \E l \in Lines : <<c, l>> \in Breaks THEN {"line"} ELSE {}
    BY <1>2
  <2>3. UNION {session.interest[t].watching[c] : t \in Threads} = {}
    <3>1. \A t \in Threads : session.interest[t].watching[c] = {}
      BY <1>6 DEF NoInterest
    <3>2. QED
      BY <3>1
  <2>4. QED
    BY <2>2, <2>3 DEF LocalWanted
<1>9. ~ArmedAnywhere(session) /\ ~EnteringAnywhere(session)
  BY <1>6 DEF ArmedAnywhere, EnteringAnywhere, NoInterest
<1>10. GlobalMasked(session)
  BY <1>2, <1>9 DEF GlobalMasked, GlobalWanted
<1>11. Shape
  <2>1. stack \in [Threads -> Seq(Frames)]
    BY <1>1, <1>3
  <2>2. NotAsked \in Asks
    BY DEF NotAsked, Asks, Kinds
  <2>3. left \in [asks : Nat, pauses : Nat]
    BY <1>1, StepsAssumption
  <2>4. at \in [Threads -> Places] /\ why \in [Threads -> Reasons]
    BY <1>1 DEF Places, Reasons
  <2>5. QED
    BY <1>1, <2>1, <2>2, <2>3, <2>4 DEF Shape
<1>12. ASSUME NEW t \in Threads PROVE Fits(t)
  <2>1. /\ stack[t] = <<Frame(1, Entry[t])>> /\ at[t] = "started" /\ asked[t] = NotAsked
    BY <1>1
  <2>2. Len(stack[t]) = 1 /\ stack[t] # <<>> /\ 1 <= Depth[t]
    BY <2>1, StepsAssumption
  <2>3. Stacked(stack[t], at[t])
    BY <2>1, <2>2 DEF Stacked
  <2>4. ~session.step[t].on /\ ~session.restart[t].on /\ ~session.unwind[t].on
    BY <1>6 DEF NoStep, NoRestart, NoUnwind
  <2>5. /\ Restarting(stack[t], at[t], session.restart[t], session.unwind[t], session.interest[t])
        /\ Unwinding(stack[t], at[t], session.unwind[t], session.interest[t])
    BY <2>1, <2>4 DEF Restarting, Unwinding
  <2>6. Fit(stack[t], at[t], why[t], NotAsked, session.step[t], session.restart[t],
            session.unwind[t], session.interest[t], session.disabled)
    BY <2>1, <2>3, <2>4, <2>5, UnaskedFits
  <2>7. QED
    BY <2>1, <2>2, <2>6 DEF Fits
<1>13. QED
  BY <1>5, <1>7, <1>8, <1>9, <1>10, <1>11, <1>12 DEF IndInv, Kept, Offering

\* Every step of the program keeps the invariant.
LEMMA StepKeepsInvariant ==
    ASSUME IndInv, [Next]_vars PROVE IndInv'
<1>1. CASE UNCHANGED vars
  BY <1>1 DEF vars, IndInv, Shape, Offering, ArmedAnywhere, Fits
<1>2. CASE AskPause
  BY <1>2, AskPauseKeeps
<1>3. ASSUME NEW t \in Threads, Engine(t) PROVE IndInv'
  <2>1. CASE Resume(t)
    BY <2>1, ResumeKeeps
  <2>2. ASSUME NEW kind \in {"over", "in", "out"}, NEW target \in Calls \cup {0}, Step(t, kind, target)
        PROVE  IndInv'
    BY <2>2, StepKeeps
  <2>3. CASE RestartFrame(t)
    BY <2>3, RestartFrameKeeps
  <2>4. ASSUME NEW i \in 1..(Len(stack[t]) - 1), UnwindTo(t, i) PROVE IndInv'
    BY <2>4, UnwindToKeeps
  <2>5. CASE ResetInPlace(t)
    BY <2>5, ResetInPlaceKeeps
  <2>6. QED
    BY <1>3, <2>1, <2>2, <2>3, <2>4, <2>5 DEF Engine
<1>4. ASSUME NEW t \in Threads, Program(t) PROVE IndInv'
  <2>1. ASSUME NEW l \in Lines, BeginLine(t, l) PROVE IndInv'
    BY <2>1, BeginLineKeeps
  <2>2. ASSUME NEW c \in Codes, NEW k \in Calls, Call(t, c, k) PROVE IndInv'
    BY <2>2, CallKeeps
  <2>3. CASE Return(t)
    BY <2>3, ReturnKeeps
  <2>4. CASE Instruction(t)
    BY <2>4, InstructionKeeps
  <2>5. CASE Raise(t)
    BY <2>5, RaiseKeeps
  <2>6. CASE Unwind(t)
    BY <2>6, UnwindKeeps
  <2>7. CASE Leave(t)
    BY <2>7, LeaveKeeps
  <2>8. QED
    BY <1>4, <2>1, <2>2, <2>3, <2>4, <2>5, <2>6, <2>7 DEF Program
<1>5. QED
  BY <1>1, <1>2, <1>3, <1>4 DEF Next

\* Whatever a thread has armed is for the frames it runs and for what it was asked,
\* and is told to the interpreter: the registry, the masks and the frames of every
\* thread go together after every callback.
THEOREM Inductive == Spec => []IndInv
<1>1. Init => IndInv
  BY InitKeeps
<1>2. IndInv /\ [Next]_vars => IndInv'
  BY StepKeepsInvariant
<1>3. QED
  BY <1>1, <1>2, PTL DEF Spec

\* The state of every thread and of the session has its type.
THEOREM TypesHold == Spec => []TypeOK
<1>1. ASSUME IndInv PROVE TypeOK
  <2>1. /\ Shape /\ session \in Sessions
    BY <1>1 DEF IndInv, Kept
  <2>2. ASSUME NEW t \in Threads PROVE Len(stack[t]) <= Depth[t] /\ (at[t] = "over" <=> stack[t] = <<>>)
    BY <1>1 DEF IndInv, Fits, Fit, Stacked
  <2>3. QED
    BY <2>1, <2>2 DEF TypeOK, Shape, Sessions, Locations
<1>2. QED
  BY <1>1, Inductive, PTL

\* The interpreter's masks are what the breakpoints and all the threads want.
THEOREM MasksHold == Spec => []OnlyWhatIsArmed
<1>1. IndInv => OnlyWhatIsArmed
  BY DEF IndInv, Kept, LocalMasked, GlobalMasked, OnlyWhatIsArmed
<1>2. QED
  BY <1>1, Inductive, PTL

\* A thread has at most one operation, and is in the registry exactly then.
LEMMA OneIsOne ==
    ASSUME IndInv PROVE OneOperation
<1>1. SUFFICES ASSUME NEW t \in Threads
               PROVE  LET on == {op \in {"step", "restart", "unwind"} : session[op][t].on}
                      IN  /\ Cardinality(on) <= 1
                          /\ session.interest[t].held <=> on # {}
                          /\ at[t] = "held" => on = {}
  BY DEF OneOperation
<1> DEFINE on == {op \in {"step", "restart", "unwind"} : session[op][t].on}
<1>2. One(session, t)
  BY AtIs
<1>3. /\ "step" \in on <=> session.step[t].on
      /\ "restart" \in on <=> session.restart[t].on
      /\ "unwind" \in on <=> session.unwind[t].on
      /\ on \subseteq {"step", "restart", "unwind"}
  OBVIOUS
<1> HIDE DEF on
<1>4. session.interest[t].held <=> on # {}
  BY <1>2, <1>3 DEF One
<1>5. at[t] = "held" => on = {}
  BY <1>3, HeldIs DEF Idle
<1>6. Cardinality(on) <= 1
  <2>1. on = {} \/ \E op \in {"step", "restart", "unwind"} : on = {op}
    BY <1>2, <1>3 DEF One
  <2>2. CASE on = {}
    BY <2>2, FS_EmptySet
  <2>3. ASSUME NEW op, on = {op} PROVE Cardinality(on) <= 1
    <3>1. Cardinality({op}) = 1
      BY FS_Singleton
    <3>2. Cardinality(on) = 1
      BY <2>3, <3>1
    <3>3. QED
      BY <3>2
  <2>4. QED
    BY <2>1, <2>2, <2>3
<1>7. QED
  BY <1>4, <1>5, <1>6 DEF on

\* What is armed is about frames that are there.
LEMMA LiveIsLive ==
    ASSUME IndInv PROVE InFlightIsLive
<1>1. SUFFICES ASSUME NEW t \in Threads
               PROVE  /\ session.step[t].on /\ ~asked[t].leaving => session.step[t].frame \in IdsOf(stack[t])
                      /\ session.restart[t].on /\ session.restart[t].phase # "entering" =>
                           session.restart[t].caller \in IdsOf(stack[t])
                      /\ session.unwind[t].on => session.unwind[t].target \in IdsOf(stack[t])
  BY DEF InFlightIsLive
<1> DEFINE stk == stack[t]
           rs  == session.restart[t]
           un  == session.unwind[t]
           in  == session.interest[t]
<1>2. /\ stk \in Seq(Frames) /\ Stacked(stk, at[t]) /\ rs \in RestartStates
      /\ Stepping(stk, at[t], asked[t], session.step[t], in)
      /\ Restarting(stk, at[t], rs, un, in) /\ Unwinding(stk, at[t], un, in)
  BY AtIs DEF Fit, Typed
<1>3. session.step[t].on /\ ~asked[t].leaving => session.step[t].frame \in IdsOf(stk)
  BY <1>2 DEF Stepping
<1>4. un.on => un.target \in IdsOf(stk)
  BY <1>2, IdsAre, ZenonT(40) DEF Unwinding, ForcedFrom
<1>5. ASSUME rs.on, rs.phase # "entering" PROVE rs.caller \in IdsOf(stk)
  <2>1. \/ Len(stk) > 1 /\ Caller(stk).id = rs.caller
        \/ stk # <<>> /\ Top(stk).id = rs.caller
    BY <1>2, <1>5 DEF Restarting, Rewinding, RestartStates, Stacked
  <2>2. stk # <<>>
    BY <1>2, <2>1
  <2>3. /\ Len(stk) \in Nat \ {0} /\ Top(stk) = stk[Len(stk)]
        /\ Len(stk) > 1 => Caller(stk) = stk[Len(stk) - 1]
    BY <1>2, <2>2, TopIs
  <2>4. \A n \in Nat \ {0} : n \in 1..n /\ (n > 1 => n - 1 \in 1..n)
    OBVIOUS
  <2>5. \E i \in 1..Len(stk) : stk[i].id = rs.caller
    <3> DEFINE n == Len(stk)
    <3> HIDE DEF stk, n
    <3>1. n \in Nat \ {0} /\ n = Len(stk)
      BY <2>3 DEF n
    <3>2. n \in 1..n /\ (n > 1 => n - 1 \in 1..n)
      BY <2>4, <3>1
    <3>3. QED
      BY <2>1, <2>3, <3>1, <3>2
  <2>6. QED
    BY <1>2, <2>5, IdsAre
<1>6. QED
  BY <1>3, <1>4, <1>5

\* A thread has one operation at most, about a frame that it still runs, and its
\* step lands where it was asked to or not at all.
THEOREM OperationsAreKept == Spec => []OperationIsKept
<1>1. ASSUME IndInv PROVE LandedWell
  <2>1. \A t \in Threads : Landed(stack[t], at[t], why[t], asked[t])
    BY <1>1 DEF IndInv, Fits, Fit
  <2>2. QED
    BY <2>1 DEF Landed, LandedWell, Below
<1>2. IndInv => OperationIsKept
  BY <1>1, OneIsOne, LiveIsLive DEF OperationIsKept, OperationIsCurrent
<1>3. QED
  BY <1>2, Inductive, PTL

\* No thread runs past the place where its step lands, whatever the other threads
\* do, but for what a library has called back.
THEOREM NoStepIsMissed == Spec => []StepIsNotMissed
<1>1. ASSUME IndInv, NEW t \in Threads,
             at[t] \in {"line", "past"}, asked[t].kind # "nothing", ~asked[t].leaving,
             asked[t].kind = "in" \/ ~CalledBack(t)
      PROVE  ~ShouldLand(t)
  <2>1. Seen(stack[t], at[t], asked[t])
    BY <1>1 DEF IndInv, Fits, Fit
  <2>2. QED
    BY <1>1, <2>1 DEF Seen, CalledBack, ShouldLand, Below
<1>2. IndInv => StepIsNotMissed
  BY <1>1 DEF StepIsNotMissed
<1>3. QED
  BY <1>2, Inductive, PTL
=====================================
