------------------------------- MODULE Rerun -------------------------------
(***************************************************************************)
(* Reading a code object's instructions, to decide what running a line     *)
(* again does: crates/bpd_agent/src/bytecode.rs, which a restart asks of   *)
(* the caller of the frame it forces out and of the frame itself, and an   *)
(* unwind and a reset ask of every frame they touch.                       *)
(*                                                                         *)
(* The operators of the first part are the analysis.  Those of the second  *)
(* are the interpreter, which the analysis must be right about: it runs    *)
(* the line, lets the call return a value the program never computed, runs *)
(* the rest of the line, goes back to the start of the line and runs it up *)
(* to the call again.  The state is a code object that a compiler writes,  *)
(* one instruction at a time, and the frame that runs it.                  *)
(*                                                                         *)
(* Opcodes that differ only in spelling are one op.  A value is the set of *)
(* what it is made of.                                                     *)
(***************************************************************************)
EXTENDS Integers, Sequences, FiniteSets, SequencesExt

CONSTANTS
    Fasts,       \* names of local slots, or of a namespace in a body
    Params,      \* those of them that are parameters
    Cells,       \* names of free variables
    Globals,     \* names of the globals
    Alphabet(_, _),  \* the instructions that the compiler writes next, in a frame, after a code
    MaxCode,     \* how many of them in one code object
    Lines,       \* the lines it writes them on
    MaxOdd,      \* how many things about a frame are out of the ordinary
    Rewrites,    \* whether a line may store, before its call, what it has read
    Deletes      \* whether a parameter may be deleted

ASSUME SlotsAssumption == Params \subseteq Fasts
ASSUME BoundsAssumption == MaxCode \in Nat /\ MaxOdd \in Nat /\ Lines \subseteq Nat \ {0}

Names == Fasts \cup Cells \cup Globals

Ins(op, names, arg) == [op |-> op, names |-> names, arg |-> arg]

VARIABLES
    frame,   \* what the frame is, and what its names hold at the start of a line
    code     \* its instructions: each an Ins, with its line and the depth before it

vars == <<frame, code>>

-----------------------------------------------------------------------------
(***************************************************************************)
(* The lists.                                                              *)
(***************************************************************************)

Exiting == {"return", "returnConst", "const", "load", "check", "deref", "global", "nop"}

Loads == {"load", "check", "load2", "const", "global", "deref", "name"}

LocalStores == {"store", "store2", "storeLoad"}

SharedWithTheCallee == {"storeGlobal", "storeDeref"}

Storing == LocalStores \cup SharedWithTheCallee \cup {"storeName"}

AfterAForcedReturn == Loads \cup LocalStores \cup {"copy", "swap", "build", "pop", "nop"}

BesideTheCall == AfterAForcedReturn \cup SharedWithTheCallee \cup {"storeName"}

Calling == {"call", "unpack"}

Returning == {"return", "returnConst"}

Naming == (Loads \ {"const"}) \cup Storing

NamesOf(i) == IF i.op \in Naming THEN i.names ELSE <<>>

Writes(i) ==
    CASE i.op = "store2" -> 2
      [] i.op \in Storing \ {"store2"} -> 1
      [] OTHER -> 0

Written(i) == SubSeq(NamesOf(i), 1, Writes(i))

Read(i) == SubSeq(NamesOf(i), Writes(i) + 1, Len(NamesOf(i)))

AllOf(seqs) == UNION {ToSet(seqs[k]) : k \in DOMAIN seqs}

-----------------------------------------------------------------------------
(***************************************************************************)
(* What the frame says of the mappings and slots behind its names.         *)
(***************************************************************************)

Nothing == {"nothing"}

NamespacesOf(f, env) ==
    LET holdNothing(names) == {n \in names : env[n] = Nothing}
    IN  [globalsExact     |-> f.globalsExact,
         localsExact      |-> f.localsExact,
         localsAreGlobals |-> f.localsAreGlobals,
         unresolvable     |-> holdNothing(IF f.body THEN Globals \cup Fasts ELSE Globals),
         unboundCells     |-> holdNothing(Cells),
         unboundFasts     |-> IF f.body THEN {} ELSE holdNothing(Fasts)]

Refuses(ns, i) ==
    \/ ~ns.globalsExact /\ i.op \in {"global", "name"}
    \/ ~ns.localsExact /\ i.op \in {"name", "storeName"}

(* The frame is moved first, or it is not moved yet. *)
Raises(ns, i, moved) ==
    LET heldNowhere == CASE i.op = "deref" -> ns.unboundCells
                         [] i.op \in {"global", "name"} -> ns.unresolvable
                         [] i.op = "check" /\ ~moved -> ns.unboundFasts
                         [] OTHER -> {}
    IN  {n \in ToSet(NamesOf(i)) : n \in heldNowhere}

-----------------------------------------------------------------------------
(***************************************************************************)
(* The runs of instructions that carry one line.                           *)
(***************************************************************************)

OneRun(c, j, k) == \A m \in j..k : c[m].line = c[k].line

RunStart(c, k) == CHOOSE j \in 1..k : OneRun(c, j, k) /\ (j > 1 => ~OneRun(c, j - 1, k))

RunEnd(c, k) ==
    CHOOSE j \in k..Len(c) : OneRun(c, k, j) /\ (j < Len(c) => ~OneRun(c, k, j + 1))

Runs(c, line) == {RunStart(c, k) : k \in {k \in DOMAIN c : c[k].line = line}}

Destination(c, line) == CHOOSE j \in Runs(c, line) : \A k \in Runs(c, line) : j <= k

-----------------------------------------------------------------------------
(***************************************************************************)
(* Where a frame can be forced out.                                        *)
(***************************************************************************)

(* What dis.stack_effect answers. *)
Takes(i) ==
    CASE i.op \in {"call", "build"} -> i.arg
      [] i.op \in {"store2", "unpack"} -> 2
      [] i.op \in {"pop", "return", "other"} \cup (Storing \ {"store2"}) -> 1
      [] OTHER -> 0

Leaves(i) ==
    CASE i.op = "global" -> 1 + i.arg
      [] i.op = "load2" -> 2
      [] i.op \in Loads \ {"global", "load2"} -> 1
      [] i.op \in {"storeLoad", "copy", "build", "call", "unpack", "other"} -> 1
      [] OTHER -> 0

StackEffect(i) == Leaves(i) - Takes(i)

(* Mutant: where one value is left on the stack is taken for empty. *)
TailsAnywhere(c) ==
    {k \in DOMAIN c : \E r \in k..Len(c) :
        c[r].op \in Returning /\ \A j \in k..(r - 1) : c[j].op \in Exiting \ Returning}

(* The first depth-zero point on the way back from a return, if the        *)
(* instructions up to there run nothing: there is at most one.             *)
DepthZeroTails(c) ==
    {k \in DOMAIN c : \E r \in k..Len(c) :
        /\ c[r].op \in Returning
        /\ IF c[r].op = "returnConst" THEN k = r
           ELSE LET depth[j \in k..r] == IF j = r THEN 1
                                         ELSE depth[j + 1] - StackEffect(c[j])
                IN  /\ \A j \in k..(r - 1) : c[j].op \in Exiting \ Returning
                    /\ \A j \in (k + 1)..r : depth[j] > 0
                    /\ depth[k] = 0}

(* Walking on from there: it reaches the return, raises, or goes through a *)
(* mapping that is not a plain dict.                                       *)
ReachesAReturn(c, k, ns) ==
    LET r == CHOOSE r \in k..Len(c) :
                 c[r].op \in Returning /\ \A j \in k..(r - 1) : c[j].op \notin Returning
    IN  \A j \in k..r : Raises(ns, c[j], TRUE) = {} /\ ~Refuses(ns, c[j])

ExitTails(c, ns) == {k \in DepthZeroTails(c) \ {1} : ReachesAReturn(c, k, ns)}

-----------------------------------------------------------------------------
(***************************************************************************)
(* What the rest of the line does with the value of the call.              *)
(***************************************************************************)

Top(stack) == stack # <<>> /\ Last(stack)

Pop(stack) == IF stack = <<>> THEN stack ELSE Front(stack)

(* A store gives the name the value of the call, or takes it away again. *)
Bind(walk, name) ==
    [walk EXCEPT !.stack = Pop(@),
                 !.disturbed = IF Top(walk.stack) THEN @ \cup {name} ELSE @ \ {name},
                 !.written = @ \cup {name}]

Push(walk, names) ==
    [walk EXCEPT !.stack = @ \o [k \in DOMAIN names |-> names[k] \in walk.disturbed]]

WalkOn(walk, i) ==
    LET height == Len(walk.stack) IN
    CASE i.op \in Storing ->
            LET bound == FoldLeft(Bind, walk, Written(i))
            IN  IF i.op = "storeLoad" THEN Push(bound, Read(i)) ELSE bound
      [] i.op = "pop" -> [walk EXCEPT !.stack = Pop(@)]
      [] i.op = "copy" ->
            [walk EXCEPT !.stack = Append(@, i.arg <= height /\ @[height - i.arg + 1])]
      [] i.op = "swap" /\ height > 0 /\ i.arg <= height ->
            [walk EXCEPT !.stack[height] = walk.stack[height - i.arg + 1],
                         !.stack[height - i.arg + 1] = walk.stack[height]]
      [] i.op = "swap" /\ ~(height > 0 /\ i.arg <= height) ->
            [walk EXCEPT !.followed = @ /\ height > 0 /\ ~Top(walk.stack)]
      [] i.op = "build" ->
            LET kept == IF i.arg > height THEN 0 ELSE height - i.arg
            IN  [walk EXCEPT !.stack = Append(SubSeq(@, 1, kept),
                                              \E k \in (kept + 1)..height : @[k])]
      [] i.op = "global" /\ i.arg = 1 -> Push([walk EXCEPT !.stack = Append(@, FALSE)], i.names)
      [] i.op = "nop" -> walk
      [] i.op = "const" -> [walk EXCEPT !.stack = Append(@, FALSE)]
      [] OTHER -> Push(walk, NamesOf(i))

WrittenAfterTheCall(after) ==
    FoldLeft(WalkOn,
             [stack |-> <<TRUE>>, disturbed |-> {}, written |-> {}, followed |-> TRUE],
             after)

-----------------------------------------------------------------------------
(***************************************************************************)
(* The caller's line: whether making its call again is safe.               *)
(***************************************************************************)

(* A read raises for a name that nothing holds and the span has not bound. *)
FrameDependent(ns, span) ==
    \/ \E k \in DOMAIN span : Refuses(ns, span[k])
    \/ \E k \in DOMAIN span :
          LET bound == AllOf([j \in 1..(k - 1) |-> Written(span[j])])
          IN  ~(Raises(ns, span[k], FALSE) \subseteq bound)

WritesShared(ns, after) ==
    \E k \in DOMAIN after :
        \/ after[k].op \in SharedWithTheCallee
        \/ ns.localsAreGlobals /\ after[k].op = "storeName"

(* Mutant: only what the rest of the line leaves disturbed is compared. *)
ReadThenDisturbed(before, walk) ==
    AllOf([k \in DOMAIN before |-> Read(before[k])]) \cap walk.disturbed # {}

ReadThenWritten(before, walk) ==
    LET readBefore == AllOf([k \in DOMAIN before |-> Read(before[k])])
    IN  readBefore \cap (walk.disturbed \cup walk.written) # {}

CallLine(c, at, ns) ==
    LET line   == c[at].line
        from   == Destination(c, line)
        before == SubSeq(c, from, at - 1)
        after  == SubSeq(c, at + 1, RunEnd(c, at))
        span   == SubSeq(c, from, RunEnd(c, at))
        ops(s) == {s[k].op : k \in DOMAIN s}
        walk   == WrittenAfterTheCall(after)
        refusal ==
            IF c[at].op \notin Calling
            THEN "NotEnteredByACall"
            ELSE IF /\ Cardinality(Runs(c, line)) > 1
                    /\ RunStart(c, at) # from
                    /\ ops(before) \cap (Calling \cup Returning) # {}
            THEN "CopiedLine"
            ELSE IF ops(after) \cap Returning # {}
            THEN "NothingRunsAfterTheCall"
            ELSE IF ops(before \o after) \cap Calling # {}
            THEN "MoreThanOneCall"
            ELSE IF c[at].op = "unpack" \/ ~(ops(before \o after) \subseteq BesideTheCall)
            THEN "SomethingElseOnTheLine"
            ELSE IF FrameDependent(ns, span)
            THEN "NamespaceIsNotADict or ExitWouldRaise"
            ELSE IF WritesShared(ns, after)
            THEN "TailWritesSharedState"
            ELSE IF ~walk.followed
            THEN "SpanNotUnderstood"
            ELSE IF ReadThenWritten(before, walk)
            THEN "TheCallReadsWhatItStores"
            ELSE "none"
    IN  [refusal |-> refusal, from |-> from, disturbed |-> walk.disturbed]

-----------------------------------------------------------------------------
(***************************************************************************)
(* A frame that is unwound past, and one that is reset where it stands.    *)
(***************************************************************************)

TailAfter(c, at) ==
    LET after   == SubSeq(c, at + 1, RunEnd(c, at))
        returns == {k \in DOMAIN after : after[k].op \in Returning}
        last    == IF returns = {} THEN Len(after)
                   ELSE (CHOOSE k \in returns : \A j \in returns : k <= j) - 1
    IN  [returns |-> returns # {},
         runs    |-> \E k \in 1..last : after[k].op \notin AfterAForcedReturn]

(* A frame above the one that is reset: it receives a forced return, and   *)
(* leaves on its own or is forced out in its turn.                         *)
UnwoundPast(c, at, ns) ==
    /\ ~TailAfter(c, at).runs
    /\ TailAfter(c, at).returns \/ ExitTails(c, ns) # {}

(* Mutant: only the plain store is known to rebind. *)
StoresAParameter(c) ==
    \E k \in DOMAIN c : c[k].op = "store" /\ c[k].names[1] \in Params

RebindsAParameter(c) ==
    \E k \in DOMAIN c :
        Params \cap ToSet(IF c[k].op = "delete" THEN NamesOf(c[k]) ELSE Written(c[k])) # {}

(* What a reset leaves in the slots: it keeps the parameters, and the free *)
(* variables, and empties the rest.                                        *)
AfterReset(env) == [n \in Names |-> IF n \in Fasts \ Params THEN Nothing ELSE env[n]]

-----------------------------------------------------------------------------
(***************************************************************************)
(* The interpreter.                                                        *)
(***************************************************************************)

At(env, depth) ==
    [env |-> env, stack |-> [k \in 1..depth |-> {"below"}], ran |-> FALSE, raised |-> FALSE]

Under(m, i) == SubSeq(m.stack, 1, Len(m.stack) - Takes(i))

Operands(m, i) == SubSeq(m.stack, Len(m.stack) - Takes(i) + 1, Len(m.stack))

Nth(m, n) == m.stack[Len(m.stack) - n + 1]

Loaded(m, i) ==
    CASE i.op = "const" -> <<{"constant"}>>
      [] i.op = "global" /\ i.arg = 1 -> <<m.env[i.names[1]], {"null"}>>
      [] i.op = "storeLoad" -> <<m.env[i.names[2]]>>
      [] OTHER -> [k \in DOMAIN i.names |-> m.env[i.names[k]]]

Store(m, i) ==
    LET names == SubSeq(i.names, 1, Takes(i))
    IN  [m EXCEPT !.stack = Under(m, i),
                  !.env = [n \in Names |->
                      IF \E k \in DOMAIN names : names[k] = n
                      THEN Nth(m, CHOOSE k \in DOMAIN names :
                                      names[k] = n /\ (\A j \in DOMAIN names : names[j] = n => j <= k))
                      ELSE @[n]]]

(* A load of a namespace that is not a plain dict is code of the program,  *)
(* and so is whatever is not on the lists; a read of nothing raises.       *)
RunsProgram(f, i) ==
    \/ i.op \in {"other"} \cup Calling
    \/ ~f.globalsExact /\ i.op \in {"global", "name"}
    \/ ~f.localsExact /\ i.op \in {"name", "storeName"}

Raising(m, i) ==
    i.op \in {"check", "deref", "global", "name"} /\ m.env[i.names[1]] = Nothing

Do(f, m, i) ==
    LET quiet == [m EXCEPT !.ran = @ \/ RunsProgram(f, i)] IN
    CASE m.raised -> m
      [] ~m.raised /\ Raising(m, i) -> [quiet EXCEPT !.raised = TRUE]
      [] ~m.raised /\ ~Raising(m, i) ->
           CASE i.op \in Storing ->
                  LET stored == Store(quiet, i)
                  IN  IF i.op = "storeLoad"
                      THEN [stored EXCEPT !.stack = @ \o Loaded(stored, i)] ELSE stored
             [] i.op \in Loads -> [quiet EXCEPT !.stack = @ \o Loaded(m, i)]
             [] i.op = "copy" -> [quiet EXCEPT !.stack = Append(@, Nth(m, i.arg))]
             [] i.op = "swap" ->
                  [quiet EXCEPT !.stack[Len(m.stack)] = Nth(m, i.arg),
                                !.stack[Len(m.stack) - i.arg + 1] = Nth(m, 1)]
             [] i.op = "delete" -> [quiet EXCEPT !.env[i.names[1]] = Nothing]
             [] i.op = "build" ->
                  [quiet EXCEPT !.stack = Append(Under(m, i), UNION ToSet(Operands(m, i)))]
             [] i.op \in {"other"} \cup Calling ->
                  [quiet EXCEPT !.stack = Append(Under(m, i), {"computed"})]
             [] OTHER -> [quiet EXCEPT !.stack = Under(m, i)]

Exec(f, m, instructions) == FoldLeft(LAMBDA x, i : Do(f, x, i), m, instructions)

(* An assignment to f_lineno takes the stack down to the depth of where it *)
(* lands, and binds every local slot that holds nothing.                   *)
Moved(f, m, depth) ==
    [m EXCEPT !.stack = SubSeq(@, 1, depth),
              !.env = [n \in Names |->
                         IF ~f.body /\ n \in Fasts /\ @[n] = Nothing THEN {"None"} ELSE @[n]]]

-----------------------------------------------------------------------------
(***************************************************************************)
(* The compiler.                                                           *)
(***************************************************************************)

Holding(missing) == [n \in Names |-> IF n \in missing THEN Nothing ELSE {n}]

Frames ==
    {[body |-> body, globalsExact |-> g, localsExact |-> l, localsAreGlobals |-> same,
      env |-> Holding(missing)] :
        body \in BOOLEAN, g \in BOOLEAN, l \in BOOLEAN, same \in BOOLEAN,
        missing \in SUBSET (Names \ Params)}

Odd(f) == Cardinality({n \in Names : f.env[n] = Nothing} \cup {x \in {"globals", "locals"} :
              (x = "globals" /\ ~f.globalsExact) \/ (x = "locals" /\ f.body /\ ~f.localsExact)})

(* A function keeps its locals in slots; a namespace that is the globals   *)
(* is what they are.                                                       *)
Init ==
    /\ frame \in {f \in Frames :
                    /\ Odd(f) <= MaxOdd
                    /\ ~f.body => ~f.localsAreGlobals /\ ~f.localsExact
                    /\ f.localsAreGlobals => f.localsExact = f.globalsExact}
    /\ code = <<>>

(* How deep the stack is where the next instruction goes: after a return   *)
(* it is somewhere that is jumped to.                                      *)
DepthsHere ==
    IF code = <<>> THEN {0, 1}
    ELSE IF Last(code).op \in Returning THEN {0, 1}
    ELSE {Last(code).depth + StackEffect(Last(code))}

Needs(i) == IF i.op \in {"copy", "swap"} THEN i.arg ELSE Takes(i)

FitsTheStack(i, depth) ==
    /\ depth >= Needs(i)
    /\ i.op = "return" => depth = 1
    /\ i.op = "returnConst" => depth = 0

FitsTheFrame(i) ==
    /\ i.op \in {"name", "storeName"} => frame.body
    /\ i.op \in LocalStores \cup {"load", "check", "load2", "delete"} => ~frame.body

(* The compiler reads a slot without checking it where it is bound. *)
KnownBound(i) ==
    i.op \in {"load", "load2", "storeLoad", "delete"} =>
        \A name \in IF i.op = "delete" THEN ToSet(i.names) ELSE ToSet(Read(i)) :
            /\ frame.env[name] # Nothing \/ \E j \in DOMAIN code : name \in ToSet(Written(code[j]))
            /\ \A j \in DOMAIN code : code[j].op = "delete" => name # code[j].names[1]

(* Whether it writes what the line has read, with no call in between. *)
WritesWhatWasRead(i) ==
    \E j \in DOMAIN code :
        /\ ToSet(Read(code[j])) \cap ToSet(Written(i)) # {}
        /\ \A k \in j..Len(code) : code[k].op \notin Calling \cup Returning

(* What works on several operands is on the line that the first of them    *)
(* was loaded on, and a line that has begun takes what it has put there.   *)
ReachesItsLine(i, depth, line) ==
    LET begun == {k \in DOMAIN code : code[k].line = line}
        from  == CHOOSE k \in begun : \A j \in begun : k <= j
    IN  IF begun = {} THEN i.op \notin Calling \cup {"copy", "swap", "build", "other"}
        ELSE /\ code[from].depth <= depth - Needs(i)
             /\ \A k \in from..Len(code) : code[from].depth <= code[k].depth - Takes(code[k])

Emit(i) ==
    /\ Len(code) < MaxCode
    /\ FitsTheFrame(i)
    /\ \E depth \in DepthsHere :
          /\ FitsTheStack(i, depth) /\ KnownBound(i)
          /\ WritesWhatWasRead(i) => Rewrites
          /\ i.op = "delete" /\ ToSet(i.names) \cap Params # {} => Deletes
          /\ \E line \in Lines :
                /\ ReachesItsLine(i, depth, line)
                /\ code' = Append(code, [op |-> i.op, names |-> i.names, arg |-> i.arg,
                                         line |-> line, depth |-> depth])
    /\ UNCHANGED frame

Next == \E i \in Alphabet(frame, code) : Emit(i)

Spec == Init /\ [][Next]_vars

-----------------------------------------------------------------------------
(***************************************************************************)
(* Properties.                                                             *)
(***************************************************************************)

TypeOK ==
    /\ frame \in Frames
    /\ code \in Seq([op : STRING, names : Seq(Names), arg : Nat, line : Lines, depth : Nat])

(* What the interpreter does from the start of the span: it reaches the    *)
(* call, is given a value that the program never computed, and runs on to  *)
(* the end of the run.  The rewind is made there if the stack still holds  *)
(* what it held at the start of the span, and the line runs again.         *)
Earlier(k) ==
    [n \in Names |-> IF n \in AllOf([j \in 1..(k - 1) |-> Written(code[j])])
                     THEN {"earlier", n} ELSE frame.env[n]]

(* Where the frame may be waiting for a call. *)
Called == {k \in DOMAIN code : code[k].op \in Calling}

First(at, from) ==
    IF \E k \in from..(at - 1) : code[k].op \in Returning THEN At(Earlier(at), code[at].depth)
    ELSE Exec(frame, At(Earlier(from), code[from].depth), SubSeq(code, from, at - 1))

ForcedReturn(m, at) == [m EXCEPT !.stack = Append(Under(m, code[at]), {"forced"})]

RestOfLine(m, at) ==
    Exec(frame, [ForcedReturn(m, at) EXCEPT !.ran = FALSE],
         SubSeq(code, at + 1, RunEnd(code, at)))

Again(m, at, from) ==
    Exec(frame, Moved(frame, m, code[from].depth), SubSeq(code, from, at - 1))

(* A call that is permitted is made again as it was made: the line runs    *)
(* nothing of the program and raises nothing between the forced return and *)
(* the second call, which gets the operands of the first and finds every   *)
(* name that is read by code other than this frame's as the first did.     *)
(* What the frame itself holds is changed only in the names that the rest  *)
(* of the line writes.  (bytecode.rs:966, and bpd_core/src/jump.rs:618)    *)
SameCall ==
    \A at \in Called :
        LET from  == Destination(code, code[at].line)
            first == First(at, from)
            ns    == NamespacesOf(frame, first.env)
            tail  == RestOfLine(first, at)
            again == Again(tail, at, from)
            shared == IF frame.localsAreGlobals THEN Names ELSE Cells \cup Globals
            wrote == AllOf([k \in 1..(RunEnd(code, at) - at) |-> Written(code[at + k])])
        IN  CallLine(code, at, ns).refusal = "none" /\ ~first.raised
            => /\ ~tail.ran /\ ~tail.raised
               /\ Len(tail.stack) >= code[from].depth
                  => /\ ~again.ran /\ ~again.raised
                     /\ Operands(again, code[at]) = Operands(first, code[at])
                     /\ \A n \in Names :
                           \/ again.env[n] = first.env[n]
                           \/ n \notin shared /\ n \in wrote
                           \/ n \notin shared /\ first.env[n] = Nothing

(* The names that are said to be disturbed are those that hold a value     *)
(* made of the forced return when the line ends, no more and no fewer, and *)
(* it is nowhere below the line on the stack.  (bytecode.rs:1118)          *)
DisturbedIsTrue ==
    \A at \in Called :
        LET from  == Destination(code, code[at].line)
            first == First(at, from)
            said  == CallLine(code, at, NamespacesOf(frame, first.env))
            tail  == RestOfLine(first, at)
        IN  said.refusal = "none" /\ ~first.raised
            => /\ said.disturbed = {n \in Names : "forced" \in tail.env[n]}
               /\ \A k \in 1..code[from].depth :
                     k <= Len(tail.stack) => tail.stack[k] = {"below"}

(* What is said of a call line is what happens. *)
CallIsMadeAgain == SameCall /\ DisturbedIsTrue

(* A frame that is moved to one of its exits returns one value, of its     *)
(* own reading, and nothing else of it runs or raises.  (bytecode.rs:590)  *)
ExitsReturn ==
    \A k \in ExitTails(code, NamespacesOf(frame, frame.env)) :
        LET r == CHOOSE r \in k..Len(code) :
                     code[r].op \in Returning /\ \A j \in k..(r - 1) : code[j].op \notin Returning
            out == Exec(frame, Moved(frame, At(frame.env, code[k].depth), code[k].depth),
                        SubSeq(code, k, r - 1))
        IN  /\ ~out.ran /\ ~out.raised
            /\ Len(out.stack) = Takes(code[r])
            /\ "below" \notin UNION ToSet(out.stack)

(* A frame that is unwound past, in a program whose namespaces are plain   *)
(* and that holds what it reads, runs nothing of the program and writes    *)
(* nothing outside itself with the return it is given.  (inplace.rs:167)   *)
UnwindIsQuiet ==
    \A at \in Called :
        LET tail == RestOfLine(At(Earlier(at), code[at].depth), at)
        IN  /\ Odd(frame) = 0 /\ ~frame.body
            /\ UnwoundPast(code, at, NamespacesOf(frame, Earlier(at)))
            /\ ~TailAfter(code, at).returns
            => /\ ~tail.ran
               /\ \A n \in Cells \cup Globals : tail.env[n] = Earlier(at)[n]

(* Getting a frame out of the way runs nothing of the program. *)
ForcedOutQuietly == ExitsReturn /\ UnwindIsQuiet

(* A frame that is reset, wherever it had got to, holds what a fresh call  *)
(* would: the arguments as they were passed, and nothing else of its own.  *)
(* (inplace.rs:41, bytecode.rs:1320)                                       *)
ResetIsAFreshCall ==
    ~frame.body /\ ~RebindsAParameter(code)
    => \A k \in {k \in 0..Len(code) : \A j \in 1..k : code[j].op \notin Returning} :
          LET m == Exec(frame, At(frame.env, 2), SubSeq(code, 1, k))
              reset == AfterReset(Moved(frame, m, 0).env)
          IN  \A n \in Fasts : reset[n] = IF n \in Params THEN {n} ELSE Nothing

(* Both: what the debugger moves a frame past leaves no trace in it, nor in *)
(* the program.                                                            *)
MovedWithoutTrace == ForcedOutQuietly /\ ResetIsAFreshCall

=============================================================================
