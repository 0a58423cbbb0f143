----------------------------- MODULE Breakpoints -----------------------------
(***************************************************************************)
(* Breakpoints of the agent: the registry of code objects (code.rs), the   *)
(* set of breakpoints that is bound into it as files load, are replaced    *)
(* and as other breakpoints act (breakpoints.rs, replace.rs), what each    *)
(* does at a hit (conditions.rs, lib.rs), and what the client is told.     *)
(*                                                                         *)
(* A resolution runs under the GIL from the set to what is sent, so it is  *)
(* one step.  A condition runs the program's own code, so anything may     *)
(* come between two breakpoints of one hit.                                *)
(***************************************************************************)
EXTENDS Naturals, FiniteSets

CONSTANTS
    Runners,     \* threads of the program
    Codes,       \* code objects
    Shape,       \* of each: file, module, first line, lines, what it holds
    Trees,       \* a file on disk: its module, what each old code object becomes
    Sets,        \* the sets of breakpoints the client asks for
    MaxSets,     \* bound: how many sets are asked for
    MaxHits,     \* bound: how many hits begin
    MaxReplaced  \* bound: how many replacements are made

Requests == UNION Sets
Files    == {Shape[c].file : c \in Codes}
Plans    == [request : Requests, minted : 1..MaxSets]

ASSUME BreakpointsAssumption ==
    /\ {MaxSets, MaxHits, MaxReplaced} \subseteq Nat
    /\ \A c \in Codes : /\ c \in Shape[c].holds /\ Shape[c].holds \subseteq Codes
                        /\ Shape[c].lines \subseteq Nat \ {0} /\ Shape[c].lines # {}
    /\ \A r \in Requests : {r.id, r.line} \subseteq Nat \ {0} /\ {r.after, r.hits} \subseteq Nat
    /\ \A s \in Sets : \A r, q \in s : r.id = q.id => r = q
    /\ \A tree \in Trees : /\ tree.module \in Codes
                           /\ \A c \in DOMAIN tree.becomes :
                                tree.becomes[c].new \in Shape[tree.module].holds

VARIABLES
    code,   \* the registry: files known, the roots of each, files seen whole
    ran,    \* the program: modules about to run, modules run, code it runs
    set,    \* the plans of the set, the sites they are armed at, the ids that acted
    instr,  \* the interpreter: code objects with LINE events, forgotten locations
    count,  \* hits each plan has counted
    work,   \* the hit each thread is in the middle of
    told,   \* what the client was told last of each breakpoint
    acts,   \* history: how often each plan has acted
    left    \* how much of the bounds is left

bvars == <<code, ran, set, instr, count, work, told, acts, left>>

NoHit == [plans |-> {}, acted |-> {}, on |-> FALSE]

-----------------------------------------------------------------------------
(* The registry of code objects.                                           *)

\* A file is found through the first code object of it that starts.
NewlyLoaded(c) == Shape[c].file \notin code.known

Register(c) ==
    LET f == Shape[c].file
    IN  [known |-> code.known \cup {f},
         roots |-> [code.roots EXCEPT ![f] = @ \cup {c}],
         whole |-> IF Shape[c].module THEN code.whole \cup {f} ELSE code.whole]

\* Everything that hangs under the roots of a file and is of that file.
UnitsFor(k, f) ==
    {c \in UNION {Shape[r].holds : r \in k.roots[f]} : Shape[c].file = f}

\* A new tree takes the place of everything known of its file.
Adopt(k, m) ==
    LET f == Shape[m].file
    IN  [known |-> k.known \cup {f},
         roots |-> [k.roots EXCEPT ![f] = {m}],
         whole |-> k.whole \cup {f}]

-----------------------------------------------------------------------------
(* What a set of plans comes to.                                           *)

RequestOf(plans, id) == CHOOSE r \in {p.request : p \in plans} : r.id = id
IdsOf(plans) == {p.request.id : p \in plans}

\* Following `after` from a breakpoint comes back to one already passed.
Cycles(plans, id) ==
    LET before(i) == RequestOf(plans, i).after
        at[n \in 0..Cardinality(plans)] ==
          IF n = 0 THEN id
          ELSE IF at[n - 1] \in IdsOf(plans) THEN before(at[n - 1]) ELSE 0
    IN  at[Cardinality(plans)] \in IdsOf(plans)

\* A mutant: a breakpoint that waits is watched from the start.
ArmingAtOnce(plans, r, fired) ==
    IF r.after # 0 /\ (r.after \notin IdsOf(plans) \/ Cycles(plans, r.id)) THEN "never" ELSE "now"

\* Whether a breakpoint is armed now, waits for another, or never will be.
Arming(plans, r, fired) ==
    CASE r.after = 0 -> "now"
      [] r.after # 0 /\ (r.after \notin IdsOf(plans) \/ Cycles(plans, r.id)) -> "never"
      [] OTHER -> IF r.after \in fired THEN "now" ELSE "waiting"

Least(S) == CHOOSE n \in S : \A m \in S : n <= m
Most(S)  == CHOOSE n \in S : \A m \in S : m <= n

\* Whether a line is within the definition a code object is of.
Within(c, n) == Shape[c].first <= n /\ n <= Most(Shape[c].lines)

\* A definition holds one of the two lines only, and is not one whose every
\* line is also run by another around the line asked for.
Crosses(units, wanted, found) ==
    \E c \in units :
      /\ Within(c, wanted) # Within(c, found)
      /\ \E n \in Shape[c].lines : \A d \in units \ {c} :
           Within(d, wanted) => n \notin Shape[d].lines

Unbound(why) == [why |-> why, line |-> 0, sites |-> {}]

Binding(k, r) ==
    LET units == UnitsFor(k, r.file)
        later == {n \in UNION {Shape[c].lines : c \in units} : n >= r.line}
    IN  IF r.file \notin k.whole
        THEN Unbound(IF units = {} THEN "not loaded" ELSE "partially loaded")
        ELSE IF later = {} THEN Unbound("no executable line")
        ELSE IF Least(later) # r.line /\ Crosses(units, r.line, Least(later))
        THEN Unbound("crosses a definition")
        ELSE [why |-> "bound", line |-> Least(later),
              sites |-> {c \in units : Least(later) \in Shape[c].lines}]

\* What the client is told of a breakpoint.
Resolution(k, plans, fired, r) ==
    LET arming == Arming(plans, r, fired)
    IN  [binding |-> IF arming = "never" THEN Unbound("never arms") ELSE Binding(k, r),
         waiting |-> IF arming = "waiting" THEN r.after ELSE 0]

\* Where the plans are armed: what waits is resolved and left unarmed.
ArmedBy(k, plans, fired) ==
    UNION {LET b == Binding(k, p.request)
           IN  IF Arming(plans, p.request, fired) = "now"
               THEN {[code |-> c, line |-> b.line, plan |-> p] : c \in b.sites} ELSE {} :
           p \in plans}

CodesOf(armed) == {a.code : a \in armed}

\* A mutant: the locations the interpreter forgot are not offered again.
ArmWithoutRestart(old, new, but) ==
    [local |-> (instr.local \ CodesOf(old)) \cup CodesOf(new),
     forgotten |-> instr.forgotten \cup but]

\* The interpreter is told of every code object that was or is armed, and then
\* to offer every location again.  A start is forgotten once it is answered.
Arm(old, new, but) ==
    [local |-> (instr.local \ CodesOf(old)) \cup CodesOf(new), forgotten |-> but]

(***************************************************************************)
(* The whole set, resolved against registry k and armed.  An answer says   *)
(* all of it, an announcement what is bound otherwise than was last        *)
(* reported: to wait no longer is not that.                                *)
(***************************************************************************)
ResolveAll(k, plans, fired, but, announce) ==
    LET armed    == ArmedBy(k, plans, fired)
        news     == [id \in IdsOf(plans) |->
                       Resolution(k, plans, fired, RequestOf(plans, id))]
        reported == [id \in DOMAIN news |-> news[id].binding]
        changed  == {id \in DOMAIN news : id \notin DOMAIN set.reported
                                            \/ set.reported[id] # reported[id]}
    IN  /\ code' = k
        /\ set' = [plans |-> plans, armed |-> armed, fired |-> fired, reported |-> reported]
        /\ instr' = Arm(set.armed, armed, but)
        /\ told' = [id \in DOMAIN news |->
                      IF announce /\ id \notin changed /\ id \in DOMAIN told
                      THEN told[id] ELSE news[id]]

-----------------------------------------------------------------------------
(* The engine.                                                             *)

\* A mutant: every plan is compiled anew, and counts from nothing.
CompileAll(requests) ==
    {[request |-> r, minted |-> MaxSets + 1 - left.sets] : r \in requests}

\* A breakpoint asked for again unchanged keeps its plan, and its count.
Compile(requests) ==
    {p \in set.plans : p.request \in requests} \cup
    {[request |-> r, minted |-> MaxSets + 1 - left.sets] :
       r \in requests \ {p.request : p \in set.plans}}

SetBreakpoints(requests) ==
    /\ left.sets > 0
    /\ left' = [left EXCEPT !.sets = @ - 1]
    /\ ResolveAll(code, Compile(requests), set.fired, {}, FALSE)
    /\ UNCHANGED <<ran, count, work, acts>>

\* A file may be replaced when all of it is known, as one tree.
Replaceable(f) ==
    /\ f \in code.whole
    /\ Cardinality({c \in UnitsFor(code, f) : Shape[c].module}) = 1

\* A mutant: no function is given the new code.
ChangedNot(tree) == {}

\* The functions whose code differs are given the new one: those that do not
\* differ keep the code object they have.
Changed(tree) ==
    {c \in DOMAIN tree.becomes : tree.becomes[c].differs /\ ~Shape[c].module}

ReplaceCode(tree) ==
    /\ left.replaced > 0 /\ Replaceable(Shape[tree.module].file)
    /\ UnitsFor(code, Shape[tree.module].file) = DOMAIN tree.becomes
    /\ left' = [left EXCEPT !.replaced = @ - 1]
    /\ ran' = [ran EXCEPT !.code = {c \in @ \ Changed(tree) :
                                      c \in DOMAIN tree.becomes => ~Shape[c].module}
                                   \cup {tree.becomes[c].new : c \in Changed(tree) \cap @}]
    /\ ResolveAll(Adopt(code, tree.module), set.plans, set.fired, {}, TRUE)
    /\ UNCHANGED <<count, work, acts>>

-----------------------------------------------------------------------------
(* The program.                                                            *)

\* A module is compiled, or loaded from a cache, once.
Unloaded(m) == Shape[m].module /\ m \notin ran.loading \cup ran.loaded
                 /\ \A tree \in Trees : m # tree.module

Load(m) ==
    /\ Unloaded(m)
    /\ ran' = [ran EXCEPT !.loading = @ \cup {m}]
    /\ UNCHANGED <<code, set, instr, count, work, told, acts, left>>

\* The body of a module makes functions of what it holds.
Runs(c) ==
    ran' = [loading |-> ran.loading \ {c},
            loaded  |-> IF Shape[c].module THEN ran.loaded \cup {c} ELSE ran.loaded,
            code    |-> IF Shape[c].module THEN ran.code \cup Shape[c].holds ELSE ran.code]

\* A code object is about to run, and the interpreter has not forgotten it.
Starts(t, c) ==
    /\ ~work[t].on /\ <<c, 0>> \notin instr.forgotten
    /\ c \in ran.loading \/ (c \in ran.code /\ ~Shape[c].module)

\* It is registered, and if it is the first of its file, the breakpoints that
\* wait for the file are bound.
Start(t, c) ==
    /\ Starts(t, c) /\ Runs(c)
    /\ IF NewlyLoaded(c) /\ \E p \in set.plans : p.request.file = Shape[c].file
       THEN ResolveAll(Register(c), set.plans, set.fired, {<<c, 0>>}, TRUE)
       ELSE /\ code' = Register(c)
            /\ instr' = [instr EXCEPT !.forgotten = @ \cup {<<c, 0>>}]
            /\ UNCHANGED <<set, told>>
    /\ UNCHANGED <<count, work, acts, left>>

\* The plans armed at a line.
PlansAt(c, n) == {a.plan : a \in {b \in set.armed : b.code = c /\ b.line = n}}

Offered(c, n) == c \in instr.local /\ <<c, n>> \notin instr.forgotten

\* Nothing wants this line: it is not offered again.
LineOfNobody(t, c, n) ==
    /\ ~work[t].on /\ c \in ran.code /\ n \in Shape[c].lines
    /\ Offered(c, n) /\ PlansAt(c, n) = {}
    /\ instr' = [instr EXCEPT !.forgotten = @ \cup {<<c, n>>}]
    /\ UNCHANGED <<code, ran, set, count, work, told, acts, left>>

\* The plans of a line are taken, and then run one by one.
HitLine(t, c, n) ==
    /\ ~work[t].on /\ left.hits > 0 /\ c \in ran.code /\ n \in Shape[c].lines
    /\ Offered(c, n) /\ PlansAt(c, n) # {}
    /\ left' = [left EXCEPT !.hits = @ - 1]
    /\ work' = [work EXCEPT ![t] = [plans |-> PlansAt(c, n), acted |-> {}, on |-> TRUE]]
    /\ UNCHANGED <<code, ran, set, instr, count, told, acts>>

Firing(t) == work[t].on /\ work[t].plans # {}

\* The plans of a hit are run in the order of their ids.
Due(t) == CHOOSE p \in work[t].plans :
            \A q \in work[t].plans : p.request.id <= q.request.id

\* Its condition does not hold: nothing is counted.
Declines(t) ==
    /\ Firing(t) /\ Due(t).request.condition
    /\ work' = [work EXCEPT ![t].plans = @ \ {Due(t)}]
    /\ UNCHANGED <<code, ran, set, instr, count, told, acts, left>>

Reached(r, hit) == r.hits = 0 \/ hit = r.hits

\* It holds: the hit is counted, and acted on if it is the one asked for.
Fires(t) ==
    LET p == Due(t)
        reached == Reached(p.request, count[p] + 1)
    IN  /\ Firing(t)
        /\ count' = [count EXCEPT ![p] = @ + 1]
        /\ work' = [work EXCEPT ![t] =
                      [plans |-> @.plans \ {p}, on |-> TRUE,
                       acted |-> IF reached THEN @.acted \cup {p.request.id} ELSE @.acted]]
        /\ acts' = IF reached THEN [acts EXCEPT ![p] = @ + 1] ELSE acts
        /\ UNCHANGED <<code, ran, set, instr, told, left>>

\* An expression raises: the breakpoints after it are left alone.  A log
\* message that does was counted before.
Raises(t) ==
    LET p == Due(t)
    IN  /\ Firing(t) /\ p.request.condition
        /\ count' \in {count, [count EXCEPT ![p] = @ + 1]}
        /\ work' = [work EXCEPT ![t].plans = {}]
        /\ UNCHANGED <<code, ran, set, instr, told, acts, left>>

\* A condition imports a module.  The interpreter reports nothing of what runs
\* inside a callback.
ConditionImports(t, m) ==
    /\ Firing(t) /\ Due(t).request.condition
    /\ Unloaded(m)
    /\ ran' = [ran EXCEPT !.loaded = @ \cup {m}, !.code = @ \cup (Shape[m].holds \ {m})]
    /\ UNCHANGED <<code, set, instr, count, work, told, acts, left>>

\* The first act of something others wait for arms them.
Arms(acted) ==
    /\ ~acted \subseteq set.fired
    /\ \E p \in set.plans : p.request.after \in acted

\* Every plan of the hit was run: what waits for those that acted is armed
\* before the stop is reported.
Decided(t) ==
    LET acted == work[t].acted
    IN  /\ work[t].on /\ work[t].plans = {}
        /\ work' = [work EXCEPT ![t] = NoHit]
        /\ IF Arms(acted)
           THEN ResolveAll(code, set.plans, set.fired \cup acted, {}, TRUE)
           ELSE /\ set' = [set EXCEPT !.fired = @ \cup acted]
                /\ UNCHANGED <<code, instr, told>>
        /\ UNCHANGED <<ran, count, acts, left>>

-----------------------------------------------------------------------------
BreakpointsInit ==
    /\ code = [known |-> {}, roots |-> [f \in Files |-> {}], whole |-> {}]
    /\ ran = [loading |-> {}, loaded |-> {}, code |-> {}]
    /\ set = [plans |-> {}, armed |-> {}, fired |-> {}, reported |-> <<>>]
    /\ instr = [local |-> {}, forgotten |-> {}]
    /\ count = [p \in Plans |-> 0]
    /\ work = [t \in Runners |-> NoHit]
    /\ told = <<>>
    /\ acts = [p \in Plans |-> 0]
    /\ left = [sets |-> MaxSets, hits |-> MaxHits, replaced |-> MaxReplaced]

BreakpointsNext ==
    \/ \E requests \in Sets : SetBreakpoints(requests)
    \/ \E tree \in Trees : ReplaceCode(tree)
    \/ \E m \in Codes : Load(m)
    \/ \E t \in Runners :
         \/ \E c \in Codes :
              \/ Start(t, c)
              \/ \E n \in Shape[c].lines : LineOfNobody(t, c, n) \/ HitLine(t, c, n)
              \/ ConditionImports(t, c)
         \/ Declines(t) \/ Fires(t) \/ Raises(t) \/ Decided(t)

BreakpointsSpec == BreakpointsInit /\ [][BreakpointsNext]_bvars

-----------------------------------------------------------------------------
BreakpointTypes ==
    /\ code.known \subseteq Files /\ code.whole \subseteq code.known
    /\ code.roots \in [Files -> SUBSET Codes]
    /\ ran \in [{"loading", "loaded", "code"} -> SUBSET Codes]
    /\ set.plans \subseteq Plans /\ CodesOf(set.armed) \subseteq Codes
    /\ instr.local \subseteq Codes
    /\ count \in [Plans -> 0..MaxHits] /\ acts \in [Plans -> 0..MaxHits]

(***************************************************************************)
(* What is armed, and what the client was told each breakpoint is bound    *)
(* to, is what the set comes to over the code that is registered and the   *)
(* breakpoints that have acted, whichever way those changed: a file that   *)
(* loaded, code that was replaced, a breakpoint that acted.  What is told  *)
(* of waiting lags behind.                                                 *)
(***************************************************************************)
Settled ==
    /\ set.armed = ArmedBy(code, set.plans, set.fired)
    /\ \A p \in set.plans :
         told[p.request.id].binding =
           Resolution(code, set.plans, set.fired, p.request).binding

(***************************************************************************)
(* The interpreter offers every line a breakpoint is armed at, even one it *)
(* had been told to forget, and events are on in no other code object.     *)
(***************************************************************************)
ArmedIsOffered ==
    /\ instr.local = CodesOf(set.armed)
    /\ \A a \in set.armed : Offered(a.code, a.line)

(***************************************************************************)
(* A breakpoint that waits for another is armed, or acts, only after that  *)
(* one has acted.                                                          *)
(***************************************************************************)
ArmedInTurn ==
    \A p \in set.plans \cup {a.plan : a \in set.armed} :
      (p.request.after # 0 /\ (acts[p] > 0 \/ \E a \in set.armed : a.plan = p))
        => \E q \in Plans : q.request.id = p.request.after /\ acts[q] > 0

(***************************************************************************)
(* A breakpoint on the nth hit acts once, whatever threads hit it and      *)
(* however the set around it changes, for as long as it is asked for.      *)
(***************************************************************************)
ActsOnce ==
    \A r \in Requests : (r.hits # 0 /\ \A s \in Sets : r \in s) =>
      \A p, q \in {o \in Plans : o.request = r /\ acts[o] > 0} : p = q /\ acts[p] = 1

(***************************************************************************)
(* A breakpoint that is bound and armed stops whatever function runs the   *)
(* line it is bound to.                                                    *)
(***************************************************************************)
BoundIsRun ==
    \A a \in set.armed : \A c \in ran.code :
      (Shape[c].file = Shape[a.code].file /\ a.line \in Shape[c].lines)
        => \E b \in set.armed : b.code = c /\ b.plan = a.plan

(***************************************************************************)
(* Both: a breakpoint that the client was told is bound stops the program. *)
(***************************************************************************)
ArmedIsReached == ArmedIsOffered /\ BoundIsRun

(***************************************************************************)
(* Both: a breakpoint acts when what it was asked with says, and no more.  *)
(***************************************************************************)
ActsAsAsked == ArmedInTurn /\ ActsOnce

=============================================================================
