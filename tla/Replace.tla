------------------------------ MODULE Replace ------------------------------
(***************************************************************************)
(* Putting the code of files on disk into the process that runs older code *)
(* of them: bpd_agent/src/replace.rs with the answers of                   *)
(* bpd_core/src/replace.rs, and the engine's part of it in                 *)
(* bpd_engine/src/launch.rs.                                               *)
(*                                                                         *)
(* A file is a tree of code objects.  The process compiles it, again and   *)
(* again; a code object is one of a tree that was compiled.  The functions *)
(* and the frames of the process are counted by the code they run.  A      *)
(* replacement happens with the interpreter's lock held, from the reading  *)
(* of the files to the last assignment, and is one step; what an audit     *)
(* hook of the program does meanwhile is abstracted to whether it refuses. *)
(***************************************************************************)
EXTENDS Naturals, Sequences, FiniteSets, SequencesExt, FiniteSetsExt

CONSTANTS
    Sources,      \* files
    Staged,       \* those of them that a build generated, and maps
    Tree,         \* texts that compile, and what each compiles to
    Broken,       \* a text that does not
    Missing,      \* no file
    Texts,        \* per file, what may be in it
    Original,     \* per file, what is in it first
    MaxHeld,      \* bound: functions of one code object
    MaxFrames,    \* bound: code objects with a frame, at a time
    MaxEdits,     \* bound: edits
    MaxCompiled,  \* bound: trees that are compiled
    Reimports,    \* whether a file may load twice, and bpd see one of the two
    Forgives      \* whether the property overlooks what the code is known to

ASSUME FilesAssumption == Staged \subseteq Sources /\ \A f \in Sources : Original[f] \in Texts[f]
ASSUME LimitsAssumption == {MaxHeld, MaxFrames, MaxEdits, MaxCompiled} \subseteq Nat

VARIABLES
    disk,      \* per file, what is in it
    build,     \* per file, how often it was staged: which table is of it
    compiled,  \* the trees that were compiled and ran, in order
    held,      \* the functions of the process, counted by their code
    frames,    \* its frames, counted by their code
    seen,      \* per file, the compilations whose module is registered
    tables,    \* per file, the table the agent holds
    mapped,    \* per file, the table in the map the engine holds
    current,   \* history: the files that are as they were when last put in
    kept,      \* history: files of which a replacement left code alone or missed it
    spared,    \* history: code that was told of as still running
    edits      \* how many there were

rvars == <<disk, build, compiled, held, frames, seen, tables, mapped,
           current, kept, spared, edits>>

-----------------------------------------------------------------------------
(***************************************************************************)
(* Trees.  A tree is a sequence of code objects, the module's first; each  *)
(* names those it holds, in order.                                         *)
(***************************************************************************)

Compiles(text) == text \in DOMAIN Tree

MaxNodes == Max({Len(Tree[text]) : text \in DOMAIN Tree})

(* A code object: a compilation, and a place in its tree. *)
Code(v, i)  == [of |-> v, at |-> i]
CodeObjects == [of : 1..MaxCompiled, at : 1..MaxNodes]
TreeOf(v)   == Tree[compiled[v].text]
SourceOf(c) == compiled[c.of].file
CodesSoFar  == UNION {{Code(v, i) : i \in DOMAIN TreeOf(v)} : v \in DOMAIN compiled}

Name(t, i)     == t[i].name
Holds(t, i)    == [k \in DOMAIN t[i].parts |-> Name(t, t[i].parts[k])]
Nests(t, i)    == ToSet(t[i].parts)
KindOf(t, i)   == IF i = 1 THEN "module" ELSE t[i].kind

(* What is reached from a set, going on from what was reached n times. *)
Closure(S, Step(_), n) == FoldLeft(LAMBDA T, k : T \cup Step(T), S, [k \in 1..n |-> k])

(* The functions that running a code object makes: the ones it holds, and  *)
(* the ones that the bodies of its classes hold.                           *)
Made(t, i) ==
    LET nested(S) == UNION {Nests(t, j) : j \in S}
        bodies == Closure({i}, LAMBDA S : {j \in nested(S) : t[j].kind = "class"}, Len(t))
    IN  {j \in nested(bodies) : t[j].kind = "function"}

MadeIn == [text \in DOMAIN Tree |-> [i \in DOMAIN Tree[text] |-> Made(Tree[text], i)]]
MadeBy(c) == {Code(c.of, i) : i \in MadeIn[compiled[c.of].text][c.at]}

-----------------------------------------------------------------------------
(***************************************************************************)
(* The comparison of a tree that runs with the tree on disk.               *)
(***************************************************************************)

Divergences(t, i, u, j) ==
    (IF ToSet(Holds(t, i)) # ToSet(Holds(u, j)) THEN {"Defines"} ELSE {})
    \cup (IF \/ Holds(t, i) # Holds(u, j) /\ ToSet(Holds(t, i)) = ToSet(Holds(u, j))
             \/ t[i].does # u[j].does \/ t[i].kind # u[j].kind
             \/ t[i].params # u[j].params \/ t[i].free # u[j].free
          THEN {"Instructions"} ELSE {})

SameSignature(t, i, u, j) == t[i].params = u[j].params /\ t[i].free = u[j].free

(* Identical in all that a debugger reports, its lines among it; what it   *)
(* holds is looked at by name only.  Tables of two builds report no line   *)
(* alike.                                                                  *)
Identical(t, i, u, j, moved) ==
    /\ Divergences(t, i, u, j) = {}
    /\ t[i].literals = u[j].literals /\ t[i].line = u[j].line /\ ~moved
    /\ Name(t, i) = Name(u, j)

(* A pair that may not differ in this way is refused, and nothing below it *)
(* is looked at.                                                           *)
Blocks(t, u, p) ==
    CASE KindOf(t, p[1]) = "module" /\ Divergences(t, p[1], u, p[2]) # {} -> {"TopLevelChanged"}
      [] KindOf(t, p[1]) = "class" /\ Divergences(t, p[1], u, p[2]) # {} -> {"ClassLayoutChanged"}
      [] KindOf(t, p[1]) = "function" /\ ~SameSignature(t, p[1], u, p[2]) -> {"SignatureChanged"}
      [] OTHER -> {}

LinesUp(t, i, u, j) ==
    KindOf(t, i) = "function" => Holds(t, i) = Holds(u, j) /\ t[i].does = u[j].does

Zipped(t, i, u, j) == {<<t[i].parts[k], u[j].parts[k]>> : k \in DOMAIN t[i].parts}

Alike(t, i, name) == {k \in Nests(t, i) : Name(t, k) = name}

AmbiguousIn(t, i, u, j) ==
    {k \in Nests(t, i) : \/ Cardinality(Alike(t, i, Name(t, k))) > 1
                         \/ Cardinality(Alike(u, j, Name(t, k))) > 1}

OrphanedIn(t, i, u, j) ==
    {k \in Nests(t, i) \ AmbiguousIn(t, i, u, j) : Alike(u, j, Name(t, k)) = {}}

ByName(t, i, u, j) ==
    {<<k, CHOOSE n \in Alike(u, j, Name(t, k)) : TRUE>> :
        k \in Nests(t, i) \ (AmbiguousIn(t, i, u, j) \cup OrphanedIn(t, i, u, j))}

Below(t, u, p) ==
    CASE Blocks(t, u, p) # {} -> {}
      [] Blocks(t, u, p) = {} /\ LinesUp(t, p[1], u, p[2]) -> Zipped(t, p[1], u, p[2])
      [] OTHER -> ByName(t, p[1], u, p[2])

(* Every pair that the walk compares, from the two modules down. *)
Walk(t, u) ==
    Closure({<<1, 1>>}, LAMBDA S : UNION {Below(t, u, p) : p \in S}, Len(t))

Searched(t, u) == {p \in Walk(t, u) : Blocks(t, u, p) = {} /\ ~LinesUp(t, p[1], u, p[2])}

Compare(t, u, moved) ==
    [changed |-> {p \in Walk(t, u) : Blocks(t, u, p) = {} /\ ~Identical(t, p[1], u, p[2], moved)},
     alike   |-> {p \in Walk(t, u) : Identical(t, p[1], u, p[2], moved)},
     orphans |-> UNION {OrphanedIn(t, p[1], u, p[2]) : p \in Searched(t, u)},
     refused |-> UNION {Blocks(t, u, p) : p \in Walk(t, u)}
                   \cup (IF \E p \in Searched(t, u) : AmbiguousIn(t, p[1], u, p[2]) # {}
                         THEN {"Ambiguous"} ELSE {})]

Comparisons ==
    [old, new \in DOMAIN Tree, moved \in BOOLEAN |-> Compare(Tree[old], Tree[new], moved)]

-----------------------------------------------------------------------------
(***************************************************************************)
(* One file of a request.                                                  *)
(***************************************************************************)

RootOf(f) == CHOOSE v \in seen[f] : TRUE
Running(f) == compiled[RootOf(f)].text

(* Why a file cannot be compared at all. *)
Unpreparable(f) ==
    CASE disk[f] = Missing          -> {"NotAFile"}
      [] disk[f] # Missing /\ seen[f] = {} -> {"NotLoaded or PartiallyLoaded"}
      [] disk[f] # Missing /\ Cardinality(seen[f]) > 1 -> {"CompiledMoreThanOnce"}
      [] disk[f] = Broken /\ Cardinality(seen[f]) = 1 -> {"DoesNotCompile"}
      [] OTHER -> {}

(* The tables the new code is compiled through. *)
Through(remap) == IF remap THEN build ELSE tables

Right(f, remap) == f \in Staged => Through(remap)[f] = build[f]

PlanOf(f, remap) ==
    IF Unpreparable(f) # {} THEN [changed |-> {}, alike |-> {}, orphans |-> {}, refused |-> Unpreparable(f)]
    ELSE Comparisons[Running(f), disk[f], compiled[RootOf(f)].right # Right(f, remap)]

Have(f, i) == held[Code(RootOf(f), i)] > 0

(* Frames are looked for where code is about to change. *)
StillRun(f, plan) == {c \in {Code(RootOf(f), p[1]) : p \in plan.changed} : frames[c] > 0}

(* A mutant: functions of what is no longer in the file are not asked about. *)
CheckChangedOnly(f, plan, even, hook) ==
    IF ~even /\ StillRun(f, plan) # {} THEN {"Running"} ELSE {}

(* What the heap says of the code that is about to change. *)
Check(f, plan, even, hook) ==
    (IF \E i \in plan.orphans : Have(f, i) THEN {"Orphaned"} ELSE {})
    \cup (IF ~even /\ StillRun(f, plan) # {} THEN {"Running"} ELSE {})
    \cup (IF hook /\ \E p \in plan.changed : Have(f, p[1]) THEN {"RefusedByTheProcess"} ELSE {})

Reasons(f, plan, even, hook) == plan.refused \cup Check(f, plan, even, hook)

-----------------------------------------------------------------------------
(***************************************************************************)
(* The request.                                                            *)
(***************************************************************************)

(* One file's refusal refuses them all, and nothing is done to any.       *)
Refuse(because) ==
    /\ \E f \in DOMAIN because : because[f] # {}
    /\ UNCHANGED rvars

Fresh(f, files) ==
    Len(compiled) + (CHOOSE k \in 1..Cardinality(files) : SetToSeq(files)[k] = f)

(* Every function of code that changed is given the new code. *)
Assigned(files, plans) ==
    LET old(f)  == RootOf(f)
        gone    == UNION {{Code(old(f), p[1]) : p \in plans[f].changed} : f \in files}
        came(c) == UNION {{Code(old(f), p[1]) :
                              p \in {q \in plans[f].changed : c = Code(Fresh(f, files), q[2])}} : f \in files}
    IN  [c \in CodeObjects |-> IF c \in gone THEN 0
                         ELSE held[c] + MapThenSumSet(LAMBDA o : held[o], came(c))]

Stack == {c \in CodeObjects : frames[c] > 0}

InUse(c) == held[c] + frames[c] > 0

LeftAlone(f, plan) == {p \in plan.alike : InUse(Code(RootOf(f), p[1]))}

(* What the code overlooks.  What is left alone goes on to make functions  *)
(* of the old code, and the next replacement does not find it: it looks    *)
(* for the tree that was put in.  And what the code that was dropped holds *)
(* is not looked for.                                                      *)
Whole(f, plan) ==
    /\ f \notin kept
    /\ \A p \in LeftAlone(f, plan), q \in plan.changed : q[1] \notin MadeIn[Running(f)][p[1]]
    /\ \A i \in plan.orphans, j \in DOMAIN Tree[Running(f)] :
          j \in MadeIn[Running(f)][i] => ~InUse(Code(RootOf(f), j))

Apply(files, plans, because, remap) ==
    /\ Len(compiled) + Cardinality(files) <= MaxCompiled
    /\ \A f \in files : because[f] = {}
    /\ compiled' = compiled \o
         [k \in 1..Cardinality(files) |->
             LET f == SetToSeq(files)[k]
             IN  [file |-> f, text |-> disk[f], right |-> Right(f, remap), ran |-> FALSE]]
    /\ held'     = Assigned(files, plans)
    /\ seen'     = [f \in Sources |-> IF f \in files THEN {Fresh(f, files)} ELSE seen[f]]
    /\ tables'   = IF remap THEN build ELSE tables
    /\ mapped'   = IF remap THEN build ELSE mapped
    /\ current'  = (current \ files) \cup {f \in files : Right(f, remap) /\ (Forgives => Whole(f, plans[f]))}
    /\ kept'     = kept \cup {f \in files : LeftAlone(f, plans[f]) # {} \/ ~Whole(f, plans[f])}
    /\ spared'   = spared \cup UNION {StillRun(f, plans[f]) : f \in files}
    /\ UNCHANGED <<disk, build, frames, edits>>

ReplaceFiles ==
    \E files \in SUBSET Sources \ {{}}, even, hook, remap \in BOOLEAN :
      LET plans   == [f \in files |-> PlanOf(f, remap)]
          because == [f \in files |-> Reasons(f, plans[f], even, hook)]
      IN  /\ remap => Staged # {}
          /\ Refuse(because) \/ Apply(files, plans, because, remap)

-----------------------------------------------------------------------------
(***************************************************************************)
(* The program, and who edits it.                                          *)
(***************************************************************************)

RunsOf(f) == {v \in DOMAIN compiled : compiled[v].file = f /\ compiled[v].ran}

(* bpd does not see what runs before it attaches, nor what its own          *)
(* evaluations run.                                                        *)
Import(f, watched) ==
    LET v == Len(compiled) + 1
    IN  /\ Compiles(disk[f]) /\ Cardinality(Stack) < MaxFrames
        /\ v <= MaxCompiled
        /\ RunsOf(f) # {} => Reimports
        /\ compiled' = Append(compiled,
              [file |-> f, text |-> disk[f], right |-> f \in Staged => build[f] = 0, ran |-> TRUE])
        /\ held'   = [c \in CodeObjects |->
              held[c] + (IF c \in {Code(v, i) : i \in MadeIn[disk[f]][1]} THEN 1 ELSE 0)]
        /\ frames' = [frames EXCEPT ![Code(v, 1)] = 1]
        /\ seen'   = IF watched THEN [seen EXCEPT ![f] = @ \cup {v}] ELSE seen
        /\ current' = IF RunsOf(f) = {} /\ (f \in Staged => build[f] = 0)
                      THEN current \cup {f} ELSE current
        /\ UNCHANGED <<disk, build, tables, mapped, kept, spared, edits>>

Program == <<disk, build, compiled, seen, tables, mapped, current, kept, spared, edits>>

Functions == {c \in CodesSoFar : KindOf(TreeOf(c.of), c.at) = "function"}

Calls(c) ==
    /\ held[c] > 0 /\ c \notin Stack /\ Cardinality(Stack) < MaxFrames
    /\ frames' = [frames EXCEPT ![c] = 1]
    /\ UNCHANGED <<held, Program>>

Makes(c) ==
    /\ frames[c] > 0
    /\ \E made \in MadeBy(c) :
          /\ held[made] < MaxHeld
          /\ held' = [held EXCEPT ![made] = @ + 1]
    /\ UNCHANGED <<frames, Program>>

Returns(c) ==
    /\ frames[c] > 0
    /\ frames' = [frames EXCEPT ![c] = @ - 1]
    /\ UNCHANGED <<held, Program>>

(* A frame keeps the function it is of. *)
Forgets(c) ==
    /\ held[c] > frames[c]
    /\ held' = [held EXCEPT ![c] = @ - 1]
    /\ UNCHANGED <<frames, Program>>

(* Whoever edits a file that a build stages has it staged again. *)
Edit(f) ==
    /\ edits < MaxEdits
    /\ \E text \in Texts[f] \ {disk[f]} : disk' = [disk EXCEPT ![f] = text]
    /\ build' = IF f \in Staged THEN [build EXCEPT ![f] = @ + 1] ELSE build
    /\ current' = current \ {f}
    /\ edits' = edits + 1
    /\ UNCHANGED <<compiled, held, frames, seen, tables, mapped, kept, spared>>

ReplaceInit ==
    /\ disk = Original
    /\ build = [f \in Sources |-> 0] /\ tables = build /\ mapped = build
    /\ compiled = <<>> /\ held = [c \in CodeObjects |-> 0] /\ frames = held
    /\ seen = [f \in Sources |-> {}]
    /\ current = {} /\ kept = {} /\ spared = {}
    /\ edits = 0

ReplaceNext ==
    \/ ReplaceFiles
    \/ \E f \in Sources : Edit(f) \/ \E watched \in BOOLEAN : Import(f, watched)
    \/ \E c \in Functions : Calls(c) \/ Makes(c) \/ Forgets(c)
    \/ \E c \in CodesSoFar : Returns(c)

ReplaceSpec == ReplaceInit /\ [][ReplaceNext]_rvars

-----------------------------------------------------------------------------
(***************************************************************************)
(* Properties.                                                             *)
(***************************************************************************)

ReplaceTypeOK ==
    /\ disk \in [Sources -> UNION {Texts[f] : f \in Sources}]
    /\ {build, tables, mapped} \subseteq [Sources -> 0..MaxEdits]
    /\ Len(compiled) <= MaxCompiled
    /\ {held, frames} \subseteq [CodeObjects -> Nat]
    /\ seen \in [Sources -> SUBSET DOMAIN compiled]
    /\ current \cup kept \subseteq Sources /\ spared \subseteq CodeObjects

(* What a frame that was told of goes on to make is as old as the frame. *)
Spared ==
    Closure(spared, LAMBDA S : UNION {MadeBy(c) : c \in S}, MaxNodes)

IsOnDisk(c) ==
    LET t == TreeOf(c.of)
        u == Tree[disk[SourceOf(c)]]
    IN  compiled[c.of].right /\ \E j \in DOMAIN u : Identical(t, c.at, u, j, FALSE)

(* Once a file has been put in, and until it is edited again, no function  *)
(* of the process and no frame runs code that is not in it, down to the    *)
(* lines it reports, but for the frames the answer named and what they     *)
(* make; and the engine reads lines through the tables that the agent      *)
(* compiles through (the module docs of replace.rs and code.rs, adopt).    *)
RunsWhatIsOnDisk ==
    /\ mapped = tables
    /\ \A c \in CodesSoFar \ Spared :
          SourceOf(c) \in current /\ InUse(c) => IsOnDisk(c)

=============================================================================
