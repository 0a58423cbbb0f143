------------------------------ MODULE Staging ------------------------------
(***************************************************************************)
(* The staging caches: bpd_engine/src/agent.rs, which puts the agent, or   *)
(* the `sitecustomize' a child is entered through, where an interpreter    *)
(* can import it, and bpd_engine/src/cache.rs, which clears them when a    *)
(* person asks.  Every launch and every clear is a process of its own, and *)
(* nothing but the file system is between them: an action is what one call *)
(* of the file system does, and a launch may be killed between any two.    *)
(*                                                                         *)
(* An entry is a directory named by the digest of what it holds.  `files'  *)
(* are the pairs of an entry and what is in it: the module, whole or torn  *)
(* (a full disk or a crash of the machine cut it), what an interpreter     *)
(* compiled it into, and something that is not bpd's.                      *)
(***************************************************************************)
EXTENDS Integers, FiniteSets

CONSTANTS
  Digests,    \* what can be staged, and with it the entries there can be
  Hook,       \* the digest of the child hook
  Tags,       \* of interpreters
  Tag,        \* per launch: that of its interpreter
  Roots,      \* where this bpd looks for agents, nearest first: per root the
              \* published builds by tag, and the development build if any
  Launches,   \* launches of this bpd
  Clearers,   \* runs of `bpd cache clear'
  Windows     \* the platforms considered: may a file in use not be replaced?

Modules == {"whole", "torn"}
Contents == Modules \cup {"pyc", "alien"}

ASSUME StagingAssumption ==
  /\ Hook \in Digests
  /\ Tag \in [Launches -> Tags]
  /\ Windows \subseteq BOOLEAN
  /\ \A k \in DOMAIN Roots :
       /\ DOMAIN Roots[k].published \subseteq Tags
       /\ Roots[k].development \subseteq Digests

VARIABLES
  kind,     \* the cache that is worked on: "agents" or "children"
  windows,
  root,     \* the cache directory: "absent", "own" or "open" to others
  dirs,     \* the entries that are there
  files,
  temps,    \* launches whose temporary file is in the cache directory
  pc,       \* of a launch
  failed,   \* launches the disk refused
  clears    \* per clear: what it does and knows

system == <<kind, windows>>
disk == <<root, dirs, files, temps>>
vars == <<system, disk, pc, failed, clears>>

(***************************************************************************)
(* Which build an interpreter gets, and which of them this bpd carries.    *)
(***************************************************************************)
First(ks) == CHOOSE k \in ks : \A j \in ks : k <= j
Publishing(t) == {k \in DOMAIN Roots : t \in DOMAIN Roots[k].published}
Developing == {k \in DOMAIN Roots : Roots[k].development # {}}

Development == IF Developing = {} THEN {} ELSE Roots[First(Developing)].development

Tagged(t) == IF Publishing(t) = {} THEN {} ELSE {Roots[First(Publishing(t))].published[t]}

\* The build for a tag, as a set: there may be none.
Selected(t) == IF Tagged(t) # {} THEN Tagged(t) ELSE Development

\* What a launch stages is among the entries there can be.
ASSUME StagedAssumption == \A l \in Launches : Selected(Tag[l]) \subseteq Digests

\* Mutant: the development build is not among the current ones.
CurrentTagged == UNION {Tagged(t) : t \in Tags}

\* The entries this bpd stages into.
Current == (UNION {Tagged(t) : t \in Tags}) \cup Development

Staged(l) == IF kind = "children" THEN {Hook} ELSE Selected(Tag[l])
Kept == IF kind = "children" THEN {Hook} ELSE Current

\* The entry of a launch that has one.
Of(l) == CHOOSE d \in Staged(l) : TRUE
Running == {l \in Launches : pc[l] = "running"}
InUse == {Of(l) : l \in Running}
Holds(d) == <<d, "whole">> \in files
In(d) == {x \in Contents : <<d, x>> \in files}

NotYet == [at |-> "idle", keep |-> FALSE, names |-> {}, seen |-> [d \in Digests |-> {}],
           strays |-> {}, left |-> {}, removed |-> {}, failures |-> {}]

Init ==
  /\ kind \in {"agents", "children"} /\ windows \in Windows
  /\ root \in {"absent", "own", "open"}
  /\ dirs \in (IF root = "own" THEN SUBSET Digests ELSE {{}})
  /\ files \in SUBSET (dirs \X Modules)
  /\ \A d \in dirs : Cardinality(In(d) \cap Modules) <= 1
  /\ temps = {}
  /\ pc = [l \in Launches |-> "start"] /\ failed = {}
  /\ clears = [c \in Clearers |-> NotYet]

(***************************************************************************)
(* A launch.                                                               *)
(***************************************************************************)
Goes(l, from, to) == pc[l] = from /\ pc' = [pc EXCEPT ![l] = to]

\* The cache is made if it is not there, and has to be one nobody else can
\* write to.
Trust(l) ==
  /\ \/ /\ Staged(l) = {} \/ root = "open"
        /\ Goes(l, "start", "refused") /\ UNCHANGED root
     \/ /\ Staged(l) # {} /\ root # "open"
        /\ Goes(l, "start", "look") /\ root' = "own"
  /\ UNCHANGED <<system, dirs, files, temps, failed, clears>>

\* What is there is compared, so an entry that was cut is published again.
Look(l) ==
  /\ Goes(l, "look", IF Holds(Of(l)) THEN "resolve" ELSE "make")
  /\ UNCHANGED <<system, disk, failed, clears>>

MakeEntry(l) ==
  /\ Goes(l, "make", "open")
  /\ dirs' = dirs \cup {Of(l)}
  /\ UNCHANGED <<system, root, files, temps, failed, clears>>

OpenTemp(l) ==
  /\ Goes(l, "open", "write")
  /\ temps' = temps \cup {l}
  /\ UNCHANGED <<system, root, dirs, files, failed, clears>>

\* Written and on the disk, or not, and then the temporary file goes too.
Write(l) ==
  /\ \/ Goes(l, "write", "persist") /\ UNCHANGED <<temps, failed>>
     \/ Goes(l, "write", "refused") /\ temps' = temps \ {l} /\ failed' = failed \cup {l}
  /\ UNCHANGED <<system, root, dirs, files, clears>>

Replaces(l) ==
  /\ Of(l) \in dirs
  /\ windows /\ In(Of(l)) \cap Modules # {} => Of(l) \notin InUse

\* Mutant: a rename that is refused is a launch that failed.
PersistOrRefuse(l) ==
  /\ temps' = temps \ {l}
  /\ IF Replaces(l)
     THEN Goes(l, "persist", "resolve") /\ files' = (files \ {<<Of(l), "torn">>}) \cup {<<Of(l), "whole">>}
     ELSE Goes(l, "persist", "refused") /\ UNCHANGED files
  /\ UNCHANGED <<system, root, dirs, failed, clears>>

\* The rename puts the whole file in place of whatever is there.
Persist(l) ==
  /\ temps' = temps \ {l}
  /\ IF Replaces(l)
     THEN Goes(l, "persist", "resolve") /\ files' = (files \ {<<Of(l), "torn">>}) \cup {<<Of(l), "whole">>}
     ELSE Goes(l, "persist", "compare") /\ UNCHANGED files
  /\ UNCHANGED <<system, root, dirs, failed, clears>>

\* A rename that was refused is satisfied by the same bytes.
Compare(l) ==
  /\ Goes(l, "compare", IF Holds(Of(l)) THEN "resolve" ELSE "refused")
  /\ UNCHANGED <<system, disk, failed, clears>>

Resolve(l) ==
  /\ Goes(l, "resolve", IF Of(l) \in dirs THEN "staged" ELSE "refused")
  /\ UNCHANGED <<system, disk, failed, clears>>

\* A launch that is killed leaves on the disk what it had put there.
Kill(l) ==
  /\ pc[l] \notin {"start", "refused", "over"}
  /\ pc' = [pc EXCEPT ![l] = "over"]
  /\ UNCHANGED <<system, disk, failed, clears>>

\* The program imports what was staged, and an interpreter keeps what it
\* compiled beside the source.
Import(l) ==
  /\ Goes(l, "staged", IF In(Of(l)) \cap Modules # {} THEN "running" ELSE "over")
  /\ \/ UNCHANGED files
     \/ kind = "children" /\ Holds(Of(l)) /\ files' = files \cup {<<Of(l), "pyc">>}
  /\ UNCHANGED <<system, root, dirs, temps, failed, clears>>

Launch(l) ==
  \/ Trust(l) \/ Look(l) \/ MakeEntry(l) \/ OpenTemp(l) \/ Write(l) \/ Persist(l)
  \/ Compare(l) \/ Resolve(l) \/ Import(l) \/ Kill(l)

(***************************************************************************)
(* A clear.  It lists the cache directory, describes what it finds one     *)
(* entry at a time, and then takes away what it described.                 *)
(***************************************************************************)
Does(c, s) == clears' = [clears EXCEPT ![c] = s]
At(c, at) == clears[c].at = at

Open(c) ==
  /\ At(c, "idle")
  /\ \E k \in BOOLEAN :
       Does(c, [clears[c] EXCEPT !.at = IF root = "own" THEN "read" ELSE "over",
                                 !.keep = k, !.names = IF root = "own" THEN dirs \cup temps ELSE {}])
  /\ UNCHANGED <<system, disk, pc, failed>>

\* Anything but a directory named with a digest is a stray, and so is an entry
\* with something in it that was not staged, or compiled from what was.
Accounted == Modules \cup (IF kind = "children" THEN {"pyc"} ELSE {})

Classify(c) ==
  /\ At(c, "read")
  /\ \E x \in clears[c].names :
       LET s == [clears[c] EXCEPT !.names = @ \ {x}]
       IN  IF x \in Launches THEN Does(c, [s EXCEPT !.strays = @ \cup {x}])
           ELSE IF x \notin dirs THEN Does(c, [s EXCEPT !.at = "over"])
           ELSE IF In(x) \subseteq Accounted
           THEN Does(c, [s EXCEPT !.seen[x] = {IF y = "pyc" THEN y ELSE "module" : y \in In(x)},
                                  !.left = @ \cup {x}])
           ELSE Does(c, [s EXCEPT !.strays = @ \cup {x}])
  /\ UNCHANGED <<system, disk, pc, failed>>

\* Nothing is removed from a cache with a stray in it.
Clear(c) ==
  /\ At(c, "read") /\ clears[c].names = {}
  /\ Does(c, [clears[c] EXCEPT
       !.at = IF clears[c].strays # {} THEN "over" ELSE "remove",
       !.left = IF clears[c].keep THEN @ \ Kept ELSE @])
  /\ UNCHANGED <<system, disk, pc, failed>>

Removing(c) == At(c, "remove") /\ clears[c].left # {}
Entry(c) == CHOOSE d \in clears[c].left : TRUE
Passed(c) == [clears[c] EXCEPT !.left = @ \ {Entry(c)}]

\* A file that is gone already is as good as removed.
RemoveFile(c) ==
  /\ Removing(c)
  /\ \E x \in clears[c].seen[Entry(c)] :
       LET there == IF x = "module" THEN Modules ELSE {x}
       IN  IF windows /\ x = "module" /\ Entry(c) \in InUse /\ In(Entry(c)) \cap Modules # {}
           THEN Does(c, [Passed(c) EXCEPT !.failures = @ \cup {Entry(c)}]) /\ UNCHANGED files
           ELSE /\ files' = files \ ({Entry(c)} \X there)
                /\ Does(c, [clears[c] EXCEPT !.seen[Entry(c)] = @ \ {x}])
  /\ UNCHANGED <<system, root, dirs, temps, pc, failed>>

\* Mutant: the entry is removed with whatever is in it by now.
RemoveTree(c) ==
  /\ Removing(c) /\ clears[c].seen[Entry(c)] = {}
  /\ IF Entry(c) \in dirs
     THEN /\ dirs' = dirs \ {Entry(c)} /\ files' = files \ ({Entry(c)} \X Contents)
          /\ Does(c, [Passed(c) EXCEPT !.removed = @ \cup {Entry(c)}])
     ELSE Does(c, [Passed(c) EXCEPT !.failures = @ \cup {Entry(c)}]) /\ UNCHANGED <<dirs, files>>
  /\ UNCHANGED <<system, root, temps, pc, failed>>

\* The directory goes only if nothing is in it.
RemoveDir(c) ==
  /\ Removing(c) /\ clears[c].seen[Entry(c)] = {}
  /\ IF Entry(c) \in dirs /\ In(Entry(c)) = {}
     THEN dirs' = dirs \ {Entry(c)} /\ Does(c, [Passed(c) EXCEPT !.removed = @ \cup {Entry(c)}])
     ELSE Does(c, [Passed(c) EXCEPT !.failures = @ \cup {Entry(c)}]) /\ UNCHANGED dirs
  /\ UNCHANGED <<system, root, files, temps, pc, failed>>

Cleared(c) ==
  /\ At(c, "remove") /\ clears[c].left = {}
  /\ Does(c, [clears[c] EXCEPT !.at = "over"])
  /\ UNCHANGED <<system, disk, pc, failed>>

Clearing(c) ==
  Open(c) \/ Classify(c) \/ Clear(c) \/ RemoveFile(c) \/ RemoveDir(c) \/ Cleared(c)

\* Somebody puts something of theirs into an entry; once is enough.
Intrude ==
  /\ \A x \in files : x[2] # "alien"
  /\ \E d \in dirs : files' = files \cup {<<d, "alien">>}
  /\ UNCHANGED <<system, root, dirs, temps, pc, failed, clears>>

Next ==
  \/ \E l \in Launches : Launch(l)
  \/ \E c \in Clearers : Clearing(c)
  \/ Intrude

Spec == Init /\ [][Next]_vars

(***************************************************************************)
(* Properties.                                                             *)
(***************************************************************************)
TypeOK ==
  /\ root \in {"absent", "own", "open"} /\ dirs \subseteq Digests
  /\ files \subseteq dirs \X Contents
  /\ temps \subseteq Launches /\ failed \subseteq Launches
  /\ \A d \in dirs : Cardinality(In(d) \cap Modules) <= 1

\* A clear that leaves what this bpd stages into alone, however many there are
\* and whenever they read the cache, never takes what a launch of it staged
\* away, nor does another launch that publishes the same: the program finds
\* all of it.
Spared == \A c \in Clearers : clears[c].keep \/ At(c, "idle")
StagedStays ==
  Spared => \A l \in Launches : pc[l] \in {"staged", "running"} => Holds(Of(l))

\* Launches at the same time never make each other fail: one is refused for
\* what it cannot stage or was not allowed to, or because something was taken
\* away by a clear.
LaunchesAgree ==
  Spared => \A l \in Launches :
    pc[l] = "refused" => Staged(l) = {} \/ root = "open" \/ l \in failed

\* What a launch is promised while others launch and a clear spares it.
LaunchStands == StagedStays /\ LaunchesAgree

\* A clear takes nothing away that it has not described: what came into an
\* entry since it was read makes the removal fail.
Gone == files \ files'
OnlyWhatWasDescribed ==
  [][\A x \in Gone :
       /\ x[2] # "alien"
       /\ \/ x[2] = "torn" /\ <<x[1], "whole">> \in files'
          \/ \E c \in Clearers :
               /\ Removing(c) /\ Entry(c) = x[1]
               /\ (IF x[2] = "pyc" THEN "pyc" ELSE "module") \in clears[c].seen[x[1]]]_vars

\* What a clear calls a stray is something staging never put there.
StraysAreNotOurs == \A c \in Clearers : clears[c].strays \cap Launches = {}
=============================================================================
