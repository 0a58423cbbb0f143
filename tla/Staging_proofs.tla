----------------------------- MODULE Staging_proofs -----------------------------
(***************************************************************************)
(* What Staging promises for any launches, clears, entries and roots, and  *)
(* on every platform: a clear takes away only what it has described, and   *)
(* while every clear spares what this bpd stages, what a launch staged     *)
(* stays and no launch makes another fail.                                 *)
(***************************************************************************)
EXTENDS Staging, FiniteSetTheorems, TLAPS

LaunchPlaces == {"start", "look", "make", "open", "write", "persist", "compare", "resolve",
                 "staged", "running", "refused", "over"}

\* A clear, and what it knows of an entry: that it has the module, that it has
\* what an interpreter compiled.
ClearState == [at : {"idle", "read", "remove", "over"}, keep : BOOLEAN,
               names : SUBSET (Digests \cup Launches),
               seen : [Digests -> SUBSET {"module", "pyc"}],
               strays : SUBSET (Digests \cup Launches),
               left : SUBSET Digests, removed : SUBSET Digests, failures : SUBSET Digests]

\* The types.  A file is in an entry that is there.
Shape ==
    /\ kind \in {"agents", "children"} /\ windows \in BOOLEAN
    /\ root \in {"absent", "own", "open"}
    /\ dirs \subseteq Digests /\ files \subseteq dirs \X Contents
    /\ temps \subseteq Launches /\ failed \subseteq Launches
    /\ pc \in [Launches -> LaunchPlaces]
    /\ clears \in [Clearers -> ClearState]

\* A launch that has passed the start has something to stage.
HasSomething == \A l \in Launches : pc[l] \notin {"start", "refused"} => Staged(l) # {}

\* A clear that spares what this bpd stages has none of it left to remove.
KeepsAway == \A c \in Clearers : At(c, "remove") /\ clears[c].keep => clears[c].left \cap Kept = {}

\* The entry a launch made is there, and what it found or published is whole;
\* one that was refused has no other launch to blame for it.
Placed(l) ==
    /\ pc[l] \in {"open", "write", "persist"} => Of(l) \in dirs
    /\ pc[l] \in {"compare", "resolve", "staged", "running"} => Holds(Of(l))
    /\ pc[l] = "refused" => Staged(l) = {} \/ root = "open" \/ l \in failed

InPlace == Spared => \A l \in Launches : Placed(l)

\* An entry has one module at most, which is whole or was cut.
OneModule == \A d \in Digests : <<d, "whole">> \in files => <<d, "torn">> \notin files

-----------------------------------------------------------------------------
\* A launch that has something to stage stages it into an entry this bpd keeps.
LEMMA StagesIntoKept ==
    ASSUME Shape, NEW l \in Launches, Staged(l) # {}
    PROVE  Of(l) \in Staged(l) /\ Of(l) \in Kept /\ Of(l) \in Digests
<1>1. Of(l) \in Staged(l)
  BY DEF Of
<1>2. Staged(l) \subseteq Kept
  <2>1. Tag[l] \in Tags
    BY StagingAssumption
  <2>2. Tagged(Tag[l]) \subseteq UNION {Tagged(t) : t \in Tags}
    BY <2>1
  <2>3. Selected(Tag[l]) \subseteq Tagged(Tag[l]) \cup Development
    BY DEF Selected
  <2>4. Selected(Tag[l]) \subseteq Current
    BY <2>2, <2>3 DEF Current
  <2>5. QED
    BY <2>4 DEF Staged, Kept
<1>3. Staged(l) \subseteq Digests
  BY StagingAssumption, StagedAssumption DEF Staged
<1>4. QED
  BY <1>1, <1>2, <1>3

\* A clear that has something left to remove is at an entry of it.
LEMMA IsAtAnEntry ==
    ASSUME NEW c \in Clearers, clears[c].left # {} PROVE Entry(c) \in clears[c].left
  BY DEF Entry

\* A clear that goes on in a state a clear can be in.
LEMMA DoesIsTyped ==
    ASSUME Shape, NEW c \in Clearers, NEW s \in ClearState, Does(c, s)
    PROVE  clears' \in [Clearers -> ClearState]
  BY DEF Does, Shape

\* What is in an entry is in one that is there.
LEMMA FilesAreInEntries ==
    ASSUME Shape, NEW d, NEW x, <<d, x>> \in files PROVE d \in dirs /\ x \in Contents
  BY DEF Shape


\* The types are kept.
LEMMA ShapeStep ==
    ASSUME Shape, HasSomething, [Next]_vars PROVE Shape'
<1> USE DEF Shape, LaunchPlaces, system, disk
<1>1. ASSUME NEW l \in Launches, Trust(l) PROVE Shape'
  BY <1>1 DEF Trust, Goes
<1>2. ASSUME NEW l \in Launches, Look(l) PROVE Shape'
  BY <1>2 DEF Look, Goes
<1>3. ASSUME NEW l \in Launches, MakeEntry(l) PROVE Shape'
  <2>1. Of(l) \in Digests
    BY <1>3, StagesIntoKept DEF MakeEntry, Goes, HasSomething
  <2>2. dirs' \subseteq Digests /\ files' \subseteq dirs' \X Contents
    BY <1>3, <2>1 DEF MakeEntry
  <2>3. QED
    BY <1>3, <2>2 DEF MakeEntry, Goes
<1>4. ASSUME NEW l \in Launches, OpenTemp(l) PROVE Shape'
  BY <1>4 DEF OpenTemp, Goes
<1>5. ASSUME NEW l \in Launches, Write(l) PROVE Shape'
  BY <1>5 DEF Write, Goes
<1>6. ASSUME NEW l \in Launches, Persist(l) PROVE Shape'
  <2>1. /\ temps' \subseteq Launches
        /\ UNCHANGED <<kind, windows, root, dirs, failed, clears>>
    BY <1>6 DEF Persist
  <2>2. pc' \in [Launches -> LaunchPlaces]
    BY <1>6 DEF Persist, Goes
  <2>3. files' \subseteq dirs \X Contents
    BY <1>6 DEF Persist, Replaces, Contents, Modules
  <2>4. QED
    BY <2>1, <2>2, <2>3
<1>7. ASSUME NEW l \in Launches, Compare(l) PROVE Shape'
  BY <1>7 DEF Compare, Goes
<1>8. ASSUME NEW l \in Launches, Resolve(l) PROVE Shape'
  BY <1>8 DEF Resolve, Goes
<1>9. ASSUME NEW l \in Launches, Import(l) PROVE Shape'
  <2>1. UNCHANGED <<kind, windows, root, dirs, temps, failed, clears>>
    BY <1>9 DEF Import
  <2>2. pc' \in [Launches -> LaunchPlaces]
    BY <1>9 DEF Import, Goes
  <2>3. files' \subseteq dirs \X Contents
    BY <1>9 DEF Import, Holds, Contents
  <2>4. QED
    BY <2>1, <2>2, <2>3
<1>10. ASSUME NEW l \in Launches, Kill(l) PROVE Shape'
  BY <1>10 DEF Kill
<1>11. ASSUME NEW c \in Clearers, Open(c) PROVE Shape'
  <2>1. PICK k \in BOOLEAN :
          Does(c, [clears[c] EXCEPT !.at = IF root = "own" THEN "read" ELSE "over",
                       !.keep = k, !.names = IF root = "own" THEN dirs \cup temps ELSE {}])
    BY <1>11 DEF Open
  <2>2. [clears[c] EXCEPT !.at = IF root = "own" THEN "read" ELSE "over",
                       !.keep = k, !.names = IF root = "own" THEN dirs \cup temps ELSE {}]
          \in ClearState
    BY DEF ClearState
  <2>3. clears' \in [Clearers -> ClearState]
    BY <2>1, <2>2, DoesIsTyped
  <2>4. QED
    BY <1>11, <2>3 DEF Open
<1>12. ASSUME NEW c \in Clearers, Classify(c) PROVE Shape'
  <2>1. PICK x \in clears[c].names :
          LET s == [clears[c] EXCEPT !.names = @ \ {x}]
          IN  \/ x \in Launches /\ Does(c, [s EXCEPT !.strays = @ \cup {x}])
              \/ x \notin Launches /\ Does(c, [s EXCEPT !.at = "over"])
              \/ /\ x \notin Launches
                 /\ Does(c, [s EXCEPT !.seen[x] = {IF y = "pyc" THEN y ELSE "module" : y \in In(x)},
                                      !.left = @ \cup {x}])
              \/ x \notin Launches /\ Does(c, [s EXCEPT !.strays = @ \cup {x}])
    BY <1>12 DEF Classify
  <2> DEFINE s == [clears[c] EXCEPT !.names = @ \ {x}]
             held == {IF y = "pyc" THEN y ELSE "module" : y \in In(x)}
  <2>2. s \in ClearState /\ x \in Digests \cup Launches
    BY DEF ClearState
  <2>3. [s EXCEPT !.strays = @ \cup {x}] \in ClearState /\ [s EXCEPT !.at = "over"] \in ClearState
    BY <2>2 DEF ClearState
  <2>4. held \in SUBSET {"module", "pyc"}
    OBVIOUS
  <2>5. x \notin Launches =>
          [s EXCEPT !.seen[x] = held, !.left = @ \cup {x}] \in ClearState
    <3> SUFFICES ASSUME x \in Digests
                 PROVE  [s EXCEPT !.seen[x] = held, !.left = @ \cup {x}] \in ClearState
      BY <2>2
    <3> HIDE DEF s, held
    <3>1. [s.seen EXCEPT ![x] = held] \in [Digests -> SUBSET {"module", "pyc"}]
      BY <2>2, <2>4 DEF ClearState
    <3>2. QED
      BY <2>2, <3>1 DEF ClearState
  <2>6. clears' \in [Clearers -> ClearState]
    <3> HIDE DEF held
    <3>1. \E r \in ClearState : Does(c, r)
      BY <2>1, <2>3, <2>5 DEF held
    <3>2. QED
      BY <3>1, DoesIsTyped
  <2>7. QED
    BY <1>12, <2>6 DEF Classify
<1>13. ASSUME NEW c \in Clearers, Clear(c) PROVE Shape'
  <2> DEFINE s == [clears[c] EXCEPT
                     !.at = IF clears[c].strays # {} THEN "over" ELSE "remove",
                     !.left = IF clears[c].keep THEN @ \ Kept ELSE @]
  <2>1. s \in ClearState
    BY DEF ClearState
  <2>2. Does(c, s)
    BY <1>13 DEF Clear
  <2>3. clears' \in [Clearers -> ClearState]
    BY <2>1, <2>2, DoesIsTyped
  <2>4. QED
    BY <1>13, <2>3 DEF Clear
<1>14. ASSUME NEW c \in Clearers, RemoveFile(c) PROVE Shape'
  <2>1. PICK x \in clears[c].seen[Entry(c)] :
          \/ Does(c, [Passed(c) EXCEPT !.failures = @ \cup {Entry(c)}])
          \/ Does(c, [clears[c] EXCEPT !.seen[Entry(c)] = @ \ {x}])
    BY <1>14 DEF RemoveFile
  <2>2. Entry(c) \in clears[c].left /\ clears[c] \in ClearState /\ Entry(c) \in Digests
    BY <1>14, IsAtAnEntry DEF RemoveFile, Removing, ClearState
  <2>3. Passed(c) \in ClearState
    BY <2>2 DEF Passed, ClearState
  <2>4. [Passed(c) EXCEPT !.failures = @ \cup {Entry(c)}] \in ClearState
    BY <2>2, <2>3 DEF ClearState
  <2>5. [clears[c] EXCEPT !.seen[Entry(c)] = @ \ {x}] \in ClearState
    <3>1. [clears[c].seen EXCEPT ![Entry(c)] = @ \ {x}] \in [Digests -> SUBSET {"module", "pyc"}]
      BY <2>2 DEF ClearState
    <3>2. QED
      BY <2>2, <3>1 DEF ClearState
  <2>6. clears' \in [Clearers -> ClearState]
    BY <2>1, <2>4, <2>5, DoesIsTyped
  <2>7. files' \subseteq files
    BY <1>14 DEF RemoveFile
  <2>8. QED
    BY <1>14, <2>6, <2>7 DEF RemoveFile
<1>15. ASSUME NEW c \in Clearers, RemoveDir(c) PROVE Shape'
  <2>1. \/ Does(c, [Passed(c) EXCEPT !.removed = @ \cup {Entry(c)}])
        \/ Does(c, [Passed(c) EXCEPT !.failures = @ \cup {Entry(c)}])
    BY <1>15 DEF RemoveDir
  <2>2. Entry(c) \in clears[c].left /\ clears[c] \in ClearState /\ Entry(c) \in Digests
    BY <1>15, IsAtAnEntry DEF RemoveDir, Removing, ClearState
  <2>3. Passed(c) \in ClearState
    BY <2>2 DEF Passed, ClearState
  <2>4. /\ [Passed(c) EXCEPT !.removed = @ \cup {Entry(c)}] \in ClearState
        /\ [Passed(c) EXCEPT !.failures = @ \cup {Entry(c)}] \in ClearState
    BY <2>2, <2>3 DEF ClearState
  <2>5. clears' \in [Clearers -> ClearState]
    BY <2>1, <2>4, DoesIsTyped
  <2>6. dirs' \subseteq Digests /\ files' \subseteq dirs' \X Contents
    BY <1>15 DEF RemoveDir, In
  <2>7. QED
    BY <1>15, <2>5, <2>6 DEF RemoveDir
<1>16. ASSUME NEW c \in Clearers, Cleared(c) PROVE Shape'
  <2>1. [clears[c] EXCEPT !.at = "over"] \in ClearState
    BY DEF ClearState
  <2>2. clears' \in [Clearers -> ClearState]
    BY <1>16, <2>1, DoesIsTyped DEF Cleared
  <2>3. QED
    BY <1>16, <2>2 DEF Cleared
<1>17. CASE Intrude
  <2>1. files' \subseteq dirs \X Contents
    BY <1>17 DEF Intrude, Contents
  <2>2. QED
    BY <1>17, <2>1 DEF Intrude
<1>18. CASE UNCHANGED vars
  BY <1>18 DEF vars
<1>19. QED
  BY <1>1, <1>2, <1>3, <1>4, <1>5, <1>6, <1>7, <1>8, <1>9, <1>10, <1>11, <1>12, <1>13, <1>14, <1>15, <1>16, <1>17, <1>18
  DEF Next, Launch, Clearing

\* A launch goes past the start only with something to stage, and what it
\* stages stays the same.
LEMMA HasSomethingStep ==
    ASSUME Shape, HasSomething, [Next]_vars PROVE HasSomething'
<1> USE DEF Shape, system, HasSomething
<1>1. ASSUME NEW l \in Launches, Trust(l) PROVE HasSomething'
  BY <1>1 DEF Trust, Goes, Staged
<1>2. ASSUME NEW l \in Launches, Look(l) PROVE HasSomething'
  BY <1>2 DEF Look, Goes, Staged
<1>3. ASSUME NEW l \in Launches, MakeEntry(l) PROVE HasSomething'
  BY <1>3 DEF MakeEntry, Goes, Staged
<1>4. ASSUME NEW l \in Launches, OpenTemp(l) PROVE HasSomething'
  BY <1>4 DEF OpenTemp, Goes, Staged
<1>5. ASSUME NEW l \in Launches, Write(l) PROVE HasSomething'
  BY <1>5 DEF Write, Goes, Staged
<1>6. ASSUME NEW l \in Launches, Persist(l) PROVE HasSomething'
  BY <1>6 DEF Persist, Goes, Staged
<1>7. ASSUME NEW l \in Launches, Compare(l) PROVE HasSomething'
  BY <1>7 DEF Compare, Goes, Staged
<1>8. ASSUME NEW l \in Launches, Resolve(l) PROVE HasSomething'
  BY <1>8 DEF Resolve, Goes, Staged
<1>9. ASSUME NEW l \in Launches, Import(l) PROVE HasSomething'
  BY <1>9 DEF Import, Goes, Staged
<1>10. ASSUME NEW l \in Launches, Kill(l) PROVE HasSomething'
  BY <1>10 DEF Kill, Staged
<1>11. ASSUME NEW c \in Clearers, Open(c) PROVE HasSomething'
  BY <1>11 DEF Open, Does, At, Staged
<1>12. ASSUME NEW c \in Clearers, Classify(c) PROVE HasSomething'
  BY <1>12 DEF Classify, Does, At, Staged
<1>13. ASSUME NEW c \in Clearers, Clear(c) PROVE HasSomething'
  BY <1>13 DEF Clear, Does, At, Staged
<1>14. ASSUME NEW c \in Clearers, RemoveFile(c) PROVE HasSomething'
  BY <1>14 DEF RemoveFile, Does, At, Removing, Passed, Staged
<1>15. ASSUME NEW c \in Clearers, RemoveDir(c) PROVE HasSomething'
  BY <1>15 DEF RemoveDir, Does, At, Removing, Passed, Staged
<1>16. ASSUME NEW c \in Clearers, Cleared(c) PROVE HasSomething'
  BY <1>16 DEF Cleared, Does, At, Staged
<1>17. CASE Intrude
  BY <1>17 DEF Intrude, Staged
<1>18. CASE UNCHANGED vars
  BY <1>18 DEF vars, Staged
<1>19. QED
  BY <1>1, <1>2, <1>3, <1>4, <1>5, <1>6, <1>7, <1>8, <1>9, <1>10, <1>11, <1>12, <1>13, <1>14, <1>15, <1>16, <1>17, <1>18
  DEF Next, Launch, Clearing

\* What a clear has left to remove is decided when it has described all of it,
\* and it only shrinks.
LEMMA KeepsAwayStep ==
    ASSUME Shape, KeepsAway, [Next]_vars PROVE KeepsAway'
<1> USE DEF Shape, system, KeepsAway, ClearState
<1>1. ASSUME NEW l \in Launches, Trust(l) PROVE KeepsAway'
  BY <1>1 DEF Trust, Goes, At, Kept, Current
<1>2. ASSUME NEW l \in Launches, Look(l) PROVE KeepsAway'
  BY <1>2 DEF Look, Goes, At, Kept, Current
<1>3. ASSUME NEW l \in Launches, MakeEntry(l) PROVE KeepsAway'
  BY <1>3 DEF MakeEntry, Goes, At, Kept, Current
<1>4. ASSUME NEW l \in Launches, OpenTemp(l) PROVE KeepsAway'
  BY <1>4 DEF OpenTemp, Goes, At, Kept, Current
<1>5. ASSUME NEW l \in Launches, Write(l) PROVE KeepsAway'
  BY <1>5 DEF Write, Goes, At, Kept, Current
<1>6. ASSUME NEW l \in Launches, Persist(l) PROVE KeepsAway'
  BY <1>6 DEF Persist, Goes, At, Kept, Current
<1>7. ASSUME NEW l \in Launches, Compare(l) PROVE KeepsAway'
  BY <1>7 DEF Compare, Goes, At, Kept, Current
<1>8. ASSUME NEW l \in Launches, Resolve(l) PROVE KeepsAway'
  BY <1>8 DEF Resolve, Goes, At, Kept, Current
<1>9. ASSUME NEW l \in Launches, Import(l) PROVE KeepsAway'
  BY <1>9 DEF Import, Goes, At, Kept, Current
<1>10. ASSUME NEW l \in Launches, Kill(l) PROVE KeepsAway'
  BY <1>10 DEF Kill, At, Kept, Current
<1>11. ASSUME NEW c \in Clearers, Open(c) PROVE KeepsAway'
  BY <1>11 DEF Open, Does, At, At, Kept, Current
<1>12. ASSUME NEW c \in Clearers, Classify(c) PROVE KeepsAway'
  <2>1. PICK x \in clears[c].names :
          LET s == [clears[c] EXCEPT !.names = @ \ {x}]
          IN  \/ Does(c, [s EXCEPT !.strays = @ \cup {x}])
              \/ Does(c, [s EXCEPT !.at = "over"])
              \/ Does(c, [s EXCEPT !.seen[x] = {IF y = "pyc" THEN y ELSE "module" : y \in In(x)},
                                   !.left = @ \cup {x}])
    BY <1>12 DEF Classify
  <2>2. /\ clears[c].at = "read" /\ clears[c] \in ClearState
        /\ UNCHANGED kind
    BY <1>12 DEF Classify, At
  <2>3. clears'[c].at \in {"read", "over"}
    <3> DEFINE s == [clears[c] EXCEPT !.names = @ \ {x}]
    <3>1. s.at = "read" /\ s \in ClearState
      BY <2>2
    <3>2. CASE Does(c, [s EXCEPT !.strays = @ \cup {x}])
      BY <3>1, <3>2 DEF Does
    <3>3. CASE Does(c, [s EXCEPT !.at = "over"])
      BY <3>1, <3>3 DEF Does
    <3>4. CASE Does(c, [s EXCEPT !.seen[x] = {IF y = "pyc" THEN y ELSE "module" : y \in In(x)},
                                 !.left = @ \cup {x}])
      BY <3>1, <3>4 DEF Does
    <3>5. QED
      BY <2>1, <3>2, <3>3, <3>4
  <2>4. \A d \in Clearers : d # c => clears'[d] = clears[d]
    BY <2>1 DEF Does
  <2>5. QED
    BY <2>2, <2>3, <2>4 DEF At, Kept, Current
<1>13. ASSUME NEW c \in Clearers, Clear(c) PROVE KeepsAway'
  BY <1>13 DEF Clear, Does, At, At, Kept, Current
<1>14. ASSUME NEW c \in Clearers, RemoveFile(c) PROVE KeepsAway'
  <2>1. Entry(c) \in clears[c].left /\ clears[c] \in ClearState
    BY <1>14, IsAtAnEntry DEF RemoveFile, Removing
  <2>2. /\ clears'[c].keep = clears[c].keep /\ clears'[c].left \subseteq clears[c].left
        /\ \A d \in Clearers : d # c => clears'[d] = clears[d]
    <3>1. PICK x \in clears[c].seen[Entry(c)] :
            \/ Does(c, [Passed(c) EXCEPT !.failures = @ \cup {Entry(c)}])
            \/ Does(c, [clears[c] EXCEPT !.seen[Entry(c)] = @ \ {x}])
      BY <1>14 DEF RemoveFile
    <3>2. CASE Does(c, [Passed(c) EXCEPT !.failures = @ \cup {Entry(c)}])
      BY <2>1, <3>2 DEF Does, Passed
    <3>3. CASE Does(c, [clears[c] EXCEPT !.seen[Entry(c)] = @ \ {x}])
      BY <2>1, <3>3 DEF Does
    <3>4. QED
      BY <3>1, <3>2, <3>3
  <2>3. UNCHANGED kind /\ At(c, "remove")
    BY <1>14 DEF RemoveFile, Removing
  <2>4. QED
    BY <2>2, <2>3 DEF At, Kept, Current
<1>15. ASSUME NEW c \in Clearers, RemoveDir(c) PROVE KeepsAway'
  <2>1. clears[c] \in ClearState /\ UNCHANGED kind /\ At(c, "remove")
    BY <1>15 DEF RemoveDir, Removing
  <2>2. /\ clears'[c].keep = clears[c].keep /\ clears'[c].left \subseteq clears[c].left
        /\ \A d \in Clearers : d # c => clears'[d] = clears[d]
    <3>1. \/ Does(c, [Passed(c) EXCEPT !.removed = @ \cup {Entry(c)}])
          \/ Does(c, [Passed(c) EXCEPT !.failures = @ \cup {Entry(c)}])
      BY <1>15 DEF RemoveDir
    <3>2. CASE Does(c, [Passed(c) EXCEPT !.removed = @ \cup {Entry(c)}])
      BY <2>1, <3>2 DEF Does, Passed
    <3>3. CASE Does(c, [Passed(c) EXCEPT !.failures = @ \cup {Entry(c)}])
      BY <2>1, <3>3 DEF Does, Passed
    <3>4. QED
      BY <3>1, <3>2, <3>3
  <2>3. QED
    BY <2>1, <2>2 DEF At, Kept, Current
<1>16. ASSUME NEW c \in Clearers, Cleared(c) PROVE KeepsAway'
  BY <1>16 DEF Cleared, Does, At, At, Kept, Current
<1>17. CASE Intrude
  BY <1>17 DEF Intrude, At, Kept, Current
<1>18. CASE UNCHANGED vars
  BY <1>18 DEF vars, At, Kept, Current
<1>19. QED
  BY <1>1, <1>2, <1>3, <1>4, <1>5, <1>6, <1>7, <1>8, <1>9, <1>10, <1>11, <1>12, <1>13, <1>14, <1>15, <1>16, <1>17, <1>18
  DEF Next, Launch, Clearing

\* Only a publication puts a module there, in place of what there is.
LEMMA OneModuleStep ==
    ASSUME Shape, OneModule, [Next]_vars PROVE OneModule'
<1> USE DEF OneModule, disk
<1>1. ASSUME NEW l \in Launches, Trust(l) PROVE OneModule'
  BY <1>1 DEF Trust, Goes
<1>2. ASSUME NEW l \in Launches, Look(l) PROVE OneModule'
  BY <1>2 DEF Look, Goes
<1>3. ASSUME NEW l \in Launches, MakeEntry(l) PROVE OneModule'
  BY <1>3 DEF MakeEntry, Goes
<1>4. ASSUME NEW l \in Launches, OpenTemp(l) PROVE OneModule'
  BY <1>4 DEF OpenTemp, Goes
<1>5. ASSUME NEW l \in Launches, Write(l) PROVE OneModule'
  BY <1>5 DEF Write, Goes
<1>6. ASSUME NEW l \in Launches, Persist(l) PROVE OneModule'
  BY <1>6 DEF Persist
<1>7. ASSUME NEW l \in Launches, Compare(l) PROVE OneModule'
  BY <1>7 DEF Compare, Goes
<1>8. ASSUME NEW l \in Launches, Resolve(l) PROVE OneModule'
  BY <1>8 DEF Resolve, Goes
<1>9. ASSUME NEW l \in Launches, Import(l) PROVE OneModule'
  BY <1>9 DEF Import
<1>10. ASSUME NEW l \in Launches, Kill(l) PROVE OneModule'
  BY <1>10 DEF Kill
<1>11. ASSUME NEW c \in Clearers, Open(c) PROVE OneModule'
  BY <1>11 DEF Open, Does, At
<1>12. ASSUME NEW c \in Clearers, Classify(c) PROVE OneModule'
  BY <1>12 DEF Classify, Does, At
<1>13. ASSUME NEW c \in Clearers, Clear(c) PROVE OneModule'
  BY <1>13 DEF Clear, Does, At
<1>14. ASSUME NEW c \in Clearers, RemoveFile(c) PROVE OneModule'
  BY <1>14 DEF RemoveFile
<1>15. ASSUME NEW c \in Clearers, RemoveDir(c) PROVE OneModule'
  BY <1>15 DEF RemoveDir, Does, At, Removing, Passed
<1>16. ASSUME NEW c \in Clearers, Cleared(c) PROVE OneModule'
  BY <1>16 DEF Cleared, Does, At
<1>17. CASE Intrude
  BY <1>17 DEF Intrude
<1>18. CASE UNCHANGED vars
  BY <1>18 DEF vars
<1>19. QED
  BY <1>1, <1>2, <1>3, <1>4, <1>5, <1>6, <1>7, <1>8, <1>9, <1>10, <1>11, <1>12, <1>13, <1>14, <1>15, <1>16, <1>17, <1>18
  DEF Next, Launch, Clearing

\* A clear that is under way goes on, and keeps to what it was asked to spare.
LEMMA KeepsItsWord ==
    ASSUME Shape, NEW c \in Clearers, Classify(c) \/ RemoveFile(c) \/ RemoveDir(c)
    PROVE  /\ clears'[c].keep = clears[c].keep /\ clears'[c].at # "idle"
           /\ \A d \in Clearers : d # c => clears'[d] = clears[d]
<1> USE DEF Shape, Does
<1>0. clears[c] \in ClearState
  OBVIOUS
<1>1. CASE Classify(c)
  <2>1. PICK x \in clears[c].names :
          LET s == [clears[c] EXCEPT !.names = @ \ {x}]
          IN  \/ Does(c, [s EXCEPT !.strays = @ \cup {x}])
              \/ Does(c, [s EXCEPT !.at = "over"])
              \/ Does(c, [s EXCEPT !.seen[x] = {IF y = "pyc" THEN y ELSE "module" : y \in In(x)},
                                   !.left = @ \cup {x}])
    BY <1>1 DEF Classify
  <2> DEFINE s == [clears[c] EXCEPT !.names = @ \ {x}]
  <2>2. s.keep = clears[c].keep /\ s.at = "read" /\ s \in ClearState
    BY <1>0, <1>1 DEF ClearState, Classify, At
  <2>3. CASE Does(c, [s EXCEPT !.strays = @ \cup {x}])
    BY <2>2, <2>3 DEF ClearState
  <2>4. CASE Does(c, [s EXCEPT !.at = "over"])
    BY <2>2, <2>4 DEF ClearState
  <2>5. CASE Does(c, [s EXCEPT !.seen[x] = {IF y = "pyc" THEN y ELSE "module" : y \in In(x)},
                               !.left = @ \cup {x}])
    BY <2>2, <2>5 DEF ClearState
  <2>6. QED
    BY <2>1, <2>3, <2>4, <2>5
<1>2. CASE RemoveFile(c)
  <2>1. PICK x \in clears[c].seen[Entry(c)] :
          \/ Does(c, [Passed(c) EXCEPT !.failures = @ \cup {Entry(c)}])
          \/ Does(c, [clears[c] EXCEPT !.seen[Entry(c)] = @ \ {x}])
    BY <1>2 DEF RemoveFile
  <2>0. clears[c].at = "remove"
    BY <1>2 DEF RemoveFile, Removing, At
  <2>2. CASE Does(c, [Passed(c) EXCEPT !.failures = @ \cup {Entry(c)}])
    BY <1>0, <2>0, <2>2 DEF Passed, ClearState
  <2>3. CASE Does(c, [clears[c] EXCEPT !.seen[Entry(c)] = @ \ {x}])
    BY <1>0, <2>0, <2>3 DEF ClearState
  <2>4. QED
    BY <2>1, <2>2, <2>3
<1>3. CASE RemoveDir(c)
  <2>1. clears[c].at = "remove"
    BY <1>3 DEF RemoveDir, Removing, At
  <2>2. \/ Does(c, [Passed(c) EXCEPT !.removed = @ \cup {Entry(c)}])
        \/ Does(c, [Passed(c) EXCEPT !.failures = @ \cup {Entry(c)}])
    BY <1>3 DEF RemoveDir
  <2>3. CASE Does(c, [Passed(c) EXCEPT !.removed = @ \cup {Entry(c)}])
    BY <1>0, <2>1, <2>3 DEF Passed, ClearState
  <2>4. CASE Does(c, [Passed(c) EXCEPT !.failures = @ \cup {Entry(c)}])
    BY <1>0, <2>1, <2>4 DEF Passed, ClearState
  <2>5. QED
    BY <2>2, <2>3, <2>4
<1>4. QED
  BY <1>1, <1>2, <1>3

\* A clear decides when it opens the cache whether it spares anything.
LEMMA SparedStep ==
    ASSUME Shape, [Next]_vars, Spared' PROVE Spared
<1> USE DEF Shape, ClearState, Spared, At
<1>1. ASSUME NEW l \in Launches, Trust(l) PROVE Spared
  BY <1>1 DEF Trust
<1>2. ASSUME NEW l \in Launches, Look(l) PROVE Spared
  BY <1>2 DEF Look
<1>3. ASSUME NEW l \in Launches, MakeEntry(l) PROVE Spared
  BY <1>3 DEF MakeEntry
<1>4. ASSUME NEW l \in Launches, OpenTemp(l) PROVE Spared
  BY <1>4 DEF OpenTemp
<1>5. ASSUME NEW l \in Launches, Write(l) PROVE Spared
  BY <1>5 DEF Write
<1>6. ASSUME NEW l \in Launches, Persist(l) PROVE Spared
  BY <1>6 DEF Persist
<1>7. ASSUME NEW l \in Launches, Compare(l) PROVE Spared
  BY <1>7 DEF Compare
<1>8. ASSUME NEW l \in Launches, Resolve(l) PROVE Spared
  BY <1>8 DEF Resolve
<1>9. ASSUME NEW l \in Launches, Import(l) PROVE Spared
  BY <1>9 DEF Import
<1>10. ASSUME NEW l \in Launches, Kill(l) PROVE Spared
  BY <1>10 DEF Kill
<1>11. ASSUME NEW c \in Clearers, Open(c) PROVE Spared
  <2>1. clears[c].at = "idle" /\ \A d \in Clearers : d # c => clears'[d] = clears[d]
    BY <1>11 DEF Open, Does
  <2>2. QED
    BY <2>1
<1>12. ASSUME NEW c \in Clearers, Classify(c) PROVE Spared
  BY <1>12, KeepsItsWord
<1>13. ASSUME NEW c \in Clearers, Clear(c) PROVE Spared
  BY <1>13 DEF Clear, Does
<1>14. ASSUME NEW c \in Clearers, RemoveFile(c) PROVE Spared
  BY <1>14, KeepsItsWord
<1>15. ASSUME NEW c \in Clearers, RemoveDir(c) PROVE Spared
  BY <1>15, KeepsItsWord
<1>16. ASSUME NEW c \in Clearers, Cleared(c) PROVE Spared
  BY <1>16 DEF Cleared, Does
<1>17. CASE Intrude
  BY <1>17 DEF Intrude
<1>18. CASE UNCHANGED vars
  BY <1>18 DEF vars
<1>19. QED
  BY <1>1, <1>2, <1>3, <1>4, <1>5, <1>6, <1>7, <1>8, <1>9, <1>10, <1>11, <1>12, <1>13, <1>14, <1>15, <1>16, <1>17, <1>18
  DEF Next, Launch, Clearing

-----------------------------------------------------------------------------
\* An entry that is kept is left to no clear while each of them spares it.
LEMMA NoneRemovesKept ==
    ASSUME KeepsAway, Spared, NEW c \in Clearers, Removing(c) PROVE Entry(c) \notin Kept
  BY IsAtAnEntry DEF KeepsAway, Spared, Removing, At

\* The cache that is worked on is the same throughout.
LEMMA KindStays == ASSUME [Next]_vars PROVE UNCHANGED kind
<1> USE DEF system
<1>1. ASSUME NEW l \in Launches, Trust(l) PROVE UNCHANGED kind
  BY <1>1 DEF Trust
<1>2. ASSUME NEW l \in Launches, Look(l) PROVE UNCHANGED kind
  BY <1>2 DEF Look
<1>3. ASSUME NEW l \in Launches, MakeEntry(l) PROVE UNCHANGED kind
  BY <1>3 DEF MakeEntry
<1>4. ASSUME NEW l \in Launches, OpenTemp(l) PROVE UNCHANGED kind
  BY <1>4 DEF OpenTemp
<1>5. ASSUME NEW l \in Launches, Write(l) PROVE UNCHANGED kind
  BY <1>5 DEF Write
<1>6. ASSUME NEW l \in Launches, Persist(l) PROVE UNCHANGED kind
  BY <1>6 DEF Persist
<1>7. ASSUME NEW l \in Launches, Compare(l) PROVE UNCHANGED kind
  BY <1>7 DEF Compare
<1>8. ASSUME NEW l \in Launches, Resolve(l) PROVE UNCHANGED kind
  BY <1>8 DEF Resolve
<1>9. ASSUME NEW l \in Launches, Import(l) PROVE UNCHANGED kind
  BY <1>9 DEF Import
<1>10. ASSUME NEW l \in Launches, Kill(l) PROVE UNCHANGED kind
  BY <1>10 DEF Kill
<1>11. ASSUME NEW c \in Clearers, Open(c) PROVE UNCHANGED kind
  BY <1>11 DEF Open
<1>12. ASSUME NEW c \in Clearers, Classify(c) PROVE UNCHANGED kind
  BY <1>12 DEF Classify
<1>13. ASSUME NEW c \in Clearers, Clear(c) PROVE UNCHANGED kind
  BY <1>13 DEF Clear
<1>14. ASSUME NEW c \in Clearers, RemoveFile(c) PROVE UNCHANGED kind
  BY <1>14 DEF RemoveFile
<1>15. ASSUME NEW c \in Clearers, RemoveDir(c) PROVE UNCHANGED kind
  BY <1>15 DEF RemoveDir
<1>16. ASSUME NEW c \in Clearers, Cleared(c) PROVE UNCHANGED kind
  BY <1>16 DEF Cleared
<1>17. CASE Intrude
  BY <1>17 DEF Intrude
<1>18. CASE UNCHANGED vars
  BY <1>18 DEF vars
<1>19. QED
  BY <1>1, <1>2, <1>3, <1>4, <1>5, <1>6, <1>7, <1>8, <1>9, <1>10, <1>11, <1>12, <1>13, <1>14, <1>15, <1>16, <1>17, <1>18
  DEF Next, Launch, Clearing

\* And so are the entries of the launches.
LEMMA SameEntries == ASSUME NEW l, UNCHANGED kind PROVE Staged(l)' = Staged(l) /\ Of(l)' = Of(l)
  BY DEF Staged, Of

\* A launch that does nothing stays where it was while its entry does.
LEMMA PlacedStays ==
    ASSUME NEW l \in Launches, Placed(l), UNCHANGED kind, pc'[l] = pc[l],
           Of(l) \in dirs => Of(l) \in dirs', Holds(Of(l)) => <<Of(l), "whole">> \in files',
           root = "open" => root' = "open", failed \subseteq failed'
    PROVE  Placed(l)'
  BY SameEntries DEF Placed, Holds

\* What is in place stays there: a launch goes on from it, other launches put
\* the same bytes where they were, and no clear takes away what it spares.
LEMMA PlacedStep ==
    ASSUME Shape, HasSomething, KeepsAway, InPlace, Spared, [Next]_vars,
           NEW m \in Launches
    PROVE  Placed(m)'
<1> USE DEF Shape, system, disk
<1>00. \A l \in Launches : pc[l] = "running" => Holds(Of(l))
  BY DEF InPlace, Placed
<1>0. /\ Placed(m) /\ (pc[m] \notin {"start", "refused"} => Of(m) \in Kept)
      /\ UNCHANGED kind /\ Staged(m)' = Staged(m) /\ Of(m)' = Of(m)
  BY StagesIntoKept, KindStays, SameEntries DEF InPlace, HasSomething
<1> USE DEF Placed, Holds
<1>1. ASSUME NEW l \in Launches, Trust(l) PROVE Placed(m)'
  <2>1. CASE m # l
    BY <1>1, <1>0, <2>1, PlacedStays DEF Trust, Goes
  <2>2. CASE m = l
    BY <1>1, <1>0, <2>2 DEF Trust, Goes
  <2>3. QED
    BY <2>1, <2>2
<1>2. ASSUME NEW l \in Launches, Look(l) PROVE Placed(m)'
  <2>1. CASE m # l
    BY <1>2, <1>0, <2>1, PlacedStays DEF Look, Goes
  <2>2. CASE m = l
    BY <1>2, <1>0, <2>2 DEF Look, Goes
  <2>3. QED
    BY <2>1, <2>2
<1>3. ASSUME NEW l \in Launches, MakeEntry(l) PROVE Placed(m)'
  <2>1. CASE m # l
    BY <1>3, <1>0, <2>1, PlacedStays DEF MakeEntry, Goes
  <2>2. CASE m = l
    BY <1>3, <1>0, <2>2 DEF MakeEntry, Goes
  <2>3. QED
    BY <2>1, <2>2
<1>4. ASSUME NEW l \in Launches, OpenTemp(l) PROVE Placed(m)'
  <2>1. CASE m # l
    BY <1>4, <1>0, <2>1, PlacedStays DEF OpenTemp, Goes
  <2>2. CASE m = l
    BY <1>4, <1>0, <2>2 DEF OpenTemp, Goes
  <2>3. QED
    BY <2>1, <2>2
<1>5. ASSUME NEW l \in Launches, Write(l) PROVE Placed(m)'
  <2>1. CASE m # l
    BY <1>5, <1>0, <2>1, PlacedStays DEF Write, Goes
  <2>2. CASE m = l
    BY <1>5, <1>0, <2>2 DEF Write, Goes
  <2>3. QED
    BY <2>1, <2>2
<1>6. ASSUME NEW l \in Launches, Persist(l) PROVE Placed(m)'
  <2>1. CASE m # l
    BY <1>6, <1>0, <2>1, PlacedStays DEF Persist, Goes
  <2>2. CASE m = l
    <3>1. Of(l) \in dirs
      BY <1>6, <1>0, <2>2 DEF Persist, Goes
    <3>2. CASE Replaces(l)
      BY <1>6, <1>0, <2>2, <3>2 DEF Persist, Goes
    <3>3. CASE ~Replaces(l)
      <4>1. PICK k \in Launches : pc[k] = "running" /\ Of(k) = Of(l)
        BY <3>1, <3>3 DEF Replaces, InUse, Running
      <4>2. Holds(Of(k))
        BY <4>1, <1>00
      <4>3. QED
        BY <1>6, <1>0, <2>2, <3>3, <4>1, <4>2 DEF Persist, Goes
    <3>4. QED
      BY <3>2, <3>3
  <2>3. QED
    BY <2>1, <2>2
<1>7. ASSUME NEW l \in Launches, Compare(l) PROVE Placed(m)'
  <2>1. CASE m # l
    BY <1>7, <1>0, <2>1, PlacedStays DEF Compare, Goes
  <2>2. CASE m = l
    BY <1>7, <1>0, <2>2 DEF Compare, Goes
  <2>3. QED
    BY <2>1, <2>2
<1>8. ASSUME NEW l \in Launches, Resolve(l) PROVE Placed(m)'
  <2>1. CASE m # l
    BY <1>8, <1>0, <2>1, PlacedStays DEF Resolve, Goes
  <2>2. CASE m = l
    BY <1>8, <1>0, <2>2 DEF Resolve, Goes
  <2>3. QED
    BY <2>1, <2>2
<1>9. ASSUME NEW l \in Launches, Import(l) PROVE Placed(m)'
  <2>1. CASE m # l
    BY <1>9, <1>0, <2>1, PlacedStays DEF Import, Goes
  <2>2. CASE m = l
    BY <1>9, <1>0, <2>2 DEF Import, Goes
  <2>3. QED
    BY <2>1, <2>2
<1>10. ASSUME NEW l \in Launches, Kill(l) PROVE Placed(m)'
  <2>1. CASE m # l
    BY <1>10, <1>0, <2>1, PlacedStays DEF Kill
  <2>2. CASE m = l
    BY <1>10, <1>0, <2>2 DEF Kill
  <2>3. QED
    BY <2>1, <2>2
<1>11. ASSUME NEW c \in Clearers, Open(c) PROVE Placed(m)'
  BY <1>11, <1>0, PlacedStays DEF Open
<1>12. ASSUME NEW c \in Clearers, Classify(c) PROVE Placed(m)'
  BY <1>12, <1>0, PlacedStays DEF Classify
<1>13. ASSUME NEW c \in Clearers, Clear(c) PROVE Placed(m)'
  BY <1>13, <1>0, PlacedStays DEF Clear
<1>14. ASSUME NEW c \in Clearers, RemoveFile(c) PROVE Placed(m)'
  <2>1. Entry(c) \notin Kept
    BY <1>14, NoneRemovesKept DEF RemoveFile
  <2>2. /\ UNCHANGED <<root, dirs, pc, failed>>
        /\ \A d : d # Entry(c) => (Holds(d) => <<d, "whole">> \in files')
    BY <1>14 DEF RemoveFile
  <2>3. CASE pc[m] \in {"start", "refused"}
    BY <1>0, <2>2, <2>3
  <2>4. CASE pc[m] \notin {"start", "refused"}
    BY <1>0, <2>1, <2>2, <2>4, PlacedStays
  <2>5. QED
    BY <2>3, <2>4
<1>15. ASSUME NEW c \in Clearers, RemoveDir(c) PROVE Placed(m)'
  <2>1. Entry(c) \notin Kept
    BY <1>15, NoneRemovesKept DEF RemoveDir
  <2>2. /\ UNCHANGED <<root, files, pc, failed>>
        /\ \A d : d # Entry(c) => (d \in dirs => d \in dirs')
    BY <1>15 DEF RemoveDir
  <2>3. CASE pc[m] \in {"start", "refused"}
    BY <1>0, <2>2, <2>3
  <2>4. CASE pc[m] \notin {"start", "refused"}
    BY <1>0, <2>1, <2>2, <2>4, PlacedStays
  <2>5. QED
    BY <2>3, <2>4
<1>16. ASSUME NEW c \in Clearers, Cleared(c) PROVE Placed(m)'
  BY <1>16, <1>0, PlacedStays DEF Cleared
<1>17. CASE Intrude
  BY <1>17, <1>0, PlacedStays DEF Intrude
<1>18. CASE UNCHANGED vars
  BY <1>18, <1>0, PlacedStays DEF vars
<1>19. QED
  BY <1>1, <1>2, <1>3, <1>4, <1>5, <1>6, <1>7, <1>8, <1>9, <1>10, <1>11, <1>12, <1>13, <1>14, <1>15, <1>16, <1>17, <1>18
  DEF Next, Launch, Clearing

LEMMA InPlaceStep ==
    ASSUME Shape, HasSomething, KeepsAway, InPlace, [Next]_vars PROVE InPlace'
  BY SparedStep, PlacedStep DEF InPlace

-----------------------------------------------------------------------------
LEMMA PairHasTwo == Cardinality({"whole", "torn"}) = 2
<1>1. IsFiniteSet({"whole"}) /\ Cardinality({"whole"}) = 1
  BY FS_Singleton
<1>2. {"whole", "torn"} = {"whole"} \cup {"torn"}
  OBVIOUS
<1>3. QED
  BY <1>1, <1>2, FS_AddElement

LEMMA AtMostOne ==
    ASSUME NEW S, S \subseteq {"whole", "torn"}, ~("whole" \in S /\ "torn" \in S)
    PROVE  Cardinality(S) <= 1
<1>1. S = {} \/ S = {"whole"} \/ S = {"torn"}
  OBVIOUS
<1>2. Cardinality({}) = 0
  BY FS_EmptySet
<1>3. Cardinality({"whole"}) = 1 /\ Cardinality({"torn"}) = 1
  BY FS_Singleton
<1>4. CASE S = {}
  BY <1>2, <1>4
<1>5. CASE S = {"whole"}
  BY <1>3, <1>5
<1>6. CASE S = {"torn"}
  BY <1>3, <1>6
<1>7. QED
  BY <1>1, <1>4, <1>5, <1>6

IndInv == Shape /\ HasSomething /\ KeepsAway /\ InPlace /\ OneModule

LEMMA IndInvHolds == Spec => []IndInv
<1>1. Init => IndInv
  <2> SUFFICES ASSUME Init PROVE IndInv
    OBVIOUS
  <2> USE DEF Init
  <2>1. NotYet \in ClearState
    BY DEF NotYet, ClearState
  <2>2. kind \in {"agents", "children"} /\ windows \in BOOLEAN
    BY StagingAssumption
  <2>3. dirs \subseteq Digests /\ files \subseteq dirs \X Contents
    <3>1. dirs \in (IF root = "own" THEN SUBSET Digests ELSE {{}}) /\ files \in SUBSET (dirs \X Modules)
      OBVIOUS
    <3>2. QED
      BY <3>1 DEF Contents
  <2>4. Shape
    BY <2>1, <2>2, <2>3 DEF Shape, LaunchPlaces
  <2>5. HasSomething /\ InPlace
    BY DEF HasSomething, InPlace, Placed
  <2>6. KeepsAway
    BY DEF KeepsAway, At, NotYet
  <2>7. QED
    <3>1. OneModule
      <4> SUFFICES ASSUME NEW d \in Digests, <<d, "whole">> \in files, <<d, "torn">> \in files
                   PROVE  FALSE
        BY DEF OneModule
      <4>1. d \in dirs /\ In(d) \cap Modules = {"whole", "torn"}
        BY <2>3 DEF In, Contents, Modules
      <4>2. Cardinality({"whole", "torn"}) = 2
        BY PairHasTwo
      <4>3. QED
        BY <4>1, <4>2
    <3>2. QED
      BY <2>4, <2>5, <2>6, <3>1 DEF IndInv
<1>2. IndInv /\ [Next]_vars => IndInv'
  BY ShapeStep, HasSomethingStep, KeepsAwayStep, InPlaceStep, OneModuleStep DEF IndInv
<1>3. QED
  BY <1>1, <1>2, PTL DEF Spec

\* The types, and that no entry has two modules.
THEOREM TypesHold == Spec => []TypeOK
<1>1. IndInv => TypeOK
  <2> SUFFICES ASSUME IndInv PROVE TypeOK
    OBVIOUS
  <2>1. \A d \in dirs : Cardinality(In(d) \cap Modules) <= 1
    <3> TAKE d \in dirs
    <3>1. In(d) \cap Modules \subseteq {"whole", "torn"}
      BY DEF Modules
    <3>2. ~("whole" \in In(d) /\ "torn" \in In(d))
      BY DEF IndInv, OneModule, Shape, In
    <3>3. QED
      BY <3>1, <3>2, AtMostOne
  <2>2. QED
    BY <2>1 DEF IndInv, Shape, TypeOK
<1>2. QED
  BY <1>1, IndInvHolds, PTL

\* A launch of any number that run at once keeps what it staged, and is refused
\* only for what it could not stage itself, however many clears run beside it,
\* as long as each spares what this bpd stages: `stage' in agent.rs and `plan'
\* and `clear' in cache.rs.
THEOREM StagedStands == Spec => []LaunchStands
<1>1. IndInv => LaunchStands
  BY DEF IndInv, InPlace, Placed, LaunchStands, StagedStays, LaunchesAgree
<1>2. QED
  BY <1>1, IndInvHolds, PTL

-----------------------------------------------------------------------------
Described(x) ==
    /\ x[2] # "alien"
    /\ \/ x[2] = "torn" /\ <<x[1], "whole">> \in files'
       \/ \E c \in Clearers :
            /\ Removing(c) /\ Entry(c) = x[1]
            /\ (IF x[2] = "pyc" THEN "pyc" ELSE "module") \in clears[c].seen[x[1]]

\* Only a publication that puts the whole module there and the removal of a
\* file take anything out of an entry.
LEMMA DescribedStep ==
    ASSUME Shape, [Next]_vars PROVE \A x \in files \ files' : Described(x)
<1> USE DEF Described
<1>1. ASSUME NEW l \in Launches, Trust(l) PROVE \A x \in files \ files' : Described(x)
  BY <1>1 DEF Trust, disk
<1>2. ASSUME NEW l \in Launches, Look(l) PROVE \A x \in files \ files' : Described(x)
  BY <1>2 DEF Look, disk
<1>3. ASSUME NEW l \in Launches, MakeEntry(l) PROVE \A x \in files \ files' : Described(x)
  BY <1>3 DEF MakeEntry, disk
<1>4. ASSUME NEW l \in Launches, OpenTemp(l) PROVE \A x \in files \ files' : Described(x)
  BY <1>4 DEF OpenTemp, disk
<1>5. ASSUME NEW l \in Launches, Write(l) PROVE \A x \in files \ files' : Described(x)
  BY <1>5 DEF Write, disk
<1>6. ASSUME NEW l \in Launches, Persist(l) PROVE \A x \in files \ files' : Described(x)
  BY <1>6 DEF Persist
<1>7. ASSUME NEW l \in Launches, Compare(l) PROVE \A x \in files \ files' : Described(x)
  BY <1>7 DEF Compare, disk
<1>8. ASSUME NEW l \in Launches, Resolve(l) PROVE \A x \in files \ files' : Described(x)
  BY <1>8 DEF Resolve, disk
<1>9. ASSUME NEW l \in Launches, Import(l) PROVE \A x \in files \ files' : Described(x)
  BY <1>9 DEF Import
<1>10. ASSUME NEW l \in Launches, Kill(l) PROVE \A x \in files \ files' : Described(x)
  BY <1>10 DEF Kill, disk
<1>11. ASSUME NEW c \in Clearers, Open(c) PROVE \A x \in files \ files' : Described(x)
  BY <1>11 DEF Open, disk
<1>12. ASSUME NEW c \in Clearers, Classify(c) PROVE \A x \in files \ files' : Described(x)
  BY <1>12 DEF Classify, disk
<1>13. ASSUME NEW c \in Clearers, Clear(c) PROVE \A x \in files \ files' : Described(x)
  BY <1>13 DEF Clear, disk
<1>14. ASSUME NEW c \in Clearers, RemoveFile(c) PROVE \A x \in files \ files' : Described(x)
  <2>1. /\ Removing(c) /\ Entry(c) \in Digests /\ clears[c].seen \in [Digests -> SUBSET {"module", "pyc"}]
    BY <1>14, IsAtAnEntry DEF RemoveFile, Removing, Shape, ClearState
  <2>2. PICK x \in clears[c].seen[Entry(c)] :
          \/ files' = files
          \/ files' = files \ ({Entry(c)} \X (IF x = "module" THEN Modules ELSE {x}))
    BY <1>14 DEF RemoveFile
  <2>3. x \in {"module", "pyc"}
    BY <2>1, <2>2
  <2>4. ASSUME NEW y \in files \ files' PROVE Described(y)
    <3>1. y[1] = Entry(c) /\ y[2] \in (IF x = "module" THEN Modules ELSE {x})
      BY <2>2
    <3>2. y[2] # "alien" /\ (IF y[2] = "pyc" THEN "pyc" ELSE "module") = x
      BY <2>3, <3>1 DEF Modules
    <3>3. QED
      BY <2>1, <2>2, <3>1, <3>2
  <2>5. QED
    BY <2>4
<1>15. ASSUME NEW c \in Clearers, RemoveDir(c) PROVE \A x \in files \ files' : Described(x)
  BY <1>15 DEF RemoveDir, disk
<1>16. ASSUME NEW c \in Clearers, Cleared(c) PROVE \A x \in files \ files' : Described(x)
  BY <1>16 DEF Cleared, disk
<1>17. CASE Intrude
  BY <1>17 DEF Intrude
<1>18. CASE UNCHANGED vars
  BY <1>18 DEF vars, disk
<1>19. QED
  BY <1>1, <1>2, <1>3, <1>4, <1>5, <1>6, <1>7, <1>8, <1>9, <1>10, <1>11, <1>12, <1>13, <1>14, <1>15, <1>16, <1>17, <1>18
  DEF Next, Launch, Clearing

\* Nothing leaves an entry but what a clear has described before it removes
\* it, and a cut module that a whole one takes the place of: `remove' in
\* cache.rs, which unlinks the files of its description and then the directory
\* only if it is empty.
THEOREM OnlyTheDescribedGoes == Spec => OnlyWhatWasDescribed
<1>1. IndInv /\ [Next]_vars => [\A x \in Gone :
       /\ x[2] # "alien"
       /\ \/ x[2] = "torn" /\ <<x[1], "whole">> \in files'
          \/ \E c \in Clearers :
               /\ Removing(c) /\ Entry(c) = x[1]
               /\ (IF x[2] = "pyc" THEN "pyc" ELSE "module") \in clears[c].seen[x[1]]]_vars
  BY DescribedStep DEF IndInv, Described, Gone
<1>2. QED
  BY <1>1, IndInvHolds, PTL DEF Spec, OnlyWhatWasDescribed
================================================================================
