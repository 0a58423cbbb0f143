------------------------------ MODULE Fork_proofs ------------------------------
(***************************************************************************)
(* What Fork promises for any finite set of forking threads, any number of *)
(* requests and forks, and both builds: the reader is off the process from *)
(* before a fork until after it and one thread at a time answers, the two  *)
(* handlers of a fork find what the code asserts they find, and a request  *)
(* is neither lost, repeated nor overtaken.                                *)
(*                                                                         *)
(* The second half is what Child promises of what a fork made, for any     *)
(* processes and threads, whether or not a stop may hold the rest of its   *)
(* process.  The two modules share no name.                                *)
(***************************************************************************)
EXTENDS Fork, Child, FiniteSetTheorems, SequenceTheorems, TLAPS

ForkerPlaces == {"python", "joinReader", "answerer", "joinAnswerer", "fork", "forked",
                 "resume"}

\* The types of everything but the counters.
ShapeOK ==
    /\ sent \in Nat /\ socket \in Seq(Nat) /\ closed \in BOOLEAN
    /\ reader \in {"off", "poll", "route", "gone"}
    /\ inHand \in Seq(Nat) /\ {reading, idle, inFlight, stopping} \subseteq BOOLEAN
    /\ readerLock \in Forkers \cup {"nobody"}
    /\ queue \in Seq(Nat) /\ answered \in Seq(Nat)
    /\ running \in Answerers \cup {"nobody"}
    /\ answerer \in [Answerers -> {"off", "look", "wait", "taken", "attached", "done", "gone"}]
    /\ taken \in [Answerers -> Seq(Nat)]
    /\ pc \in [Forkers -> ForkerPlaces]
    /\ joining \in [Forkers -> Answerers \cup {"nobody"}]
    /\ gil \in Forkers \cup Answerers \cup {"nobody"}
    /\ forks \in Nat

\* The forks that have stood the reader down, and those that have stood the
\* answering thread down, and not put them back.
KeepingReader   == {f \in Forkers : pc[f] \in {"joinReader", "answerer", "joinAnswerer",
                                               "fork", "forked"}}
KeepingAnswerer == {f \in Forkers : pc[f] \in {"joinAnswerer", "fork", "forked", "resume"}}

\* READER: its count, its mutex, and the one fork that found the reader there.
ReaderStoodDown ==
    /\ forkingR = Cardinality(KeepingReader)
    /\ reading <=> KeepingReader = {}
    /\ \A f \in Forkers : readerLock = f <=> pc[f] = "joinReader"
    /\ \A f \in Forkers : pc[f] = "joinReader" => KeepingReader = {f}
    /\ reading => reader # "off" /\ wakeup = 0 /\ ~idle
    /\ readerLock # "nobody" => reader # "off" /\ wakeup = 1
    /\ ~reading /\ readerLock = "nobody" => reader = "off" /\ wakeup = 0 /\ idle

\* Answering: its count, and who knows of the thread that answers.
AnswererStoodDown ==
    /\ forkingA = Cardinality(KeepingAnswerer)
    /\ running # "nobody" => KeepingAnswerer = {}
    /\ \A f \in Forkers : joining[f] # "nobody" <=> pc[f] = "joinAnswerer"
    /\ \A f, g \in Forkers : joining[f] # "nobody" /\ joining[g] # "nobody" => f = g
    /\ \A a \in Answerers : answerer[a] # "off" =>
          running = a \/ \E f \in Forkers : joining[f] = a

\* A request is in the hand of the reader that routes it, or of the thread that
\* answers it, and of nobody else.
InHands ==
    /\ inHand # <<>> => reader = "route"
    /\ reader = "route" => Len(inHand) = 1
    /\ \A a \in Answerers : taken[a] # <<>> => answerer[a] \in {"taken", "attached"}

-----------------------------------------------------------------------------
\* Finitely many threads fork, so the forks under way are counted one by one.
LEMMA CountsForkers ==
    ASSUME NEW S \in SUBSET Forkers
    PROVE  /\ Cardinality(S) \in Nat
           /\ Cardinality(S) = 0 <=> S = {}
           /\ \A f \in Forkers \ S : Cardinality(S \cup {f}) = Cardinality(S) + 1
           /\ \A f \in S : Cardinality(S \ {f}) = Cardinality(S) - 1
<1>1. IsFiniteSet(S)
  BY ForkAssumption, FS_Subset
<1>2. Cardinality(S) \in Nat /\ (Cardinality(S) = 0 <=> S = {})
  BY <1>1, FS_CardinalityType, FS_EmptySet
<1>3. \A f \in Forkers \ S : Cardinality(S \cup {f}) = Cardinality(S) + 1
  BY <1>1, FS_AddElement
<1>4. \A f \in S : Cardinality(S \ {f}) = Cardinality(S) - 1
  BY <1>1, FS_RemoveElement
<1>5. QED
  BY <1>2, <1>3, <1>4

\* The types are kept.
LEMMA ShapeStep ==
    ASSUME ShapeOK, AnswererStoodDown, InHands, [Next]_vars PROVE ShapeOK'
<1> USE ForkAssumption DEF ShapeOK, ForkerPlaces, engine, readerSide, answerSide, forkSide
<1>1. CASE Send
  BY <1>1 DEF Send
<1>2. CASE Close
  BY <1>2 DEF Close
<1>3. CASE ReaderStandsDown
  BY <1>3 DEF ReaderStandsDown
<1>4. CASE Read
  BY <1>4 DEF Read
<1>5. CASE ReadEnd
  BY <1>5 DEF ReadEnd
<1>6. CASE Route
  <2>1. inHand[1] \in Nat
    <3>1. Len(inHand) = 1
      BY <1>6 DEF Route, InHands
    <3>2. 1 \in 1..Len(inHand)
      BY <3>1
    <3>3. QED
      BY <3>2, ElementOfSeq
  <2>2. queue' \in Seq(Nat) /\ inHand' \in Seq(Nat) /\ reader' = "poll"
    BY <1>6, <2>1 DEF Route
  <2>3. /\ stopping' \in BOOLEAN /\ running' \in Answerers \cup {"nobody"}
        /\ answerer' \in [Answerers -> {"off", "look", "wait", "taken", "attached", "done", "gone"}]
    <3>1. CASE StartAnswering
      BY <3>1 DEF StartAnswering
    <3>2. CASE Notify /\ UNCHANGED <<stopping, running>>
      BY <3>2 DEF Notify
    <3>3. QED
      BY <1>6, <3>1, <3>2 DEF Route
  <2>4. UNCHANGED <<sent, socket, closed, reading, idle, readerLock, inFlight, taken, answered,
                    pc, joining, forks, gil>>
    BY <1>6 DEF Route
  <2>5. QED
    BY <2>2, <2>3, <2>4
<1>7. ASSUME NEW a \in Answerers, Look(a) PROVE ShapeOK'
  <2>1. /\ answerer' \in [Answerers -> {"off", "look", "wait", "taken", "attached", "done", "gone"}]
        /\ inFlight' \in BOOLEAN
    BY <1>7 DEF Look
  <2>2. queue' \in Seq(Nat)
    <3>1. queue # <<>> => Tail(queue) \in Seq(Nat)
      BY HeadTailProperties
    <3>2. queue' = queue \/ (queue # <<>> /\ queue' = Tail(queue))
      BY <1>7 DEF Look
    <3>3. QED
      BY <3>1, <3>2
  <2>3. taken' \in [Answerers -> Seq(Nat)]
    <3>1. queue # <<>> => <<Head(queue)>> \in Seq(Nat)
      OBVIOUS
    <3>2. QED
      BY <1>7, <3>1 DEF Look
  <2>4. UNCHANGED <<sent, socket, closed, reader, inHand, reading, idle, readerLock, stopping,
                    running, answered, pc, joining, forks, gil>>
    BY <1>7 DEF Look
  <2>5. QED
    BY <2>1, <2>2, <2>3, <2>4
<1>8. ASSUME NEW a \in Answerers, Attach(a) PROVE ShapeOK'
  BY <1>8 DEF Attach, Attaches
<1>9. ASSUME NEW a \in Answerers, Answer(a) PROVE ShapeOK'
  BY <1>9 DEF Answer, Detaches
<1>10. ASSUME NEW a \in Answerers, Done(a) PROVE ShapeOK'
  BY <1>10 DEF Done
<1>11. ASSUME NEW f \in Forkers, StandDownReader(f) PROVE ShapeOK'
  <2>1. reading' \in BOOLEAN /\ readerLock' \in Forkers \cup {"nobody"}
    BY <1>11 DEF StandDownReader
  <2>2. pc' \in [Forkers -> ForkerPlaces]
    BY <1>11 DEF StandDownReader, Goto
  <2>3. gil' \in Forkers \cup Answerers \cup {"nobody"} /\ forks' \in Nat
    BY <1>11 DEF StandDownReader, Attaches
  <2>4. UNCHANGED <<sent, socket, closed, reader, inHand, idle, queue, inFlight, stopping,
                    running, answerer, taken, answered, joining>>
    BY <1>11 DEF StandDownReader
  <2>5. QED
    BY <2>1, <2>2, <2>3, <2>4
<1>12. ASSUME NEW f \in Forkers, JoinReader(f) PROVE ShapeOK'
  BY <1>12 DEF JoinReader, Goto
<1>13. ASSUME NEW f \in Forkers, StandDownAnswerer(f) PROVE ShapeOK'
  BY <1>13 DEF StandDownAnswerer, Notify, Goto, Detaches
<1>14. ASSUME NEW f \in Forkers, JoinAnswerer(f) PROVE ShapeOK'
  BY <1>14 DEF JoinAnswerer, Attaches, Goto
<1>15. ASSUME NEW f \in Forkers, OsFork(f) PROVE ShapeOK'
  BY <1>15 DEF OsFork, Goto
<1>16. ASSUME NEW f \in Forkers, ResumeReader(f) PROVE ShapeOK'
  BY <1>16 DEF ResumeReader, Goto
<1>17. ASSUME NEW f \in Forkers, ResumeAnswerer(f) PROVE ShapeOK'
  BY <1>17 DEF ResumeAnswerer, StartAnswering, Detaches, Goto
<1>18. CASE UNCHANGED vars
  BY <1>18 DEF vars
<1>19. QED
  BY <1>1, <1>2, <1>3, <1>4, <1>5, <1>6, <1>7, <1>8, <1>9, <1>10, <1>11, <1>12, <1>13, <1>14, <1>15, <1>16, <1>17, <1>18
  DEF Next, Reads, Answers, GoesOn

-----------------------------------------------------------------------------
LEMMA ReaderStep ==
    ASSUME ShapeOK, ReaderStoodDown, [Next]_vars PROVE ReaderStoodDown'
<1> USE ForkAssumption DEF ShapeOK, ForkerPlaces, engine, readerSide, answerSide, forkSide, ReaderStoodDown
<1>1. CASE Send
  BY <1>1 DEF Send, KeepingReader
<1>2. CASE Close
  BY <1>2 DEF Close, KeepingReader
<1>3. CASE ReaderStandsDown
  BY <1>3 DEF ReaderStandsDown, KeepingReader
<1>4. CASE Read
  BY <1>4 DEF Read, KeepingReader
<1>5. CASE ReadEnd
  BY <1>5 DEF ReadEnd, KeepingReader
<1>6. CASE Route
  BY <1>6 DEF Route, Notify, StartAnswering, KeepingReader
<1>7. ASSUME NEW a \in Answerers, Look(a) PROVE ReaderStoodDown'
  BY <1>7 DEF Look, KeepingReader
<1>8. ASSUME NEW a \in Answerers, Attach(a) PROVE ReaderStoodDown'
  BY <1>8 DEF Attach, Attaches, KeepingReader
<1>9. ASSUME NEW a \in Answerers, Answer(a) PROVE ReaderStoodDown'
  BY <1>9 DEF Answer, Detaches, KeepingReader
<1>10. ASSUME NEW a \in Answerers, Done(a) PROVE ReaderStoodDown'
  BY <1>10 DEF Done, KeepingReader
<1>11. ASSUME NEW f \in Forkers, StandDownReader(f) PROVE ReaderStoodDown'
  <2>1. pc[f] = "python" /\ readerLock = "nobody" /\ UNCHANGED <<reader, idle>>
    BY <1>11 DEF StandDownReader
  <2>2. \/ reading /\ pc' = [pc EXCEPT ![f] = "joinReader"]
        \/ ~reading /\ pc' = [pc EXCEPT ![f] = "answerer"]
    BY <1>11 DEF StandDownReader, Goto
  <2>3. /\ f \notin KeepingReader /\ KeepingReader \in SUBSET Forkers
        /\ KeepingReader' = KeepingReader \cup {f}
    BY <2>1, <2>2 DEF KeepingReader
  <2>4. forkingR' = Cardinality(KeepingReader')
    BY <1>11, <2>3, CountsForkers DEF StandDownReader
  <2>5. CASE reading
    <3>1. /\ ~reading' /\ wakeup' = 1 /\ readerLock' = f
          /\ pc' = [pc EXCEPT ![f] = "joinReader"]
      BY <1>11, <2>5 DEF StandDownReader, Goto
    <3>2. \A g \in Forkers : pc'[g] = "joinReader" <=> g = f
      BY <2>1, <2>5, <3>1
    <3>3. KeepingReader' = {f}
      BY <2>3, <2>5
    <3>4. reader' # "off"
      BY <2>1, <2>5
    <3>5. QED
      BY <2>4, <3>1, <3>2, <3>3, <3>4
  <2>6. CASE ~reading
    <3>1. /\ ~reading' /\ UNCHANGED <<wakeup, readerLock>>
          /\ pc' = [pc EXCEPT ![f] = "answerer"]
      BY <1>11, <2>6 DEF StandDownReader, Goto
    <3>2. \A g \in Forkers : pc'[g] # "joinReader"
      BY <2>1, <3>1
    <3>3. QED
      BY <2>1, <2>3, <2>4, <2>6, <3>1, <3>2
  <2>7. QED
    BY <2>5, <2>6
<1>12. ASSUME NEW f \in Forkers, JoinReader(f) PROVE ReaderStoodDown'
  BY <1>12 DEF JoinReader, Goto, KeepingReader
<1>13. ASSUME NEW f \in Forkers, StandDownAnswerer(f) PROVE ReaderStoodDown'
  <2>1. /\ pc[f] = "answerer"
        /\ pc' = [pc EXCEPT ![f] = "fork"] \/ pc' = [pc EXCEPT ![f] = "joinAnswerer"]
        /\ UNCHANGED <<reader, reading, idle, wakeup, readerLock, forkingR>>
    BY <1>13 DEF StandDownAnswerer, Goto
  <2>2. KeepingReader' = KeepingReader
    BY <2>1 DEF KeepingReader
  <2>3. \A g \in Forkers : pc'[g] = "joinReader" <=> pc[g] = "joinReader"
    BY <2>1
  <2>4. QED
    BY <2>1, <2>2, <2>3
<1>14. ASSUME NEW f \in Forkers, JoinAnswerer(f) PROVE ReaderStoodDown'
  BY <1>14, ZenonT(40) DEF JoinAnswerer, Attaches, Goto, KeepingReader
<1>15. ASSUME NEW f \in Forkers, OsFork(f) PROVE ReaderStoodDown'
  BY <1>15 DEF OsFork, Goto, KeepingReader
<1>16. ASSUME NEW f \in Forkers, ResumeReader(f) PROVE ReaderStoodDown'
  <2>1. /\ pc[f] = "forked" /\ readerLock = "nobody" /\ forkingR' = forkingR - 1
        /\ pc' = [pc EXCEPT ![f] = "resume"]
        /\ UNCHANGED <<wakeup, readerLock>>
    BY <1>16 DEF ResumeReader, Goto
  <2>2. /\ f \in KeepingReader /\ KeepingReader \in SUBSET Forkers
        /\ KeepingReader' = KeepingReader \ {f}
    BY <2>1 DEF KeepingReader
  <2>3. forkingR' = Cardinality(KeepingReader') /\ (forkingR' = 0 <=> KeepingReader' = {})
    <3>1. KeepingReader' \in SUBSET Forkers
      BY <2>2
    <3>2. QED
      BY <2>1, <2>2, <3>1, CountsForkers, ZenonT(40)
  <2>4. \A g \in Forkers : pc[g] # "joinReader" /\ pc'[g] # "joinReader"
    BY <2>1
  <2>5. CASE forkingR' = 0
    <3>1. reader' = "poll" /\ reading' = TRUE /\ idle' = FALSE
      BY <1>16, <2>5 DEF ResumeReader
    <3>2. QED
      BY <2>1, <2>2, <2>3, <2>4, <2>5, <3>1
  <2>6. CASE forkingR' # 0
    <3>1. UNCHANGED <<reader, reading, idle>>
      BY <1>16, <2>6 DEF ResumeReader
    <3>2. QED
      BY <2>1, <2>2, <2>3, <2>4, <2>6, <3>1
  <2>7. QED
    BY <2>5, <2>6
<1>17. ASSUME NEW f \in Forkers, ResumeAnswerer(f) PROVE ReaderStoodDown'
  BY <1>17 DEF ResumeAnswerer, StartAnswering, Detaches, Goto, KeepingReader
<1>18. CASE UNCHANGED vars
  BY <1>18 DEF vars, KeepingReader
<1>19. QED
  BY <1>1, <1>2, <1>3, <1>4, <1>5, <1>6, <1>7, <1>8, <1>9, <1>10, <1>11, <1>12, <1>13, <1>14, <1>15, <1>16, <1>17, <1>18
  DEF Next, Reads, Answers, GoesOn

-----------------------------------------------------------------------------
LEMMA AnswererStep ==
    ASSUME ShapeOK, AnswererStoodDown, [Next]_vars PROVE AnswererStoodDown'
<1> USE ForkAssumption DEF ShapeOK, ForkerPlaces, engine, readerSide, answerSide, forkSide, AnswererStoodDown
<1>1. CASE Send
  BY <1>1 DEF Send, KeepingAnswerer
<1>2. CASE Close
  BY <1>2 DEF Close, KeepingAnswerer
<1>3. CASE ReaderStandsDown
  BY <1>3 DEF ReaderStandsDown, KeepingAnswerer
<1>4. CASE Read
  BY <1>4 DEF Read, KeepingAnswerer
<1>5. CASE ReadEnd
  BY <1>5 DEF ReadEnd, KeepingAnswerer
<1>6. CASE Route
  <2>1. KeepingAnswerer' = KeepingAnswerer /\ UNCHANGED <<forkingA, joining, pc>>
    BY <1>6 DEF Route, KeepingAnswerer
  <2>2. CASE running = "nobody" /\ forkingA = 0
    <3>1. PICK a \in Answerers : /\ answerer[a] = "off" /\ running' = a
                                 /\ answerer' = [answerer EXCEPT ![a] = "look"]
      BY <1>6, <2>2 DEF Route, StartAnswering
    <3>2. KeepingAnswerer = {}
      BY <2>2, CountsForkers DEF KeepingAnswerer
    <3>3. KeepingAnswerer' = {} /\ forkingA' = Cardinality(KeepingAnswerer')
      BY <2>1, <3>2
    <3>4. \A f, g \in Forkers : joining'[f] # "nobody" /\ joining'[g] # "nobody" => f = g
      BY <2>1
    <3>5. ASSUME NEW b \in Answerers, answerer'[b] # "off"
          PROVE  running' = b \/ \E f \in Forkers : joining'[f] = b
      BY <2>1, <2>2, <3>1, <3>5
    <3>6. \A f \in Forkers : joining'[f] # "nobody" <=> pc'[f] = "joinAnswerer"
      BY <2>1
    <3>7. QED
      BY <3>3, <3>4, <3>5, <3>6
  <2>3. CASE ~(running = "nobody" /\ forkingA = 0)
    <3>1. /\ running' = running
          /\ \A a \in Answerers : answerer'[a] = "off" <=> answerer[a] = "off"
      BY <1>6, <2>3 DEF Route, Notify
    <3>2. QED
      BY <2>1, <3>1
  <2>4. QED
    BY <2>2, <2>3
<1>7. ASSUME NEW a \in Answerers, Look(a) PROVE AnswererStoodDown'
  <2>1. KeepingAnswerer' = KeepingAnswerer /\ UNCHANGED <<forkingA, joining, pc, running>>
    BY <1>7 DEF Look, KeepingAnswerer
  <2>2. \A b \in Answerers : answerer'[b] = "off" <=> answerer[b] = "off"
    BY <1>7 DEF Look
  <2>3. QED
    BY <2>1, <2>2
<1>8. ASSUME NEW a \in Answerers, Attach(a) PROVE AnswererStoodDown'
  BY <1>8 DEF Attach, Attaches, KeepingAnswerer
<1>9. ASSUME NEW a \in Answerers, Answer(a) PROVE AnswererStoodDown'
  BY <1>9 DEF Answer, Detaches, KeepingAnswerer
<1>10. ASSUME NEW a \in Answerers, Done(a) PROVE AnswererStoodDown'
  BY <1>10 DEF Done, KeepingAnswerer
<1>11. ASSUME NEW f \in Forkers, StandDownReader(f) PROVE AnswererStoodDown'
  <2>1. /\ pc[f] = "python"
        /\ pc' = [pc EXCEPT ![f] = "joinReader"] \/ pc' = [pc EXCEPT ![f] = "answerer"]
        /\ UNCHANGED <<running, forkingA, answerer, joining>>
    BY <1>11 DEF StandDownReader, Goto
  <2>2. KeepingAnswerer' = KeepingAnswerer
    BY <2>1 DEF KeepingAnswerer
  <2>3. \A g \in Forkers : pc'[g] = "joinAnswerer" <=> pc[g] = "joinAnswerer"
    BY <2>1
  <2>4. QED
    BY <2>1, <2>2, <2>3
<1>12. ASSUME NEW f \in Forkers, JoinReader(f) PROVE AnswererStoodDown'
  <2>1. /\ pc[f] = "joinReader"
        /\ pc' = [pc EXCEPT ![f] = "answerer"]
        /\ UNCHANGED <<running, forkingA, answerer, joining>>
    BY <1>12 DEF JoinReader, Goto
  <2>2. KeepingAnswerer' = KeepingAnswerer
    BY <2>1 DEF KeepingAnswerer
  <2>3. \A g \in Forkers : pc'[g] = "joinAnswerer" <=> pc[g] = "joinAnswerer"
    BY <2>1
  <2>4. QED
    BY <2>1, <2>2, <2>3
<1>13. ASSUME NEW f \in Forkers, StandDownAnswerer(f) PROVE AnswererStoodDown'
  <2>1. /\ pc[f] = "answerer" /\ forkingA' = forkingA + 1
        /\ pc' = [pc EXCEPT ![f] = "fork"] \/ pc' = [pc EXCEPT ![f] = "joinAnswerer"]
    BY <1>13 DEF StandDownAnswerer, Goto
  <2>2. /\ f \notin KeepingAnswerer /\ KeepingAnswerer \in SUBSET Forkers
        /\ KeepingAnswerer' = KeepingAnswerer \cup {f}
    BY <2>1 DEF KeepingAnswerer
  <2>3. forkingA' = Cardinality(KeepingAnswerer')
    <3>1. forkingA = Cardinality(KeepingAnswerer)
      OBVIOUS
    <3> HIDE DEF AnswererStoodDown
    <3>2. QED
      BY <2>1, <2>2, <3>1, CountsForkers
  <2>4. \A a \in Answerers : answerer'[a] = "off" <=> answerer[a] = "off"
    BY <1>13 DEF StandDownAnswerer, Notify
  <2>5. CASE running = "nobody"
    <3>1. UNCHANGED <<running, joining>> /\ pc' = [pc EXCEPT ![f] = "fork"]
      BY <1>13, <2>5 DEF StandDownAnswerer, Goto
    <3>2. \A g \in Forkers : pc'[g] = "joinAnswerer" <=> pc[g] = "joinAnswerer"
      BY <2>1, <3>1
    <3>3. QED
      BY <2>3, <2>4, <2>5, <3>1, <3>2
  <2>6. CASE running # "nobody"
    <3>1. /\ joining' = [joining EXCEPT ![f] = running] /\ running' = "nobody"
          /\ pc' = [pc EXCEPT ![f] = "joinAnswerer"]
      BY <1>13, <2>6 DEF StandDownAnswerer, Goto
    <3>2. \A g \in Forkers : joining[g] = "nobody"
      BY <2>6 DEF KeepingAnswerer
    <3>3. \A g \in Forkers : /\ joining'[g] # "nobody" <=> g = f
                             /\ pc'[g] = "joinAnswerer" <=> g = f
      BY <2>6, <3>1, <3>2
    <3>4. QED
      BY <2>3, <2>4, <3>1, <3>2, <3>3
  <2>7. QED
    BY <2>5, <2>6
<1>14. ASSUME NEW f \in Forkers, JoinAnswerer(f) PROVE AnswererStoodDown'
  <2>1. /\ pc[f] = "joinAnswerer" /\ pc' = [pc EXCEPT ![f] = "fork"]
        /\ joining' = [joining EXCEPT ![f] = "nobody"]
        /\ answerer' = [answerer EXCEPT ![joining[f]] = "off"]
        /\ UNCHANGED <<running, forkingA>>
    BY <1>14 DEF JoinAnswerer, Goto
  <2>2. KeepingAnswerer' = KeepingAnswerer
    BY <2>1 DEF KeepingAnswerer
  <2>3. \A g \in Forkers : /\ joining[g] # "nobody" <=> g = f
                           /\ joining'[g] = "nobody" /\ pc'[g] # "joinAnswerer"
    BY <2>1
  <2>4. ASSUME NEW a \in Answerers, answerer'[a] # "off" PROVE running' = a
    BY <2>1, <2>3, <2>4
  <2>5. QED
    BY <2>1, <2>2, <2>3, <2>4
<1>15. ASSUME NEW f \in Forkers, OsFork(f) PROVE AnswererStoodDown'
  BY <1>15 DEF OsFork, Goto, KeepingAnswerer
<1>16. ASSUME NEW f \in Forkers, ResumeReader(f) PROVE AnswererStoodDown'
  BY <1>16 DEF ResumeReader, Goto, KeepingAnswerer
<1>17. ASSUME NEW f \in Forkers, ResumeAnswerer(f) PROVE AnswererStoodDown'
  <2>1. /\ pc[f] = "resume" /\ forkingA' = forkingA - 1
        /\ pc' = [pc EXCEPT ![f] = "python"] /\ joining' = joining
    BY <1>17 DEF ResumeAnswerer, Goto
  <2>2. /\ f \in KeepingAnswerer /\ KeepingAnswerer \in SUBSET Forkers
        /\ KeepingAnswerer' = KeepingAnswerer \ {f}
    BY <2>1 DEF KeepingAnswerer
  <2>3. forkingA' = Cardinality(KeepingAnswerer') /\ (forkingA' = 0 <=> KeepingAnswerer' = {})
    <3>1. forkingA = Cardinality(KeepingAnswerer)
      OBVIOUS
    <3> HIDE DEF AnswererStoodDown
    <3>2. KeepingAnswerer' \in SUBSET Forkers
      BY <2>2
    <3>3. QED
      BY <2>1, <2>2, <3>1, <3>2, CountsForkers, ZenonT(40)
  <2>4. \A g \in Forkers : pc'[g] = "joinAnswerer" <=> pc[g] = "joinAnswerer"
    BY <2>1
  <2>5. CASE UNCHANGED <<stopping, running, answerer>>
    BY <2>1, <2>2, <2>3, <2>4, <2>5
  <2>6. CASE forkingA' = 0 /\ StartAnswering
    <3>1. PICK a \in Answerers : /\ answerer[a] = "off" /\ running' = a
                                 /\ answerer' = [answerer EXCEPT ![a] = "look"]
      BY <2>6 DEF StartAnswering
    <3>2. running = "nobody" /\ KeepingAnswerer' = {}
      BY <2>2, <2>3, <2>6
    <3>3. \A b \in Answerers : answerer'[b] # "off" =>
              running' = b \/ \E g \in Forkers : joining'[g] = b
      BY <2>1, <3>1, <3>2
    <3>4. QED
      BY <2>1, <2>3, <2>4, <3>2, <3>3
  <2>7. QED
    BY <1>17, <2>5, <2>6 DEF ResumeAnswerer
<1>18. CASE UNCHANGED vars
  BY <1>18 DEF vars, KeepingAnswerer
<1>19. QED
  BY <1>1, <1>2, <1>3, <1>4, <1>5, <1>6, <1>7, <1>8, <1>9, <1>10, <1>11, <1>12, <1>13, <1>14, <1>15, <1>16, <1>17, <1>18
  DEF Next, Reads, Answers, GoesOn

-----------------------------------------------------------------------------
LEMMA InHandsStep ==
    ASSUME ShapeOK, ReaderStoodDown, InHands, [Next]_vars PROVE InHands'
<1> USE ForkAssumption DEF ShapeOK, engine, readerSide, answerSide, forkSide, InHands
<1>1. CASE Send
  BY <1>1 DEF Send
<1>2. CASE Close
  BY <1>2 DEF Close
<1>3. CASE ReaderStandsDown
  BY <1>3 DEF ReaderStandsDown
<1>4. CASE Read
  BY <1>4 DEF Read
<1>5. CASE ReadEnd
  BY <1>5 DEF ReadEnd
<1>6. CASE Route
  BY <1>6 DEF Route, Notify, StartAnswering
<1>7. ASSUME NEW a \in Answerers, Look(a) PROVE InHands'
  BY <1>7 DEF Look
<1>8. ASSUME NEW a \in Answerers, Attach(a) PROVE InHands'
  BY <1>8 DEF Attach, Attaches
<1>9. ASSUME NEW a \in Answerers, Answer(a) PROVE InHands'
  BY <1>9 DEF Answer, Detaches
<1>10. ASSUME NEW a \in Answerers, Done(a) PROVE InHands'
  BY <1>10 DEF Done
<1>11. ASSUME NEW f \in Forkers, StandDownReader(f) PROVE InHands'
  BY <1>11 DEF StandDownReader, Attaches, Goto
<1>12. ASSUME NEW f \in Forkers, JoinReader(f) PROVE InHands'
  BY <1>12 DEF JoinReader, Goto
<1>13. ASSUME NEW f \in Forkers, StandDownAnswerer(f) PROVE InHands'
  BY <1>13 DEF StandDownAnswerer, Notify, Goto, Detaches
<1>14. ASSUME NEW f \in Forkers, JoinAnswerer(f) PROVE InHands'
  BY <1>14 DEF JoinAnswerer, Attaches, Goto
<1>15. ASSUME NEW f \in Forkers, OsFork(f) PROVE InHands'
  BY <1>15 DEF OsFork, Goto
<1>16. ASSUME NEW f \in Forkers, ResumeReader(f) PROVE InHands'
  <2>1. reader = "off" /\ UNCHANGED <<inHand, answerer, taken>>
    BY <1>16 DEF ResumeReader, ReaderStoodDown, KeepingReader
  <2>2. QED
    BY <1>16, <2>1 DEF ResumeReader
<1>17. ASSUME NEW f \in Forkers, ResumeAnswerer(f) PROVE InHands'
  BY <1>17 DEF ResumeAnswerer, StartAnswering, Detaches, Goto
<1>18. CASE UNCHANGED vars
  BY <1>18 DEF vars
<1>19. QED
  BY <1>1, <1>2, <1>3, <1>4, <1>5, <1>6, <1>7, <1>8, <1>9, <1>10, <1>11, <1>12, <1>13, <1>14, <1>15, <1>16, <1>17, <1>18
  DEF Next, Reads, Answers, GoesOn

-----------------------------------------------------------------------------
\* What the steps keep together.
StoodDown == ShapeOK /\ ReaderStoodDown /\ AnswererStoodDown /\ InHands

LEMMA StoodDownAlways == Spec => []StoodDown
<1>1. Init => StoodDown
  <2> SUFFICES ASSUME Init PROVE StoodDown
    OBVIOUS
  <2>1. KeepingReader = {} /\ KeepingAnswerer = {}
    BY DEF Init, KeepingReader, KeepingAnswerer
  <2>2. Cardinality({}) = 0
    BY FS_EmptySet
  <2>3. ReaderStoodDown
    BY <2>1, <2>2, ForkAssumption DEF Init, ReaderStoodDown
  <2>4. AnswererStoodDown
    BY <2>1, <2>2 DEF Init, AnswererStoodDown
  <2>5. ShapeOK /\ InHands
    BY EmptySeq DEF Init, ShapeOK, ForkerPlaces, InHands
  <2>6. QED
    BY <2>3, <2>4, <2>5 DEF StoodDown
<1>2. StoodDown /\ [Next]_vars => StoodDown'
  BY ShapeStep, ReaderStep, AnswererStep, InHandsStep DEF StoodDown
<1>3. QED
  BY <1>1, <1>2, PTL DEF Spec

\* TypeOK for any finite set of forking threads: the wakeup holds one byte at
\* most, and neither count of forks under way goes below zero or above the number
\* of threads (attach::stand_down, unheld::stand_down and what undoes them).
THEOREM TypesHold == Spec => []TypeOK
<1>1. StoodDown => TypeOK
  <2> SUFFICES ASSUME StoodDown PROVE TypeOK
    OBVIOUS
  <2>1. /\ Cardinality(KeepingReader) \in 0..Cardinality(Forkers)
        /\ Cardinality(KeepingAnswerer) \in 0..Cardinality(Forkers)
    BY ForkAssumption, FS_Subset, FS_CardinalityType DEF KeepingReader, KeepingAnswerer
  <2>2. wakeup \in 0..1
    BY DEF StoodDown, ShapeOK, ReaderStoodDown
  <2>3. QED
    BY <2>1, <2>2 DEF StoodDown, ShapeOK, ForkerPlaces, ReaderStoodDown, AnswererStoodDown, TypeOK
<1>2. QED
  BY <1>1, StoodDownAlways, PTL

\* However many threads fork at once, the reader of the control connection is off
\* the process from before each fork until after it, and one thread at a time
\* answers requests (attach::stand_down, attach::resume_reading,
\* unheld::stand_down, unheld::resume_answering).
THEOREM ThreadsKeepOff == Spec => []OwnThreadsKeepOff
<1>1. StoodDown => OwnThreadsKeepOff
  <2> SUFFICES ASSUME StoodDown PROVE ReaderIsOff /\ OneAnswerer
    BY DEF OwnThreadsKeepOff
  <2>1. ReaderIsOff
    BY DEF StoodDown, ShapeOK, ReaderStoodDown, KeepingReader, ReaderIsOff
  <2>2. OneAnswerer
    <3> SUFFICES ASSUME NEW a \in Answerers, NEW b \in Answerers,
                        answerer[a] # "off", answerer[b] # "off"
                 PROVE  a = b
      BY DEF OneAnswerer
    <3> USE ForkAssumption DEF StoodDown, AnswererStoodDown
    <3>1. CASE running = "nobody"
      BY <3>1
    <3>2. CASE running # "nobody"
      <4>1. \A f \in Forkers : joining[f] = "nobody"
        BY <3>2 DEF KeepingAnswerer
      <4>2. QED
        BY <4>1
    <3>3. QED
      BY <3>1, <3>2
  <2>3. QED
    BY <2>1, <2>2
<1>2. QED
  BY <1>1, StoodDownAlways, PTL

\* The two handlers of a fork pair: the one that runs after it finds that it was
\* counted, and the last one finds the reading end the next reader takes, as
\* attach::resume_reading and unheld::resume_answering assert.
THEOREM HandlersAlwaysPair == Spec => []HandlersPair
<1>1. StoodDown => HandlersPair
  <2> SUFFICES ASSUME StoodDown, NEW f \in Forkers
               PROVE  /\ pc[f] = "forked" /\ readerLock = "nobody" =>
                            forkingR > 0 /\ (forkingR = 1 => idle)
                      /\ pc[f] = "resume" => forkingA > 0
    BY DEF HandlersPair
  <2>1. KeepingReader \in SUBSET Forkers /\ KeepingAnswerer \in SUBSET Forkers
    BY DEF KeepingReader, KeepingAnswerer
  <2>2. /\ KeepingReader # {} => forkingR > 0
        /\ KeepingAnswerer # {} => forkingA > 0
    BY <2>1, CountsForkers DEF StoodDown, ReaderStoodDown, AnswererStoodDown
  <2>3. pc[f] = "forked" => KeepingReader # {}
    BY DEF KeepingReader
  <2>4. pc[f] = "resume" => KeepingAnswerer # {}
    BY DEF KeepingAnswerer
  <2>5. pc[f] = "forked" /\ readerLock = "nobody" => idle
    BY <2>3 DEF StoodDown, ReaderStoodDown
  <2>6. QED
    BY <2>2, <2>3, <2>4, <2>5
<1>2. QED
  BY <1>1, StoodDownAlways, PTL

-----------------------------------------------------------------------------
\* The first of what waits goes on without a change of order.
LEMMA HeadMoves ==
    ASSUME NEW p \in Seq(Nat), NEW q \in Seq(Nat), q # <<>>
    PROVE  /\ <<Head(q)>> \in Seq(Nat) /\ Tail(q) \in Seq(Nat)
           /\ p \o q = (p \o <<Head(q)>>) \o Tail(q)
<1>1. Head(q) \in Nat /\ Tail(q) \in Seq(Nat)
  BY HeadTailProperties
<1>2. <<Head(q)>> \in Seq(Nat)
  BY <1>1
<1>3. q = <<Head(q)>> \o Tail(q)
  <2> DEFINE r == <<Head(q)>> \o Tail(q)
  <2>1. /\ r \in Seq(Nat) /\ Len(r) = 1 + Len(Tail(q))
        /\ \A i \in 1..Len(r) : r[i] = IF i <= 1 THEN <<Head(q)>>[i] ELSE Tail(q)[i - 1]
    BY <1>1, <1>2, ConcatProperties
  <2>2. Len(Tail(q)) = Len(q) - 1 /\ Len(q) \in Nat \ {0}
    BY HeadTailProperties, EmptySeq
  <2>3. \A i \in 1..Len(Tail(q)) : Tail(q)[i] = q[i + 1]
    BY HeadTailProperties
  <2>4. Head(q) = q[1]
    OBVIOUS
  <2>5. Len(r) = Len(q)
    BY <2>1, <2>2
  <2>6. ASSUME NEW i \in 1..Len(q) PROVE q[i] = r[i]
    <3>1. CASE i = 1
      BY <2>1, <2>4, <2>5, <3>1
    <3>2. CASE i # 1
      <4>1. i - 1 \in 1..Len(Tail(q)) /\ (i - 1) + 1 = i
        BY <2>2, <3>2
      <4>2. Tail(q)[i - 1] = q[i]
        BY <2>3, <4>1
      <4>3. QED
        BY <2>1, <2>5, <3>2, <4>2
    <3>3. QED
      BY <3>1, <3>2
  <2> HIDE DEF r
  <2>7. q = r
    BY <2>1, <2>5, <2>6, SeqEqual
  <2>8. QED
    BY <2>7 DEF r
<1>4. (p \o <<Head(q)>>) \o Tail(q) = p \o (<<Head(q)>> \o Tail(q))
  BY <1>1, <1>2, ConcatAssociative, SMTT(40)
<1>5. QED
  BY <1>1, <1>2, <1>3, <1>4

\* Neither does it matter which places are looked at together.
LEMMA Regroup ==
    \A p, q, r \in Seq(Nat) : p \o (q \o r) = (p \o q) \o r
<1>1. SUFFICES ASSUME NEW p \in Seq(Nat), NEW q \in Seq(Nat), NEW r \in Seq(Nat)
               PROVE  p \o (q \o r) = (p \o q) \o r
  OBVIOUS
<1>2. (p \o q) \o r = p \o (q \o r)
  BY ConcatAssociative, SMTT(40)
<1>3. QED
  BY <1>2

\* What is in the hands of the threads that answer, from what each has taken.
HeldIn(tk) == IF \E a \in Answerers : tk[a] # <<>>
                THEN tk[CHOOSE a \in Answerers : tk[a] # <<>>] ELSE <<>>

\* With one thread that has something in hand, that is what is in hand.
LEMMA HeldByOne ==
    ASSUME NEW tk, NEW a \in Answerers, \A b \in Answerers : b # a => tk[b] = <<>>
    PROVE  HeldIn(tk) = tk[a]
<1>1. CASE tk[a] = <<>>
  BY <1>1 DEF HeldIn
<1>2. CASE tk[a] # <<>>
  <2>1. \A b \in Answerers : tk[b] # <<>> <=> b = a
    BY <1>2
  <2>2. (CHOOSE b \in Answerers : tk[b] # <<>>) = a
    BY <2>1
  <2>3. QED
    BY <1>2, <2>2 DEF HeldIn
<1>3. QED
  BY <1>1, <1>2

\* Everything sent and not lost, in the order in which it is answered.
Flow(an, held, q, hand, s) == (((an \o held) \o q) \o hand) \o s

\* The requests move on one place at a time, and none is lost, repeated or
\* overtaken by the way.
LEMMA FlowStep ==
    ASSUME StoodDown, OneAnswerer, [Next]_vars,
           NEW held \in Seq(Nat), held = HeldIn(taken),
           Flow(answered, held, queue, inHand, socket) = [i \in 1..sent |-> i]
    PROVE  Flow(answered', HeldIn(taken)', queue', inHand', socket') = [i \in 1..sent' |-> i]
<1>a. /\ sent \in Nat /\ socket \in Seq(Nat) /\ inHand \in Seq(Nat)
      /\ queue \in Seq(Nat) /\ answered \in Seq(Nat)
      /\ taken \in [Answerers -> Seq(Nat)]
  BY DEF StoodDown, ShapeOK
<1> USE <1>a
<1> DEFINE Kept == Flow(answered', HeldIn(taken)', queue', inHand', socket') = [i \in 1..sent' |-> i]
<1>0. ASSUME UNCHANGED <<answered, taken, queue, inHand, socket, sent>> PROVE Kept
  BY <1>0 DEF HeldIn
<1>1. CASE Send
  <2>1. /\ sent' = sent + 1 /\ socket' = Append(socket, sent + 1)
        /\ UNCHANGED <<answered, taken, queue, inHand>>
    BY <1>1 DEF Send, readerSide, answerSide
  <2>2. HeldIn(taken)' = held
    BY <2>1 DEF HeldIn
  <2> DEFINE before == ((answered \o held) \o queue) \o inHand
  <2>3. before \in Seq(Nat)
    BY ConcatProperties
  <2>4. socket' = socket \o <<sent + 1>> /\ <<sent + 1>> \in Seq(Nat)
    <3>1. sent + 1 \in Nat
      OBVIOUS
    <3>2. Append(socket, sent + 1) = socket \o <<sent + 1>>
      BY <3>1, AppendIsConcat
    <3>3. <<sent + 1>> \in Seq(Nat)
      BY <3>1
    <3>4. QED
      BY <2>1, <3>2, <3>3
  <2>5. before \o socket' = (before \o socket) \o <<sent + 1>>
    <3> HIDE DEF before
    <3>1. <<sent + 1>> \in Seq(Nat)
      BY <2>4
    <3>2. before \o (socket \o <<sent + 1>>) = (before \o socket) \o <<sent + 1>>
      BY <2>3, <3>1, Regroup, SMTT(40)
    <3>3. QED
      BY <2>4, <3>2
  <2>6. before \o socket = [i \in 1..sent |-> i]
    BY DEF Flow
  <2>7. [i \in 1..sent |-> i] \o <<sent + 1>> = [i \in 1..(sent + 1) |-> i]
    OBVIOUS
  <2>8. before \o socket' = [i \in 1..(sent + 1) |-> i]
    BY <2>5, <2>6, <2>7
  <2>9. QED
    BY <2>1, <2>2, <2>8 DEF Flow
<1>2. CASE Read
  <2>1. /\ inHand = <<>> /\ socket # <<>>
        /\ inHand' = <<Head(socket)>> /\ socket' = Tail(socket)
        /\ UNCHANGED <<answered, taken, queue, sent>>
    BY <1>2 DEF Read, StoodDown, InHands, answerSide
  <2>2. HeldIn(taken)' = held
    BY <2>1 DEF HeldIn
  <2> DEFINE before == (answered \o held) \o queue
  <2>3. before \in Seq(Nat)
    BY ConcatProperties
  <2>4. (before \o inHand') \o socket' = (before \o inHand) \o socket
    <3> HIDE DEF before
    <3>1. before \o inHand = before
      BY <2>1, <2>3, ConcatEmptySeq
    <3>2. QED
      BY <2>1, <2>3, <3>1, HeadMoves
  <2>5. QED
    BY <2>1, <2>2, <2>4 DEF Flow
<1>3. CASE Route
  <2>1. /\ Len(inHand) = 1 /\ queue' = Append(queue, inHand[1]) /\ inHand' = <<>>
        /\ UNCHANGED <<answered, taken, socket, sent>>
    BY <1>3 DEF Route, StoodDown, InHands, engine
  <2>2. HeldIn(taken)' = held
    BY <2>1 DEF HeldIn
  <2>3. inHand[1] \in Nat /\ inHand = <<inHand[1]>>
    <3>1. 1 \in 1..Len(inHand)
      BY <2>1
    <3>2. inHand[1] \in Nat
      BY <3>1, ElementOfSeq
    <3>3. <<inHand[1]>> \in Seq(Nat) /\ Len(<<inHand[1]>>) = 1
      BY <3>2
    <3>4. \A i \in 1..1 : inHand[i] = <<inHand[1]>>[i]
      OBVIOUS
    <3>5. QED
      BY <2>1, <3>2, <3>3, <3>4, SeqEqual
  <2> DEFINE before == answered \o held
  <2>4. before \in Seq(Nat)
    BY ConcatProperties
  <2>5. queue' = queue \o inHand
    <3>1. Append(queue, inHand[1]) = queue \o <<inHand[1]>>
      BY <2>3, AppendIsConcat
    <3>2. QED
      BY <2>1, <2>3, <3>1
  <2>6. (before \o queue') \o inHand' = (before \o queue) \o inHand
    <3> HIDE DEF before
    <3>1. (before \o queue) \o inHand = before \o (queue \o inHand)
      <4>1. queue \in Seq(Nat) /\ inHand \in Seq(Nat)
        OBVIOUS
      <4>2. QED
        BY ONLY <2>4, <4>1, Regroup, ZenonT(40)
    <3>2. (before \o queue) \o inHand \in Seq(Nat)
      BY <2>4, ConcatProperties
    <3>3. QED
      BY <2>1, <2>5, <3>1, <3>2, ConcatEmptySeq
  <2>7. QED
    BY <2>1, <2>2, <2>6 DEF Flow
<1>4. ASSUME NEW a \in Answerers, Look(a) PROVE Kept
  <2>1. CASE UNCHANGED <<queue, taken>>
    BY <1>0, <1>4, <2>1 DEF Look, engine, readerSide
  <2>2. CASE ~UNCHANGED <<queue, taken>>
    <3>1. /\ answerer[a] = "look" /\ queue # <<>>
          /\ taken' = [taken EXCEPT ![a] = <<Head(queue)>>] /\ queue' = Tail(queue)
          /\ UNCHANGED <<answered, inHand, socket, sent>>
      BY <1>4, <2>2 DEF Look, engine, readerSide
    <3>2. \A b \in Answerers : taken[b] = <<>>
      BY <3>1 DEF OneAnswerer, StoodDown, InHands
    <3>3. held = <<>>
      BY <3>2 DEF HeldIn
    <3>4. \A b \in Answerers : b # a => taken'[b] = <<>>
      BY <3>1, <3>2
    <3>5. HeldIn(taken') = <<Head(queue)>>
      BY <3>1, <3>4, HeldByOne
    <3>6. HeldIn(taken)' = <<Head(queue)>>
      BY <3>5 DEF HeldIn
    <3>7. answered \o held = answered
      BY <3>3, ConcatEmptySeq
    <3>8. answered \o queue = (answered \o <<Head(queue)>>) \o Tail(queue)
      BY <3>1, HeadMoves
    <3>9. (answered \o HeldIn(taken)') \o queue' = (answered \o held) \o queue
      BY <3>1, <3>6, <3>7, <3>8
    <3>10. QED
      BY <3>1, <3>9 DEF Flow
  <2>3. QED
    BY <2>1, <2>2
<1>5. ASSUME NEW a \in Answerers, Answer(a) PROVE Kept
  <2>1. /\ answerer[a] = "attached" /\ answered' = answered \o taken[a]
        /\ taken' = [taken EXCEPT ![a] = <<>>]
        /\ UNCHANGED <<queue, inHand, socket, sent>>
    BY <1>5 DEF Answer, engine, readerSide
  <2>2. \A b \in Answerers : b # a => taken[b] = <<>>
    BY <2>1 DEF OneAnswerer, StoodDown, InHands
  <2>3. held = taken[a]
    BY <2>2, HeldByOne
  <2>4. \A b \in Answerers : taken'[b] = <<>>
    BY <2>1, <2>2
  <2>5. HeldIn(taken)' = <<>>
    BY <2>4 DEF HeldIn
  <2>6. answered \o held \in Seq(Nat)
    BY ConcatProperties
  <2>7. answered' \o HeldIn(taken)' = answered \o held
    BY <2>1, <2>3, <2>5, <2>6, ConcatEmptySeq
  <2>8. QED
    BY <2>1, <2>7 DEF Flow
<1>6. CASE \/ Close \/ ReaderStandsDown \/ ReadEnd
           \/ \E a \in Answerers : Attach(a) \/ Done(a)
           \/ \E f \in Forkers : StandDownReader(f) \/ GoesOn(f)
           \/ UNCHANGED vars
  <2>1. UNCHANGED <<answered, taken, queue, inHand, socket, sent>>
    BY <1>6 DEF Close, ReaderStandsDown, ReadEnd, Attach, Done, StandDownReader, GoesOn,
       JoinReader, StandDownAnswerer, JoinAnswerer, OsFork, ResumeReader, ResumeAnswerer,
       engine, readerSide, answerSide, vars
  <2>2. QED
    BY <1>0, <2>1
<1>7. QED
  BY <1>1, <1>2, <1>3, <1>4, <1>5, <1>6 DEF Next, Reads, Answers

\* A request sent while threads fork is answered once and in its turn or still on
\* its way, whatever forks overlap (attach::read_requests, unheld::answer,
\* unheld::answer_requests).
THEOREM NoRequestIsLost == Spec => []RequestsKept
<1> DEFINE InPlace == Flow(answered, HeldIn(taken), queue, inHand, socket) = [i \in 1..sent |-> i]
<1>1. Init => InPlace
  <2> SUFFICES ASSUME Init PROVE InPlace
    OBVIOUS
  <2>1. /\ answered = <<>> /\ queue = <<>> /\ inHand = <<>> /\ socket = <<>> /\ sent = 0
        /\ HeldIn(taken) = <<>>
    BY DEF Init, HeldIn
  <2>2. <<>> \o <<>> = <<>>
    OBVIOUS
  <2>3. [i \in 1..0 |-> i] = <<>>
    OBVIOUS
  <2>4. QED
    BY <2>1, <2>2, <2>3 DEF Flow
<1>2. StoodDown /\ OneAnswerer /\ InPlace /\ [Next]_vars => InPlace'
  <2> SUFFICES ASSUME StoodDown, OneAnswerer, InPlace, [Next]_vars PROVE InPlace'
    OBVIOUS
  <2>1. HeldIn(taken) \in Seq(Nat)
    <3>1. \A a \in Answerers : taken[a] \in Seq(Nat)
      BY DEF StoodDown, ShapeOK
    <3>2. <<>> \in Seq(Nat)
      BY EmptySeq
    <3>3. QED
      BY <3>1, <3>2 DEF HeldIn
  <2>2. QED
    BY <2>1, FlowStep
<1>3. InPlace => RequestsKept
  BY DEF Flow, HeldIn, InAnswer, RequestsKept
<1>4. OwnThreadsKeepOff => OneAnswerer
  BY DEF OwnThreadsKeepOff
<1>5. QED
  BY <1>1, <1>2, <1>3, <1>4, StoodDownAlways, ThreadsKeepOff, PTL DEF Spec

-----------------------------------------------------------------------------
(***************************************************************************)
(* Child: two processes never write on one connection, a process that runs *)
(* its program is a session of its own or as it would be without bpd, and  *)
(* a child waits for no thread that the fork did not keep.  The reader's   *)
(* thread of a child is taken to start.                                    *)
(***************************************************************************)

Places == {"no", "python", "entering", "telling", "sending", "held", "parked", "hold", "forked",
           "connect", "shaking", "disarm", "entered", "greeting", "arm"}

\* The types.
Shape ==
    /\ place \in [Processes -> [Threads -> Places]]
    /\ handlers \in [Processes -> BOOLEAN] /\ armed \in [Processes -> BOOLEAN]
    /\ detached \in [Processes -> BOOLEAN] /\ listens \in [Processes -> BOOLEAN]
    /\ debugs \in [Processes -> BOOLEAN]
    /\ descs \in [Processes -> SUBSET Processes]
    /\ listed \in [Processes -> Processes \cup {None}]
    /\ writer \in [Processes -> Processes \cup {None}]
    /\ registry \in [Processes -> SUBSET Threads] /\ world \in [Processes -> SUBSET Threads]
    /\ lock \in [Processes -> [Cells -> Threads \cup {None}]]
    /\ wrote \in [Processes -> SUBSET Processes]
    /\ joined \subseteq Processes /\ ended \subseteq Processes

-----------------------------------------------------------------------------
(***************************************************************************)
(* What a process is while a thread of it is somewhere.                    *)
(***************************************************************************)

\* No stop is under way.
Quiet(p) == registry[p] = {} /\ lock[p] = Unlocked

\* A session, and each lock is held by a thread that is where it takes it.
Sane(p) ==
    /\ Whole(p)
    /\ lock[p]["registry"] # None => place[p][lock[p]["registry"]] = "entering"
    /\ lock[p]["writer"] # None => place[p][lock[p]["writer"]] = "sending"

\* Nothing of a session is left; what it would do at a fork it has done.
Plain(p) == Bare(p) /\ Quiet(p) /\ (handlers[p] => detached[p])

\* The copy of a session, or of a process that had given its own up.
Inherits(p) ==
    /\ handlers[p] /\ ~listens[p]
    /\ IF detached[p] THEN Plain(p) ELSE armed[p] /\ descs[p] = {listed[p]}

\* What was inherited is given up.
Given(p) == handlers[p] /\ armed[p] /\ ~listens[p] /\ Quiet(p)

\* An interpreter that was started has nothing yet.
Fresh(p) == ~handlers[p] /\ ~armed[p] /\ ~listens[p] /\ ~detached[p] /\ Quiet(p)

\* The memory goes with the place of the thread.
Fits(p, t) ==
    /\ place[p][t] \in {"entering", "telling", "sending", "held", "parked", "hold"} => Sane(p)
    /\ place[p][t] = "python" => Sane(p) \/ Plain(p)
    /\ place[p][t] = "forked" => Inherits(p)
    /\ place[p][t] = "connect" => Given(p) /\ detached[p] /\ descs[p] = {}
    /\ place[p][t] = "shaking" => Given(p) /\ ~detached[p] /\ descs[p] = {p}
    /\ place[p][t] = "disarm" => Given(p) /\ detached[p] /\ descs[p] = {}
    /\ place[p][t] = "entered" => Fresh(p) /\ descs[p] = {}
    /\ place[p][t] = "greeting" => Fresh(p) /\ descs[p] = {p}
    /\ place[p][t] = "arm" =>
          /\ ~detached[p] /\ listens[p] /\ writer[p] = p /\ listed[p] = p
          /\ descs[p] = {p} /\ p \in joined /\ Quiet(p)

\* A child has one thread, and the process bpd launched runs no handler.
Alone(p) ==
    /\ p \in Kids => \A t, u \in Threads : place[p][t] # "no" /\ place[p][u] # "no" => t = u
    /\ p = Root => \A t \in Threads : place[p][t] \in
                      {"no", "python", "entering", "telling", "sending", "held", "parked"}

\* Of a process that has gone nothing is left.
Leaves(p) == ~Exists(p) => Fresh(p) /\ descs[p] = {}

Good(p) == (\A t \in Threads : Fits(p, t)) /\ Alone(p) /\ Leaves(p)

\* A step leaves the memory and the threads of a process alone.
Spares(p) ==
    /\ place'[p] = place[p]
    /\ handlers'[p] = handlers[p] /\ armed'[p] = armed[p] /\ detached'[p] = detached[p]
    /\ descs'[p] = descs[p] /\ listed'[p] = listed[p] /\ writer'[p] = writer[p]
    /\ listens'[p] = listens[p] /\ registry'[p] = registry[p] /\ lock'[p] = lock[p]
    /\ joined \subseteq joined'

AllGood == \A p \in Processes : Good(p)

-----------------------------------------------------------------------------
\* A process that a step leaves alone stays what it is.
LEMMA GoodStays ==
    ASSUME NEW p \in Processes, Good(p), Spares(p) PROVE Good(p)'
<1>1. Sane(p) => Sane(p)'
  BY DEF Sane, Whole, Spares
<1>2. (Plain(p) => Plain(p)') /\ (Inherits(p) => Inherits(p)') /\ (Given(p) => Given(p)')
      /\ (Fresh(p) => Fresh(p)') /\ (Quiet(p) => Quiet(p)')
  BY DEF Plain, Bare, Inherits, Given, Fresh, Quiet, Unlocked, Spares
<1>3. Alone(p)' /\ Exists(p)' = Exists(p)
  BY DEF Good, Alone, Exists, Spares
<1>4. ASSUME NEW t \in Threads PROVE Fits(p, t)'
  BY <1>1, <1>2 DEF Good, Fits, Spares
<1>5. QED
  BY <1>2, <1>3, <1>4 DEF Good, Leaves, Spares

\* The threads that share a process with one that is at work.
LEMMA AloneStays ==
    ASSUME Shape, NEW p \in Processes, NEW t \in Threads, NEW x \in Places, Alone(p),
           place[p][t] # "no", place'[p] = [place[p] EXCEPT ![t] = x],
           p = Root => x \in {"no", "python", "entering", "telling", "sending", "held", "parked"}
    PROVE  Alone(p)'
  BY DEF Alone, Shape

\* A process that stays a session, or becomes one, while a thread of it is there.
LEMMA SaneIsGood ==
    ASSUME Shape', NEW p \in Processes, NEW t \in Threads, Alone(p)', Sane(p)',
           place'[p][t] \in {"python", "entering", "telling", "sending", "held", "parked", "hold"}
    PROVE  Good(p)'
<1>1. Exists(p)'
  BY DEF Exists
<1>2. ASSUME NEW u \in Threads PROVE Fits(p, u)'
  <2>1. place'[p][u] \in {"no", "python", "entering", "telling", "sending", "held", "parked", "hold"}
    BY DEF Alone, Processes
  <2>2. QED
    BY <2>1 DEF Fits
<1>3. QED
  BY <1>1, <1>2 DEF Good, Leaves

\* A child is what its one thread makes of it.
LEMMA KidIsGood ==
    ASSUME NEW q \in Kids, NEW t \in Threads, Root \notin Kids, Fits(q, t)', place'[q][t] # "no",
           \A u \in Threads : u # t => place'[q][u] = "no"
    PROVE  Good(q)'
<1>1. Exists(q)' /\ Alone(q)'
  BY DEF Exists, Alone
<1>2. ASSUME NEW u \in Threads PROVE Fits(q, u)'
  BY DEF Fits
<1>3. QED
  BY <1>1, <1>2 DEF Good, Leaves

\* Only a child is in its handler, and there it is alone.
LEMMA HandlerIsAlone ==
    ASSUME NEW q \in Processes, NEW t \in Threads, Alone(q),
           place[q][t] \in {"hold", "forked", "connect", "shaking", "disarm", "entered", "greeting", "arm"}
    PROVE  q \in Kids /\ \A u \in Threads : u # t => place[q][u] = "no"
  BY DEF Alone, Processes

\* A thread goes on to somewhere a thread can be.
LEMMA GotoIsTyped ==
    ASSUME Shape, NEW p \in Processes, NEW t \in Threads, NEW x \in Places, GoesTo(p, t, x)
    PROVE  place' \in [Processes -> [Threads -> Places]]
  BY DEF Shape, GoesTo

\* A lock that is taken is taken by a thread.
LEMMA LockIsTyped ==
    ASSUME Shape, NEW p \in Processes, NEW t \in Threads, NEW c \in Cells, Locks(p, c, t)
    PROVE  lock' \in [Processes -> [Cells -> Threads \cup {None}]]
  BY DEF Shape, Locks

-----------------------------------------------------------------------------
\* The types are kept.
LEMMA ShapeIsKept ==
    ASSUME Shape, AllGood, [ChildNext]_childVars PROVE Shape'
<1> USE ChildAssumption DEF Shape, Processes, Cells
<1>1. ASSUME NEW p \in Processes, NEW t \in Threads, Enter(p, t) PROVE Shape'
  BY <1>1 DEF Enter, GoesTo, Locks, memory, sessions, Places
<1>2. ASSUME NEW p \in Processes, NEW t \in Threads, Register(p, t) PROVE Shape'
  BY <1>2 DEF Register, GoesTo, Unlocks, memory, sessions, Places
<1>3. ASSUME NEW p \in Processes, NEW t \in Threads, Report(p, t) PROVE Shape'
  <2>1. place' \in [Processes -> [Threads -> Places]]
    <3>1. \E x \in Places : GoesTo(p, t, x)
      BY <1>3 DEF Report, Places
    <3>2. QED
      BY <3>1, GotoIsTyped
  <2>2. lock' \in [Processes -> [Cells -> Threads \cup {None}]]
    <3>1. CASE Locks(p, "writer", t)
      BY <3>1, LockIsTyped DEF Cells
    <3>2. CASE UNCHANGED lock
      BY <3>2
    <3>3. QED
      BY <1>3, <3>1, <3>2 DEF Report
  <2>3. UNCHANGED <<handlers, armed, detached, listed, writer, registry, debugs, world,
                   descs, listens, wrote, joined, ended>>
    BY <1>3 DEF Report, sessions
  <2>4. QED
    BY <2>1, <2>2, <2>3
<1>4. ASSUME NEW p \in Processes, NEW t \in Threads, Sent(p, t) PROVE Shape'
  BY <1>4 DEF Sent, GoesTo, Unlocks, memory, sessions, Places
<1>5. ASSUME NEW p \in Processes, NEW t \in Threads, Resume(p, t) PROVE Shape'
  BY <1>5 DEF Resume, GoesTo, memory, sessions, Places
<1>6. ASSUME NEW p \in Processes, NEW t \in Threads, StopTheWorld(p, t) PROVE Shape'
  BY <1>6 DEF StopTheWorld, GoesTo, memory, sessions, Places
<1>7. ASSUME NEW p \in Processes, NEW t \in Threads, Park(p, t) PROVE Shape'
  BY <1>7 DEF Park, GoesTo, memory, sessions, Places
<1>8. ASSUME NEW p \in Processes, NEW t \in Threads, Unpark(p, t) PROVE Shape'
  BY <1>8 DEF Unpark, GoesTo, memory, sessions, Places
<1>9. ASSUME NEW q \in Processes, NEW t \in Threads, Detach(q, t) PROVE Shape'
  <2>1. place' \in [Processes -> [Threads -> Places]]
    <3>1. \E x \in Places : GoesTo(q, t, x)
      BY <1>9 DEF Detach, Places
    <3>2. QED
      BY <3>1, GotoIsTyped
  <2>2. lock' \in [Processes -> [Cells -> Threads \cup {None}]]
    BY <1>9 DEF Detach, Unlocked
  <2>3. detached' \in [Processes -> BOOLEAN]
    BY <1>9 DEF Detach
  <2>4. descs' \in [Processes -> SUBSET Processes]
    BY <1>9 DEF Detach
  <2>5. /\ listed' \in [Processes -> Processes \cup {None}] /\ writer' \in [Processes -> Processes \cup {None}]
        /\ registry' \in [Processes -> SUBSET Threads]
    BY <1>9 DEF Detach
  <2>6. UNCHANGED <<handlers, armed, debugs, world, listens, wrote, joined, ended>>
    BY <1>9 DEF Detach, sessions
  <2>7. QED
    BY <2>1, <2>2, <2>3, <2>4, <2>5, <2>6
<1>10. ASSUME NEW q \in Processes, NEW t \in Threads, Connect(q, t) PROVE Shape'
  <2>1. place' \in [Processes -> [Threads -> Places]]
    <3>1. \E x \in Places : GoesTo(q, t, x)
      BY <1>10 DEF Connect, Places
    <3>2. QED
      BY <3>1, GotoIsTyped
  <2>2. detached' \in [Processes -> BOOLEAN]
    BY <1>10 DEF Connect
  <2>3. descs' \in [Processes -> SUBSET Processes]
    <3>1. CASE descs' = [descs EXCEPT ![q] = @ \cup {q}]
      BY <3>1
    <3>2. CASE UNCHANGED descs
      BY <3>2
    <3>3. QED
      BY <1>10, <3>1, <3>2 DEF Connect
  <2>4. UNCHANGED <<handlers, armed, listed, writer, registry, lock, debugs, world,
                   listens, wrote, joined, ended>>
    BY <1>10 DEF Connect, sessions
  <2>5. QED
    BY <2>1, <2>2, <2>3, <2>4
<1>11. ASSUME NEW q \in Processes, NEW t \in Threads, Shake(q, t) PROVE Shape'
  <2>1. place' \in [Processes -> [Threads -> Places]]
    <3>1. \E x \in Places : GoesTo(q, t, x)
      BY <1>11 DEF Shake, Places
    <3>2. QED
      BY <3>1, GotoIsTyped
  <2>2. /\ detached' \in [Processes -> BOOLEAN] /\ listens' \in [Processes -> BOOLEAN]
        /\ joined' \subseteq Processes
    BY <1>11 DEF Shake
  <2>3. listed' \in [Processes -> Processes \cup {None}] /\ writer' \in [Processes -> Processes \cup {None}]
    BY <1>11 DEF Shake
  <2>4. UNCHANGED <<handlers, armed, registry, lock, debugs, world, descs, wrote, ended>>
    BY <1>11 DEF Shake
  <2>5. QED
    BY <2>1, <2>2, <2>3, <2>4
<1>12. ASSUME NEW q \in Processes, NEW t \in Threads, ShakeFails(q, t) PROVE Shape'
  BY <1>12 DEF ShakeFails, GoesTo, memory, sessions, Places
<1>13. ASSUME NEW q \in Processes, NEW t \in Threads, Disarm(q, t) PROVE Shape'
  BY <1>13 DEF Disarm, GoesTo, memory, sessions, Places
<1>14. ASSUME NEW q \in Processes, NEW t \in Threads, Arm(q, t) PROVE Shape'
  BY <1>14 DEF Arm, GoesTo, memory, sessions, Places
<1>15. ASSUME NEW p \in Processes, NEW t \in Threads, NEW q \in Kids, MakeCopy(p, t, q) PROVE Shape'
  BY <1>15 DEF MakeCopy, Makes, memory, sessions, Places, Unlocked
<1>16. ASSUME NEW p \in Processes, NEW t \in Threads, NEW q \in Kids, Exec(p, t, q) PROVE Shape'
  BY <1>16 DEF Exec, Makes, memory, sessions, Places, Unlocked
<1>17. ASSUME NEW p \in Processes, DebugChildren(p) PROVE Shape'
  BY <1>17 DEF DebugChildren, Makes, memory, sessions, Places, Unlocked
<1>18. ASSUME NEW p \in Processes, Die(p) PROVE Shape'
  BY <1>18 DEF Die, Makes, memory, sessions, Places, Unlocked
<1>19. ASSUME NEW p \in Processes, EndIsRead(p) PROVE Shape'
  BY <1>19 DEF EndIsRead, Makes, memory, sessions, Places, Unlocked
<1>20. CASE UNCHANGED childVars
  BY <1>20 DEF childVars, memory, sessions
<1>21. QED
  BY <1>1, <1>2, <1>3, <1>4, <1>5, <1>6, <1>7, <1>8, <1>9, <1>10, <1>11, <1>12, <1>13, <1>14, <1>15, <1>16, <1>17, <1>18, <1>19, <1>20
  DEF ChildNext, Stops, Handles, Asked, Parks, Begins

-----------------------------------------------------------------------------
\* Every process goes from one thing it may be to another.
LEMMA GoodStep ==
    ASSUME ~SpawnFails, Shape, Shape', AllGood, [ChildNext]_childVars PROVE AllGood'
<1>0. /\ \A r \in Processes : Good(r)
      /\ Root \in Processes /\ Kids \subseteq Processes /\ Root \notin Kids
      /\ None \notin Processes /\ None \notin Threads
  BY ChildAssumption DEF AllGood, Processes
<1>00. (\A r \in Processes : Good(r)') => AllGood'
  BY DEF AllGood
<1>1. ASSUME NEW p \in Processes, NEW t \in Threads, Enter(p, t) PROVE AllGood'
  <2>1. ASSUME NEW r \in Processes, r # p PROVE Good(r)'
    <3>1. Spares(r)
      BY <1>1, <2>1 DEF Enter, GoesTo, Locks, memory, sessions, Shape, Spares
    <3>2. QED
      BY <1>0, <3>1, GoodStays
  <2>2. Sane(p) /\ Alone(p)
    BY <1>1, <1>0 DEF Enter, Good, Fits, Plain, Bare
  <2>3. /\ place[p][t] # "no" /\ place'[p] = [place[p] EXCEPT ![t] = "entering"]
    BY <1>1 DEF Enter, GoesTo, Shape
  <2>4. Alone(p)'
    BY <2>2, <2>3, AloneStays DEF Places
  <2>5. Sane(p)'
    BY <1>1, <1>0, <2>2, <2>3 DEF Enter, Locks, Sane, Whole, Shape, Cells, memory, sessions
  <2>6. Good(p)'
    BY <2>3, <2>4, <2>5, SaneIsGood DEF Shape
  <2>7. QED
    BY <1>00, <2>1, <2>6
<1>2. ASSUME NEW p \in Processes, NEW t \in Threads, Register(p, t) PROVE AllGood'
  <2>1. ASSUME NEW r \in Processes, r # p PROVE Good(r)'
    <3>1. Spares(r)
      BY <1>2, <2>1 DEF Register, GoesTo, Unlocks, memory, sessions, Shape, Spares
    <3>2. QED
      BY <1>0, <3>1, GoodStays
  <2>2. Sane(p) /\ Alone(p)
    BY <1>2, <1>0 DEF Register, Good, Fits, Plain, Bare
  <2>3. /\ place[p][t] # "no" /\ place'[p] = [place[p] EXCEPT ![t] = "telling"]
    BY <1>2 DEF Register, GoesTo, Shape
  <2>4. Alone(p)'
    BY <2>2, <2>3, AloneStays DEF Places
  <2>5. Sane(p)'
    BY <1>2, <1>0, <2>2, <2>3 DEF Register, Unlocks, Sane, Whole, Shape, Cells, memory, sessions
  <2>6. Good(p)'
    BY <2>3, <2>4, <2>5, SaneIsGood DEF Shape
  <2>7. QED
    BY <1>00, <2>1, <2>6
<1>3. ASSUME NEW p \in Processes, NEW t \in Threads, Report(p, t) PROVE AllGood'
  <2>1. ASSUME NEW r \in Processes, r # p PROVE Good(r)'
    <3>1. Spares(r)
      BY <1>3, <2>1 DEF Report, GoesTo, Locks, memory, sessions, Shape, Spares
    <3>2. QED
      BY <1>0, <3>1, GoodStays
  <2>2. Sane(p) /\ Alone(p)
    BY <1>3, <1>0 DEF Report, Good, Fits
  <2>3. /\ place[p][t] = "telling" /\ place'[p] = [place[p] EXCEPT ![t] = "sending"]
    BY <1>3, <2>2 DEF Report, GoesTo, Shape, Sane, Whole
  <2>4. Alone(p)'
    BY <2>2, <2>3, AloneStays DEF Places
  <2>5. Sane(p)'
    BY <1>3, <1>0, <2>2, <2>3 DEF Report, Locks, Sane, Whole, Shape, Cells, memory, sessions
  <2>6. Good(p)'
    BY <2>3, <2>4, <2>5, SaneIsGood DEF Shape
  <2>7. QED
    BY <1>00, <2>1, <2>6
<1>4. ASSUME NEW p \in Processes, NEW t \in Threads, Sent(p, t) PROVE AllGood'
  <2>1. ASSUME NEW r \in Processes, r # p PROVE Good(r)'
    <3>1. Spares(r)
      BY <1>4, <2>1 DEF Sent, GoesTo, Unlocks, memory, sessions, Shape, Spares
    <3>2. QED
      BY <1>0, <3>1, GoodStays
  <2>2. Sane(p) /\ Alone(p)
    BY <1>4, <1>0 DEF Sent, Good, Fits, Plain, Bare
  <2>3. /\ place[p][t] # "no" /\ place'[p] = [place[p] EXCEPT ![t] = "held"]
    BY <1>4 DEF Sent, GoesTo, Shape
  <2>4. Alone(p)'
    BY <2>2, <2>3, AloneStays DEF Places
  <2>5. Sane(p)'
    BY <1>4, <1>0, <2>2, <2>3 DEF Sent, Unlocks, Sane, Whole, Shape, Cells, memory, sessions
  <2>6. Good(p)'
    BY <2>3, <2>4, <2>5, SaneIsGood DEF Shape
  <2>7. QED
    BY <1>00, <2>1, <2>6
<1>5. ASSUME NEW p \in Processes, NEW t \in Threads, Resume(p, t) PROVE AllGood'
  <2>1. ASSUME NEW r \in Processes, r # p PROVE Good(r)'
    <3>1. Spares(r)
      BY <1>5, <2>1 DEF Resume, GoesTo, memory, sessions, Shape, Spares
    <3>2. QED
      BY <1>0, <3>1, GoodStays
  <2>2. Sane(p) /\ Alone(p)
    BY <1>5, <1>0 DEF Resume, Good, Fits, Plain, Bare
  <2>3. /\ place[p][t] # "no" /\ place'[p] = [place[p] EXCEPT ![t] = "python"]
    BY <1>5 DEF Resume, GoesTo, Shape
  <2>4. Alone(p)'
    BY <2>2, <2>3, AloneStays DEF Places
  <2>5. Sane(p)'
    BY <1>5, <1>0, <2>2, <2>3 DEF Resume, Sane, Whole, Shape, Cells, memory, sessions
  <2>6. Good(p)'
    BY <2>3, <2>4, <2>5, SaneIsGood DEF Shape
  <2>7. QED
    BY <1>00, <2>1, <2>6
<1>6. ASSUME NEW p \in Processes, NEW t \in Threads, StopTheWorld(p, t) PROVE AllGood'
  <2>1. ASSUME NEW r \in Processes, r # p PROVE Good(r)'
    <3>1. Spares(r)
      BY <1>6, <2>1 DEF StopTheWorld, GoesTo, memory, sessions, Shape, Spares
    <3>2. QED
      BY <1>0, <3>1, GoodStays
  <2>2. Good(p)'
    <3>1. Spares(p)
      BY <1>6 DEF StopTheWorld, Spares, sessions
    <3>2. QED
      BY <1>0, <3>1, GoodStays
  <2>3. QED
    BY <1>00, <2>1, <2>2
<1>7. ASSUME NEW p \in Processes, NEW t \in Threads, Park(p, t) PROVE AllGood'
  <2>1. ASSUME NEW r \in Processes, r # p PROVE Good(r)'
    <3>1. Spares(r)
      BY <1>7, <2>1 DEF Park, GoesTo, memory, sessions, Shape, Spares
    <3>2. QED
      BY <1>0, <3>1, GoodStays
  <2>2. Sane(p) /\ Alone(p)
    BY <1>7, <1>0 DEF Park, Good, Fits, Plain, Bare
  <2>3. /\ place[p][t] # "no" /\ place'[p] = [place[p] EXCEPT ![t] = "parked"]
    BY <1>7 DEF Park, GoesTo, Shape
  <2>4. Alone(p)'
    BY <2>2, <2>3, AloneStays DEF Places
  <2>5. Sane(p)'
    BY <1>7, <1>0, <2>2, <2>3 DEF Park, Sane, Whole, Shape, Cells, memory, sessions
  <2>6. Good(p)'
    BY <2>3, <2>4, <2>5, SaneIsGood DEF Shape
  <2>7. QED
    BY <1>00, <2>1, <2>6
<1>8. ASSUME NEW p \in Processes, NEW t \in Threads, Unpark(p, t) PROVE AllGood'
  <2>1. ASSUME NEW r \in Processes, r # p PROVE Good(r)'
    <3>1. Spares(r)
      BY <1>8, <2>1 DEF Unpark, GoesTo, memory, sessions, Shape, Spares
    <3>2. QED
      BY <1>0, <3>1, GoodStays
  <2>2. Sane(p) /\ Alone(p)
    BY <1>8, <1>0 DEF Unpark, Good, Fits, Plain, Bare
  <2>3. /\ place[p][t] # "no" /\ place'[p] = [place[p] EXCEPT ![t] = "python"]
    BY <1>8 DEF Unpark, GoesTo, Shape
  <2>4. Alone(p)'
    BY <2>2, <2>3, AloneStays DEF Places
  <2>5. Sane(p)'
    BY <1>8, <1>0, <2>2, <2>3 DEF Unpark, Sane, Whole, Shape, Cells, memory, sessions
  <2>6. Good(p)'
    BY <2>3, <2>4, <2>5, SaneIsGood DEF Shape
  <2>7. QED
    BY <1>00, <2>1, <2>6
<1>9. ASSUME NEW q \in Processes, NEW t \in Threads, Detach(q, t) PROVE AllGood'
  <2>1. ASSUME NEW r \in Processes, r # q PROVE Good(r)'
    <3>1. Spares(r)
      BY <1>9, <2>1 DEF Detach, GoesTo, memory, sessions, Shape, Spares
    <3>2. QED
      BY <1>0, <3>1, GoodStays
  <2>2. q \in Kids /\ \A u \in Threads : u # t => place[q][u] = "no"
    BY <1>9, <1>0, HandlerIsAlone DEF Detach, Good
  <2>3. Fits(q, t) /\ place'[q][t] # "no" /\ \A u \in Threads : u # t => place'[q][u] = "no"
    BY <1>9, <1>0, <2>2 DEF Detach, GoesTo, Good, Shape
  <2>4. Fits(q, t)'
    BY <1>9, <2>2, <2>3 DEF Detach, GoesTo, Fits, Shape, Sane, Whole, Plain, Bare, Given, Fresh, Inherits, Quiet, Unlocked, memory, sessions
  <2>5. Good(q)'
    BY <1>0, <2>2, <2>3, <2>4, KidIsGood
  <2>6. QED
    BY <1>00, <2>1, <2>5
<1>10. ASSUME NEW q \in Processes, NEW t \in Threads, Connect(q, t) PROVE AllGood'
  <2>1. ASSUME NEW r \in Processes, r # q PROVE Good(r)'
    <3>1. Spares(r)
      BY <1>10, <2>1 DEF Connect, GoesTo, memory, sessions, Shape, Spares
    <3>2. QED
      BY <1>0, <3>1, GoodStays
  <2>2. q \in Kids /\ \A u \in Threads : u # t => place[q][u] = "no"
    BY <1>10, <1>0, HandlerIsAlone DEF Connect, Good
  <2>3. Fits(q, t) /\ place'[q][t] # "no" /\ \A u \in Threads : u # t => place'[q][u] = "no"
    BY <1>10, <1>0, <2>2 DEF Connect, GoesTo, Good, Shape
  <2>4. Fits(q, t)'
    BY <1>10, <2>2, <2>3 DEF Connect, GoesTo, Fits, Shape, Sane, Whole, Plain, Bare, Given, Fresh, Inherits, Quiet, Unlocked, memory, sessions
  <2>5. Good(q)'
    BY <1>0, <2>2, <2>3, <2>4, KidIsGood
  <2>6. QED
    BY <1>00, <2>1, <2>5
<1>11. ASSUME NEW q \in Processes, NEW t \in Threads, Shake(q, t) PROVE AllGood'
  <2>1. ASSUME NEW r \in Processes, r # q PROVE Good(r)'
    <3>1. Spares(r)
      BY <1>11, <2>1 DEF Shake, GoesTo, memory, sessions, Shape, Spares
    <3>2. QED
      BY <1>0, <3>1, GoodStays
  <2>2. q \in Kids /\ \A u \in Threads : u # t => place[q][u] = "no"
    BY <1>11, <1>0, HandlerIsAlone DEF Shake, Good
  <2>3. Fits(q, t) /\ place'[q][t] # "no" /\ \A u \in Threads : u # t => place'[q][u] = "no"
    BY <1>11, <1>0, <2>2 DEF Shake, GoesTo, Good, Shape
  <2>4. Fits(q, t)'
    <3>1. /\ place[q][t] \in {"shaking", "greeting"} /\ listens'[q] /\ q \in joined'
          /\ place'[q][t] = IF place[q][t] = "shaking" THEN "hold" ELSE "arm"
          /\ writer'[q] = q /\ listed'[q] = q
          /\ UNCHANGED <<detached, handlers, armed, registry, lock, descs>>
      BY <1>11, <2>3 DEF Shake, GoesTo, Shape
    <3>2. ~detached[q] /\ descs[q] = {q} /\ registry[q] = {} /\ lock[q] = Unlocked
      BY <2>3, <3>1 DEF Fits, Given, Fresh, Quiet
    <3>3. CASE place[q][t] = "shaking"
      <4>1. handlers[q] /\ armed[q]
        BY <2>3, <3>3 DEF Fits, Given
      <4>2. Sane(q)'
        BY <3>1, <3>2, <4>1 DEF Sane, Whole, Unlocked, Cells
      <4>3. QED
        BY <3>1, <3>3, <4>2 DEF Fits
    <3>4. CASE place[q][t] = "greeting"
      BY <3>1, <3>2, <3>4 DEF Fits, Quiet, Unlocked
    <3>5. QED
      BY <3>1, <3>3, <3>4
  <2>5. Good(q)'
    BY <1>0, <2>2, <2>3, <2>4, KidIsGood
  <2>6. QED
    BY <1>00, <2>1, <2>5
<1>12. ASSUME NEW q \in Processes, NEW t \in Threads, ShakeFails(q, t) PROVE AllGood'
  <2>1. ASSUME NEW r \in Processes, r # q PROVE Good(r)'
    <3>1. Spares(r)
      BY <1>12, <2>1 DEF ShakeFails, GoesTo, memory, sessions, Shape, Spares
    <3>2. QED
      BY <1>0, <3>1, GoodStays
  <2>2. q \in Kids /\ \A u \in Threads : u # t => place[q][u] = "no"
    BY <1>12, <1>0, HandlerIsAlone DEF ShakeFails, Good
  <2>3. Fits(q, t) /\ place'[q][t] # "no" /\ \A u \in Threads : u # t => place'[q][u] = "no"
    BY <1>12, <1>0, <2>2 DEF ShakeFails, GoesTo, Good, Shape
  <2>4. Fits(q, t)'
    BY <1>12, <2>2, <2>3 DEF ShakeFails, GoesTo, Fits, Shape, Sane, Whole, Plain, Bare, Given, Fresh, Inherits, Quiet, Unlocked, memory, sessions
  <2>5. Good(q)'
    BY <1>0, <2>2, <2>3, <2>4, KidIsGood
  <2>6. QED
    BY <1>00, <2>1, <2>5
<1>13. ASSUME NEW q \in Processes, NEW t \in Threads, Disarm(q, t) PROVE AllGood'
  <2>1. ASSUME NEW r \in Processes, r # q PROVE Good(r)'
    <3>1. Spares(r)
      BY <1>13, <2>1 DEF Disarm, GoesTo, memory, sessions, Shape, Spares
    <3>2. QED
      BY <1>0, <3>1, GoodStays
  <2>2. q \in Kids /\ \A u \in Threads : u # t => place[q][u] = "no"
    BY <1>13, <1>0, HandlerIsAlone DEF Disarm, Good
  <2>3. Fits(q, t) /\ place'[q][t] # "no" /\ \A u \in Threads : u # t => place'[q][u] = "no"
    BY <1>13, <1>0, <2>2 DEF Disarm, GoesTo, Good, Shape
  <2>4. Fits(q, t)'
    BY <1>13, <2>2, <2>3 DEF Disarm, GoesTo, Fits, Shape, Sane, Whole, Plain, Bare, Given, Fresh, Inherits, Quiet, Unlocked, memory, sessions
  <2>5. Good(q)'
    BY <1>0, <2>2, <2>3, <2>4, KidIsGood
  <2>6. QED
    BY <1>00, <2>1, <2>5
<1>14. ASSUME NEW q \in Processes, NEW t \in Threads, Arm(q, t) PROVE AllGood'
  <2>1. ASSUME NEW r \in Processes, r # q PROVE Good(r)'
    <3>1. Spares(r)
      BY <1>14, <2>1 DEF Arm, GoesTo, memory, sessions, Shape, Spares
    <3>2. QED
      BY <1>0, <3>1, GoodStays
  <2>2. q \in Kids /\ \A u \in Threads : u # t => place[q][u] = "no"
    BY <1>14, <1>0, HandlerIsAlone DEF Arm, Good
  <2>3. Fits(q, t) /\ place'[q][t] # "no" /\ \A u \in Threads : u # t => place'[q][u] = "no"
    BY <1>14, <1>0, <2>2 DEF Arm, GoesTo, Good, Shape
  <2>4. Fits(q, t)'
    <3>1. /\ place'[q][t] = "hold" /\ place[q][t] = "arm"
          /\ armed'[q] /\ handlers'[q] /\ registry[q] = {} /\ lock[q] = Unlocked
          /\ UNCHANGED <<detached, listed, writer, registry, lock, descs, listens, joined>>
      BY <1>14, <2>3 DEF Arm, GoesTo, Fits, Quiet, Shape, sessions
    <3>2. Sane(q)'
      BY <2>3, <3>1 DEF Fits, Sane, Whole, Unlocked, Cells
    <3>3. QED
      BY <3>1, <3>2 DEF Fits
  <2>5. Good(q)'
    BY <1>0, <2>2, <2>3, <2>4, KidIsGood
  <2>6. QED
    BY <1>00, <2>1, <2>5
<1>15. ASSUME NEW p \in Processes, NEW t \in Threads, NEW q \in Kids, MakeCopy(p, t, q) PROVE AllGood'
  <2>1. ASSUME NEW r \in Processes, r # q PROVE Good(r)'
    <3>1. Spares(r)
      BY <1>15, <2>1 DEF MakeCopy, Makes, sessions, Shape, Spares
    <3>2. QED
      BY <1>0, <3>1, GoodStays
  <2>2. /\ Fits(p, t) /\ place[p][t] = "python" /\ ~Exists(q) /\ Good(q)
        /\ \A u \in Threads : u # t => place'[q][u] = "no"
        /\ place'[q][t] = IF handlers[p] THEN "forked" ELSE "python"
    BY <1>15, <1>0 DEF MakeCopy, Makes, Good, Shape
  <2>3. ~listens'[q]
    BY <1>15, <2>2 DEF MakeCopy, Good, Leaves, Fresh
  <2>4. Fits(q, t)'
    <3>1. /\ handlers'[q] = handlers[p] /\ armed'[q] = armed[p] /\ detached'[q] = detached[p]
          /\ descs'[q] = descs[p] /\ listed'[q] = listed[p]
          /\ registry'[q] = registry[p] /\ lock'[q] = lock[p]
      BY <1>15, <1>0 DEF MakeCopy, Shape
    <3>2. CASE Sane(p)
      BY <2>2, <2>3, <3>1, <3>2 DEF Fits, Sane, Whole, Inherits
    <3>3. CASE Plain(p)
      BY <2>2, <2>3, <3>1, <3>3 DEF Fits, Plain, Bare, Quiet, Inherits, Unlocked
    <3>4. QED
      BY <2>2, <3>2, <3>3 DEF Fits
  <2>5. Good(q)'
    BY <1>0, <2>2, <2>4, KidIsGood
  <2>6. QED
    BY <1>00, <2>1, <2>5
<1>16. ASSUME NEW p \in Processes, NEW t \in Threads, NEW q \in Kids, Exec(p, t, q) PROVE AllGood'
  <2>1. ASSUME NEW r \in Processes, r # q PROVE Good(r)'
    <3>1. Spares(r)
      BY <1>16, <2>1 DEF Exec, Makes, sessions, memory, Shape, Spares
    <3>2. QED
      BY <1>0, <3>1, GoodStays
  <2>2. /\ Fresh(q) /\ descs[q] = {}
        /\ \A u \in Threads : u # t => place'[q][u] = "no"
        /\ place'[q][t] = IF debugs[p] THEN "entered" ELSE "python"
    BY <1>16, <1>0 DEF Exec, Makes, Good, Leaves, Shape
  <2>3. Fits(q, t)'
    BY <1>16, <2>2 DEF Exec, Fits, Fresh, Plain, Bare, Quiet, Unlocked, memory
  <2>4. Good(q)'
    BY <1>0, <2>2, <2>3, KidIsGood
  <2>5. QED
    BY <1>00, <2>1, <2>4
<1>17. ASSUME NEW p \in Processes, DebugChildren(p) PROVE AllGood'
  <2>1. \A r \in Processes : Spares(r)
    BY <1>17 DEF DebugChildren, sessions, Spares
  <2>2. QED
    BY <1>0, <1>00, <2>1, GoodStays
<1>18. ASSUME NEW p \in Processes, Die(p) PROVE AllGood'
  <2>1. ASSUME NEW r \in Processes, r # p PROVE Good(r)'
    <3>1. Spares(r)
      BY <1>18, <2>1 DEF Die, sessions, Shape, Spares
    <3>2. QED
      BY <1>0, <3>1, GoodStays
  <2>2. \A u \in Threads : place'[p][u] = "no"
    BY <1>18 DEF Die, Shape
  <2>3. Fresh(p)' /\ descs'[p] = {}
    BY <1>18 DEF Die, Shape, Fresh, Quiet, Unlocked
  <2>4. Good(p)'
    BY <2>2, <2>3 DEF Good, Fits, Alone, Leaves
  <2>5. QED
    BY <1>00, <2>1, <2>4
<1>19. ASSUME NEW p \in Processes, EndIsRead(p) PROVE AllGood'
  <2>1. \A r \in Processes : Spares(r)
    BY <1>19 DEF EndIsRead, memory, Spares
  <2>2. QED
    BY <1>0, <1>00, <2>1, GoodStays
<1>20. CASE UNCHANGED childVars
  <2>1. \A r \in Processes : Spares(r)
    BY <1>20 DEF childVars, memory, sessions, Spares
  <2>2. QED
    BY <1>0, <1>00, <2>1, GoodStays
<1>21. QED
  BY <1>1, <1>2, <1>3, <1>4, <1>5, <1>6, <1>7, <1>8, <1>9, <1>10, <1>11, <1>12, <1>13, <1>14, <1>15, <1>16, <1>17, <1>18, <1>19, <1>20
  DEF ChildNext, Stops, Handles, Asked, Parks, Begins

-----------------------------------------------------------------------------
\* Only the process that opened a connection has it in its cell when it writes.
LEMMA OneWriterStep ==
    ASSUME Shape, AllGood, OneWriter, [ChildNext]_childVars PROVE OneWriter'
<1>1. ASSUME NEW p \in Processes, NEW t \in Threads, Sent(p, t) PROVE OneWriter'
  <2>1. writer[p] = p
    BY <1>1 DEF AllGood, Good, Fits, Sane, Whole, Sent
  <2>2. QED
    BY <1>1, <2>1 DEF Sent, OneWriter, Shape
<1>2. CASE UNCHANGED wrote
  BY <1>2 DEF OneWriter
<1>3. CASE ChildNext
  <2>1. PICK p \in Processes :
          \/ \E t \in Threads : \/ Stops(p, t) \/ Handles(p, t) \/ Asked(p, t)
                                \/ Parks(p, t) \/ Begins(p, t)
          \/ DebugChildren(p) \/ Die(p) \/ EndIsRead(p)
    BY <1>3 DEF ChildNext
  <2>2. ASSUME NEW t \in Threads, Stops(p, t) PROVE OneWriter'
    BY <1>1, <1>2, <2>2 DEF Stops, Enter, Register, Report
  <2>3. ASSUME NEW t \in Threads, Handles(p, t) \/ Asked(p, t) \/ Parks(p, t) \/ Begins(p, t)
        PROVE  UNCHANGED wrote
    BY <2>3 DEF Handles, Asked, Parks, Begins, Detach, Connect, Shake, ShakeFails, Disarm, Arm,
                Resume, StopTheWorld, Park, Unpark, MakeCopy, Exec
  <2>4. CASE DebugChildren(p) \/ Die(p) \/ EndIsRead(p)
    BY <1>2, <2>4 DEF DebugChildren, Die, EndIsRead
  <2>5. QED
    BY <1>2, <2>1, <2>2, <2>3, <2>4
<1>4. QED
  BY <1>2, <1>3 DEF childVars

-----------------------------------------------------------------------------
IndInv == Shape /\ AllGood /\ OneWriter

LEMMA IndInvHolds == ASSUME ~SpawnFails PROVE ChildSpec => []IndInv
<1>1. ChildInit => IndInv
  <2> SUFFICES ASSUME ChildInit PROVE IndInv
    OBVIOUS
  <2>1. Shape
    BY ChildAssumption DEF ChildInit, Shape, Places, Unlocked, Processes, Cells
  <2>2. OneWriter
    BY DEF ChildInit, OneWriter
  <2>3. ASSUME NEW p \in Processes, p # Root PROVE Good(p)
    BY <2>3 DEF ChildInit, Good, Fits, Alone, Leaves, Fresh, Quiet
  <2>4. Good(Root)
    <3>1. Root \in Processes /\ Root \notin Kids
      BY ChildAssumption DEF Processes
    <3>2. Sane(Root)
      BY <3>1 DEF ChildInit, Sane, Whole, Unlocked, Cells
    <3>3. \A t \in Threads : place[Root][t] = "python"
      BY <3>1 DEF ChildInit
    <3>4. Exists(Root)
      BY <3>1, <3>3, ChildAssumption DEF Exists
    <3>5. QED
      BY <3>1, <3>2, <3>3, <3>4 DEF Good, Fits, Alone, Leaves
  <2>5. QED
    BY <2>1, <2>2, <2>3, <2>4 DEF IndInv, AllGood
<1>2. IndInv /\ [ChildNext]_childVars => IndInv'
  BY ShapeIsKept, GoodStep, OneWriterStep DEF IndInv
<1>3. QED
  BY <1>1, <1>2, PTL DEF ChildSpec

\* However a process was made, and whatever the other threads were doing when
\* it was, it is a session of its own or as it would be without bpd, nobody
\* else writes on its connection, its one thread finds the locks it takes free,
\* and nothing keeps the connection of a process that has ended: detach,
\* abandon and reattach of the child's handler, and the entry of an exec'd one.
THEOREM ChildrenAreTheirOwn == ASSUME ~SpawnFails PROVE ChildSpec => []ChildIsItsOwn
<1>1. IndInv => ChildIsItsOwn
  <2> SUFFICES ASSUME IndInv PROVE ChildIsItsOwn
    OBVIOUS
  <2>1. \A p \in Processes : Good(p)
    BY DEF IndInv, AllGood
  <2>2. WholeOrBare
    BY <2>1 DEF WholeOrBare, Good, Fits, Sane, Plain
  <2>3. ASSUME NEW q \in Kids, NEW t \in Threads, NEW c \in Wanted(q, t) PROVE lock[q][c] = None
    <3>1. q \in Processes /\ Fits(q, t) /\ Alone(q)
      BY <2>1 DEF Good, Processes
    <3>2. /\ \A d \in Cells : lock[q][d] \in Threads \cup {None}
          /\ c \in Cells
      BY <3>1, <2>3 DEF IndInv, Shape, Wanted, Cells
    <3>3. CASE place[q][t] \in {"hold", "telling"}
      BY <3>1, <3>2, <3>3 DEF Fits, Sane, Alone, Cells
    <3>4. CASE place[q][t] \in {"shaking", "greeting"}
      BY <3>1, <3>2, <3>4 DEF Fits, Given, Fresh, Quiet, Unlocked
    <3>5. QED
      BY <2>3, <3>3, <3>4 DEF Wanted
  <2>4. ASSUME NEW p \in Processes, NEW q \in Processes, Gone(p), p \in descs[q]
        PROVE  \E t \in Threads : place[q][t] = "forked"
    <3>1. Exists(q)
      BY <2>1, <2>4 DEF Good, Leaves
    <3>2. PICK t \in Threads : place[q][t] # "no"
      BY <3>1 DEF Exists
    <3>3. q # p
      BY <2>4, <3>1 DEF Gone
    <3>4. Fits(q, t) /\ place[q][t] \in Places
      BY <2>1 DEF Good, IndInv, Shape
    <3>5. ~Sane(q) /\ ~Plain(q) /\ descs[q] # {} /\ descs[q] # {q}
      BY <2>4, <3>3 DEF Sane, Whole, Plain, Bare
    <3>6. QED
      BY <3>2, <3>4, <3>5 DEF Fits, Places
  <2>5. QED
    BY <2>2, <2>3, <2>4 DEF IndInv, ChildIsItsOwn, ForksCleanly, ChildIsFree
<1>2. QED
  BY <1>1, IndInvHolds, PTL
================================================================================
