---------------------------- MODULE Stream_proofs ----------------------------
(***************************************************************************)
(* What Stream promises for every set of threads, every capacity and any   *)
(* number of records, stops and forks: on both builds, that the writer is  *)
(* off the process while any thread forks, and with a GIL that every gap   *)
(* in the stream is said, that a stop follows what was queued before it,   *)
(* and that the end accounts for every record.                             *)
(***************************************************************************)
EXTENDS Stream, FiniteSetTheorems, TLAPS

\* The places between a `before` handler and the `after_in_parent` one.
ForkPlaces == {"join", "standing", "fork"}
Forking    == {t \in Threads : pc[t] \in ForkPlaces}

\* The types of what the writer's mutex guards.
ShapeOK ==
    /\ {wanted, running} \subseteq BOOLEAN
    /\ forking \in Nat
    /\ writerLock \in Threads \cup {"nobody"}
    /\ pc \in [Threads -> Places]

\* The mutex is held, between two steps, by the one thread that joins.
LockIsHeld == \A t \in Threads : pc[t] \in {"join", "finishJoin"} <=> writerLock = t

\* Writer.forking counts the threads that fork.
ForksAreCounted == forking = Cardinality(Forking)

\* There is a handle only while nobody forks and nobody joins, and a thread only
\* with a handle or somebody who joins it.
RunningAlone  == running => forking = 0 /\ writerLock = "nobody"
WriterIsKnown == writer # "off" => running \/ writerLock # "nobody"

\* Who joins found a writer, so nobody was through its own stand-down.
JoinAlone == writerLock # "nobody" => \A t \in Threads : pc[t] \notin {"standing", "fork"}

StoodDown == /\ ShapeOK /\ LockIsHeld /\ ForksAreCounted
             /\ RunningAlone /\ WriterIsKnown /\ JoinAlone

-----------------------------------------------------------------------------
\* A step that neither joins, forks, nor touches what the mutex guards.
LEMMA StoodDownKept ==
    ASSUME StoodDown,
           UNCHANGED <<running, forking, writerLock>>,
           wanted' \in BOOLEAN,
           pc' \in [Threads -> Places],
           \A t \in Threads : \/ pc'[t] = pc[t]
                              \/ {pc[t], pc'[t]} \cap (ForkPlaces \cup {"finishJoin"}) = {},
           writer' # "off" => writer # "off"
    PROVE  StoodDown'
<1>1. Forking' = Forking
  BY DEF Forking, ForkPlaces
<1>2. ForksAreCounted'
  BY <1>1 DEF StoodDown, ForksAreCounted
<1>3. LockIsHeld' /\ JoinAlone'
  BY DEF StoodDown, LockIsHeld, JoinAlone, ForkPlaces
<1>4. ShapeOK' /\ RunningAlone' /\ WriterIsKnown'
  BY DEF StoodDown, ShapeOK, RunningAlone, WriterIsKnown
<1>5. QED
  BY <1>2, <1>3, <1>4 DEF StoodDown

\* Only threads fork, and there are finitely many.
LEMMA ForkingIsFinite ==
    IsFiniteSet(Forking) /\ Cardinality(Forking) \in Nat
    /\ \A t \in Threads : pc[t] \in ForkPlaces => Cardinality(Forking) # 0
<1>1. IsFiniteSet(Forking)
  BY FS_Subset, StreamAssumption DEF Forking
<1>2. QED
  BY <1>1, FS_CardinalityType, FS_EmptySet DEF Forking

\* The writer is stood down and put back as the inductive invariant says.
LEMMA StoodDownStep ==
    ASSUME StoodDown, [Next]_vars PROVE StoodDown'
<1> USE StreamAssumption DEF ForkPlaces, Places, Interpreting, ShapeOK
<1>1. CASE WatchOff
  BY <1>1, StoodDownKept DEF WatchOff, StoodDown, outbound, thread
<1>2. ASSUME NEW t \in Threads, Announce(t) PROVE StoodDown'
  BY <1>2, StoodDownKept DEF Announce, StoodDown, outbound, thread, Goto
<1>3. ASSUME NEW t \in Threads, Push(t) PROVE StoodDown'
  BY <1>3, StoodDownKept DEF Push, StoodDown, outbound, thread, Goto, DrainedThen
<1>4. ASSUME NEW t \in Threads, NotARecord(t) PROVE StoodDown'
  BY <1>4, StoodDownKept DEF NotARecord, StoodDown, outbound, thread, Goto
<1>5. CASE WriterLook
  BY <1>5, StoodDownKept DEF WriterLook, StoodDown, outbound, thread
<1>6. CASE WriterRoom
  BY <1>6, StoodDownKept DEF WriterRoom, StoodDown, outbound, thread
<1>7. CASE WriterTake
  BY <1>7, StoodDownKept DEF WriterTake, StoodDown, outbound, thread
<1>8. CASE WriterSend
  BY <1>8, StoodDownKept DEF WriterSend, StoodDown, outbound, thread
<1>9. CASE WriterWritten
  BY <1>9, StoodDownKept DEF WriterWritten, StoodDown, outbound, thread, Drained
<1>10. ASSUME NEW t \in Threads, BeginStop(t) PROVE StoodDown'
  BY <1>10, StoodDownKept DEF BeginStop, StoodDown, outbound, thread, Goto
<1>11. ASSUME NEW t \in Threads, FlushWanted(t) PROVE StoodDown'
  BY <1>11, StoodDownKept DEF FlushWanted, StoodDown, outbound, thread, Goto
<1>12. ASSUME NEW t \in Threads, FlushAim(t) PROVE StoodDown'
  BY <1>12, StoodDownKept DEF FlushAim, StoodDown, outbound, thread, Goto
<1>13. ASSUME NEW t \in Threads, FlushCheck(t) PROVE StoodDown'
  BY <1>13, StoodDownKept DEF FlushCheck, StoodDown, outbound, thread, Goto
<1>14. ASSUME NEW t \in Threads, Report(t) PROVE StoodDown'
  BY <1>14, StoodDownKept DEF Report, StoodDown, outbound, thread, Goto
<1>15. CASE Finish
  BY <1>15, StoodDownKept DEF Finish, StoodDown, outbound, thread, Goto
<1>16. CASE Drain
  BY <1>16, StoodDownKept DEF Drain, StoodDown, outbound, thread, Goto
<1>17. CASE DrainSend
  BY <1>17, StoodDownKept DEF DrainSend, StoodDown, outbound, thread, Goto
<1>18. CASE DrainWritten
  BY <1>18, StoodDownKept DEF DrainWritten, StoodDown, outbound, thread, DrainedThen
<1>19. ASSUME NEW t \in Threads, Stood(t) PROVE StoodDown'
  <2>1. pc' = [pc EXCEPT ![t] = "fork"] /\ pc[t] = "standing"
    BY <1>19 DEF Stood, Goto
  <2>2. Forking' = Forking
    BY <2>1 DEF StoodDown, Forking
  <2>3. UNCHANGED <<running, forking, writerLock, wanted, writer>>
    BY <1>19 DEF Stood, thread
  <2>4. ForksAreCounted'
    BY <2>2, <2>3 DEF StoodDown, ForksAreCounted
  <2>5. LockIsHeld' /\ JoinAlone'
    BY <2>1, <2>3 DEF StoodDown, LockIsHeld, JoinAlone
  <2>6. QED
    BY <2>1, <2>3, <2>4, <2>5 DEF StoodDown, RunningAlone, WriterIsKnown
<1>20. CASE WatchOn
  <2>1. UNCHANGED <<pc, forking, writerLock>> /\ wanted' = TRUE /\ writerLock = "nobody"
    BY <1>20 DEF WatchOn
  <2>2. \/ UNCHANGED <<running, writer>>
        \/ forking = 0 /\ running' = TRUE
    BY <1>20 DEF WatchOn, StoodDown
  <2>3. Forking' = Forking
    BY <2>1 DEF Forking
  <2>4. LockIsHeld' /\ ForksAreCounted' /\ JoinAlone'
    BY <2>1, <2>3 DEF StoodDown, LockIsHeld, ForksAreCounted, JoinAlone
  <2>5. ShapeOK'
    BY <2>1, <2>2 DEF StoodDown
  <2>6. RunningAlone'
    BY <2>1, <2>2 DEF StoodDown, RunningAlone
  <2>7. WriterIsKnown'
    BY <2>1, <2>2 DEF StoodDown, WriterIsKnown
  <2>8. QED
    BY <2>4, <2>5, <2>6, <2>7 DEF StoodDown
<1>21. ASSUME NEW t \in Threads, StandDown(t) PROVE StoodDown'
  <2>1. /\ pc[t] = "python" /\ writerLock = "nobody" /\ forking' = forking + 1
        /\ UNCHANGED wanted
    BY <1>21 DEF StandDown
  <2>2. \/ running /\ pc' = [pc EXCEPT ![t] = "join"] /\ running' = FALSE /\ writerLock' = t
        \/ /\ ~running /\ UNCHANGED <<running, writerLock, writer>>
           /\ pc' = [pc EXCEPT ![t] = "fork"] \/ pc' = [pc EXCEPT ![t] = "standing"]
    BY <1>21 DEF StandDown, Tell, Alone, OnToFork, Goto
  <2>3. Forking' = Forking \cup {t} /\ t \notin Forking
    BY <2>1, <2>2 DEF StoodDown, Forking
  <2>4. ForksAreCounted'
    BY <2>1, <2>3, ForkingIsFinite, FS_AddElement DEF StoodDown, ForksAreCounted
  <2>5. running => \A u \in Threads : pc[u] \notin ForkPlaces
    BY ForkingIsFinite DEF StoodDown, RunningAlone, ForksAreCounted
  <2>6. LockIsHeld'
    BY <2>1, <2>2 DEF StoodDown, LockIsHeld
  <2>7. JoinAlone'
    BY <2>1, <2>2, <2>5 DEF StoodDown, JoinAlone
  <2>8. ShapeOK'
    <3>1. forking' \in Nat /\ writerLock' \in Threads \cup {"nobody"} /\ pc' \in [Threads -> Places]
      BY <2>1, <2>2 DEF StoodDown
    <3>2. wanted' \in BOOLEAN /\ running' \in BOOLEAN
      BY <2>1, <2>2 DEF StoodDown
    <3>3. QED
      BY <3>1, <3>2
  <2>9. RunningAlone'
    BY <2>1, <2>2 DEF StoodDown, RunningAlone
  <2>10. WriterIsKnown'
    BY <2>1, <2>2, StreamAssumption DEF StoodDown, WriterIsKnown
  <2>11. QED
    BY <2>4, <2>6, <2>7, <2>8, <2>9, <2>10 DEF StoodDown
<1>22. ASSUME NEW t \in Threads, Joined(t) PROVE StoodDown'
  <2>1. /\ pc[t] \in {"join", "finishJoin"} /\ writerLock' = "nobody" /\ writer' = "off"
        /\ UNCHANGED <<wanted, running, forking>>
    BY <1>22 DEF Joined
  <2>2. \/ /\ pc[t] = "join"
           /\ pc' = [pc EXCEPT ![t] = "fork"] \/ pc' = [pc EXCEPT ![t] = "standing"]
        \/ pc[t] = "finishJoin" /\ pc' = [pc EXCEPT ![t] = "drain"]
    BY <1>22 DEF Joined, OnToFork, Goto
  <2>3. Forking' = Forking
    BY <2>2 DEF StoodDown, Forking
  <2>4. writerLock = t
    BY <2>1 DEF StoodDown, LockIsHeld
  <2>5. LockIsHeld'
    BY <2>1, <2>2, <2>4 DEF StoodDown, LockIsHeld
  <2>6. ShapeOK' /\ ForksAreCounted' /\ RunningAlone' /\ WriterIsKnown' /\ JoinAlone'
    BY <2>1, <2>2, <2>3, <2>4
    DEF StoodDown, ForksAreCounted, RunningAlone, WriterIsKnown, JoinAlone
  <2>7. QED
    BY <2>5, <2>6 DEF StoodDown
<1>23. ASSUME NEW t \in Threads, Resume(t) PROVE StoodDown'
  <2>1. /\ pc[t] = "fork" /\ writerLock = "nobody" /\ forking' = forking - 1
        /\ pc' = [pc EXCEPT ![t] = "python"]
        /\ UNCHANGED <<wanted, writerLock>>
    BY <1>23 DEF Resume, Goto
  <2>2. \/ forking' = 0 /\ running' = TRUE
        \/ UNCHANGED <<running, writer>>
    BY <1>23 DEF Resume
  <2>3. Forking' = Forking \ {t} /\ t \in Forking
    BY <2>1 DEF StoodDown, Forking
  <2>4. Cardinality(Forking \ {t}) = Cardinality(Forking) - 1 /\ Cardinality(Forking) # 0
    <3>1. IsFiniteSet(Forking) /\ Cardinality(Forking) # 0
      BY <2>1, ForkingIsFinite
    <3>2. QED
      BY <2>3, <3>1, FS_RemoveElement
  <2>5. forking > 0 /\ ForksAreCounted'
    BY <2>1, <2>3, <2>4 DEF StoodDown, ForksAreCounted
  <2>6. LockIsHeld' /\ JoinAlone'
    BY <2>1 DEF StoodDown, LockIsHeld, JoinAlone
  <2>7. ShapeOK'
    <3>1. forking' \in Nat /\ writerLock' \in Threads \cup {"nobody"} /\ pc' \in [Threads -> Places]
      BY <2>1, <2>5 DEF StoodDown
    <3>2. wanted' \in BOOLEAN /\ running' \in BOOLEAN
      BY <2>1, <2>2 DEF StoodDown
    <3>3. QED
      BY <3>1, <3>2
  <2>8. RunningAlone'
    <3>1. ~running
      BY <2>5 DEF StoodDown, RunningAlone
    <3>2. QED
      BY <2>1, <2>2, <3>1 DEF RunningAlone
  <2>9. WriterIsKnown'
    BY <2>1, <2>2 DEF StoodDown, WriterIsKnown
  <2>10. QED
    BY <2>6, <2>7, <2>8, <2>5, <2>9 DEF StoodDown
<1>24. CASE FinishStops
  <2>1. pc[Main] = "finish" /\ writerLock = "nobody" /\ wanted' = FALSE /\ UNCHANGED forking
    BY <1>24 DEF FinishStops
  <2>2. \/ /\ running /\ pc' = [pc EXCEPT ![Main] = "finishJoin"]
           /\ running' = FALSE /\ writerLock' = Main
        \/ /\ ~running /\ UNCHANGED <<running, writerLock, writer>>
           /\ pc' = [pc EXCEPT ![Main] = "drain"]
    BY <1>24 DEF FinishStops, Tell, Alone, Goto
  <2>3. Forking' = Forking
    BY <2>1, <2>2 DEF StoodDown, Forking
  <2>4. running => \A u \in Threads : pc[u] \notin ForkPlaces
    BY ForkingIsFinite DEF StoodDown, RunningAlone, ForksAreCounted
  <2>5. LockIsHeld'
    BY <2>1, <2>2 DEF StoodDown, LockIsHeld
  <2>6. JoinAlone'
    BY <2>1, <2>2, <2>4 DEF StoodDown, JoinAlone
  <2>7. ShapeOK'
    BY <2>1, <2>2 DEF StoodDown
  <2>8. ForksAreCounted' /\ RunningAlone'
    BY <2>1, <2>2, <2>3 DEF StoodDown, ForksAreCounted, RunningAlone
  <2>9. WriterIsKnown'
    BY <2>1, <2>2, StreamAssumption DEF StoodDown, WriterIsKnown
  <2>10. QED
    BY <2>5, <2>6, <2>7, <2>8, <2>9 DEF StoodDown
<1>25. CASE UNCHANGED vars
  BY <1>25, StoodDownKept DEF vars, thread, StoodDown
<1>26. QED
  BY <1>1, <1>2, <1>3, <1>4, <1>5, <1>6, <1>7, <1>8, <1>9, <1>10, <1>11, <1>12, <1>13,
     <1>14, <1>15, <1>16, <1>17, <1>18, <1>19, <1>20, <1>21, <1>22, <1>23, <1>24, <1>25
  DEF Next, Ends, Writes, Flushes, Forks

\* What the invariant is for.
LEMMA StoodDownIsOff == ASSUME StoodDown PROVE WriterIsOff
<1> SUFFICES ASSUME NEW t \in Threads, pc[t] \in {"standing", "fork"}
             PROVE  writer = "off"
  BY DEF WriterIsOff
<1>1. forking # 0
  BY ForkingIsFinite DEF StoodDown, ForksAreCounted, ForkPlaces
<1>2. QED
  BY <1>1 DEF StoodDown, RunningAlone, WriterIsKnown, JoinAlone

\* The invariant of every behaviour.
LEMMA StoodDownAlways == Spec => []StoodDown
<1>1. Init => StoodDown
  <2> SUFFICES ASSUME Init PROVE StoodDown
    OBVIOUS
  <2>1. pc = [t \in Threads |-> "python"] /\ writerLock = "nobody"
    BY DEF Init
  <2>2. Forking = {}
    BY <2>1 DEF Forking, ForkPlaces
  <2>3. ForksAreCounted
    BY <2>2, FS_EmptySet DEF Init, ForksAreCounted
  <2>4. LockIsHeld /\ JoinAlone
    BY <2>1, StreamAssumption DEF LockIsHeld, JoinAlone
  <2>5. ShapeOK /\ RunningAlone /\ WriterIsKnown
    BY <2>1 DEF Init, ShapeOK, RunningAlone, WriterIsKnown, Places
  <2>6. QED
    BY <2>3, <2>4, <2>5 DEF StoodDown
<1>2. StoodDown /\ [Next]_vars => StoodDown'
  BY StoodDownStep
<1>3. QED
  BY <1>1, <1>2, PTL DEF Spec

\* No thread forks with the writer on the process, however many fork at once, on
\* either build (stream::stand_down, resume_writing).
THEOREM WriterIsStoodDown == Spec => []WriterIsOff
<1>1. StoodDown => WriterIsOff
  BY StoodDownIsOff
<1>2. QED
  BY <1>1, StoodDownAlways, PTL

-----------------------------------------------------------------------------
(***************************************************************************)
(* With a GIL: who is in the middle of what.                               *)
(***************************************************************************)

\* The places of the program's end: all of them, and those after the writer's.
DrainPlaces == {"drain", "drainSend", "drainSent", "over"}
EndPlaces   == DrainPlaces \cup {"finish", "finishJoin"}

\* The interpreter has one thread between two waits, and its end is Main's.
OneInterprets ==
    \A t, u \in Threads : pc[t] \in Interpreting /\ pc[u] \in Interpreting => t = u
EndIsMains == \A t \in Threads : pc[t] \in EndPlaces => t = Main

\* Nothing is announced once the end has begun, the writer is not put back once it
\* is to stop, and it is off while the rest is written.
NothingComes  == pc[Main] \in EndPlaces =>
                     ~watching /\ \A t \in Threads : pc[t] # "announcing"
NothingStarts == pc[Main] \in DrainPlaces \cup {"finishJoin"} => ~wanted /\ ~running
NothingWrites == pc[Main] \in DrainPlaces => writer = "off" /\ writerLock = "nobody"

Ended == OneInterprets /\ EndIsMains /\ NothingComes /\ NothingStarts /\ NothingWrites

\* The end is Main's, and quiet.
LEMMA EndedStep ==
    ASSUME ~FreeThreaded, StoodDown, Ended, [Next]_vars PROVE Ended'
<1> USE StreamAssumption
    DEF Interpreting, DrainPlaces, EndPlaces, Ended, OneInterprets, EndIsMains,
        NothingComes, NothingStarts, NothingWrites
<1> pc \in [Threads -> Places]
  BY DEF StoodDown, ShapeOK
<1>1. CASE WatchOn
  BY <1>1 DEF WatchOn, thread, outbound
<1>2. CASE WatchOff
  BY <1>2 DEF WatchOff, thread, outbound
<1>3. ASSUME NEW t \in Threads, Announce(t) PROVE Ended'
  BY <1>3 DEF Announce, Goto, Interpreter, thread, outbound
<1>4. ASSUME NEW t \in Threads, Push(t) PROVE Ended'
  BY <1>4 DEF Push, Goto, DrainedThen, thread, outbound
<1>5. ASSUME NEW t \in Threads, NotARecord(t) PROVE Ended'
  BY <1>5 DEF NotARecord, Goto, thread, outbound
<1>6. CASE WriterLook
  BY <1>6 DEF WriterLook, thread, outbound
<1>7. CASE WriterRoom
  BY <1>7 DEF WriterRoom, thread, outbound
<1>8. CASE WriterTake
  BY <1>8 DEF WriterTake, thread, outbound
<1>9. CASE WriterSend
  BY <1>9 DEF WriterSend, thread, outbound
<1>10. CASE WriterWritten
  BY <1>10 DEF WriterWritten, Drained, thread, outbound
<1>11. ASSUME NEW t \in Threads, BeginStop(t) PROVE Ended'
  BY <1>11 DEF BeginStop, Goto, thread, outbound
<1>12. ASSUME NEW t \in Threads, FlushWanted(t) PROVE Ended'
  BY <1>12 DEF FlushWanted, Goto, thread, outbound
<1>13. ASSUME NEW t \in Threads, FlushAim(t) PROVE Ended'
  BY <1>13 DEF FlushAim, Goto, thread, outbound
<1>14. ASSUME NEW t \in Threads, FlushCheck(t) PROVE Ended'
  BY <1>14 DEF FlushCheck, Goto, thread, outbound
<1>15. ASSUME NEW t \in Threads, Report(t) PROVE Ended'
  BY <1>15 DEF Report, Goto, thread, outbound
<1>16. ASSUME NEW t \in Threads, Stood(t) PROVE Ended'
  BY <1>16 DEF Stood, Goto, Interpreter, thread, outbound
<1>17. ASSUME NEW t \in Threads, StandDown(t) PROVE Ended'
  BY <1>17 DEF StandDown, Goto, Interpreter, OnToFork, Tell, Alone, thread, outbound
<1>18. ASSUME NEW t \in Threads, Joined(t) PROVE Ended'
  BY <1>18 DEF Joined, Goto, OnToFork, StoodDown, LockIsHeld, thread, outbound
<1>19. ASSUME NEW t \in Threads, Resume(t) PROVE Ended'
  BY <1>19 DEF Resume, Goto, thread, outbound
<1>20. CASE Finish
  BY <1>20 DEF Finish, Goto, Interpreter, thread, outbound
<1>21. CASE FinishStops
  BY <1>21 DEF FinishStops, Goto, Tell, Alone, StoodDown, WriterIsKnown, thread, outbound
<1>22. CASE Drain
  BY <1>22 DEF Drain, Goto, thread, outbound
<1>23. CASE DrainSend
  BY <1>23 DEF DrainSend, Goto, thread, outbound
<1>24. CASE DrainWritten
  BY <1>24 DEF DrainWritten, DrainedThen, thread, outbound
<1>25. CASE UNCHANGED vars
  BY <1>25 DEF vars, thread
<1>26. QED
  BY <1>1, <1>2, <1>3, <1>4, <1>5, <1>6, <1>7, <1>8, <1>9, <1>10, <1>11, <1>12, <1>13,
     <1>14, <1>15, <1>16, <1>17, <1>18, <1>19, <1>20, <1>21, <1>22, <1>23, <1>24, <1>25
  DEF Next, Ends, Writes, Flushes, Forks

-----------------------------------------------------------------------------
(***************************************************************************)
(* With a GIL: what became of every record.                                *)
(***************************************************************************)

\* One record at most is in a hand, the writer's or that of the program's end.
HandIsKnown ==
    /\ inHand = <<>> \/ \E r, b \in Nat : inHand = <<[record |-> r, before |-> b]>>
    /\ inHand # <<>> <=> writer = "send" \/ pc[Main] = "drainSend"

\* The queue is the newest records, in order.
QueueIsRecent ==
    /\ queue \in Seq(Nat) /\ Len(queue) <= pushed
    /\ \A i \in 1..Len(queue) : queue[i] = pushed - Len(queue) + i

\* A record was taken and is not yet counted as delivered.
InFlight == \/ writer \in {"send", "sent"}
            \/ pc[Main] \in {"drainSend", "drainSent"}

\* Every record is delivered, in flight or queued.
AllAccounted == delivered + Len(queue) + (IF InFlight THEN 1 ELSE 0) = pushed

\* Every record was taken, dropped since the last that was, or is queued.
LastTaken    == IF inHand = <<>> THEN written ELSE inHand[1].record
GapIsCounted == /\ dropped + Len(queue) + LastTaken = pushed
                /\ dropped > 0 => queue # <<>>

\* Between the two waits of the writer the queue is not emptied.
Ready == writer \in {"room", "take"} => queue # <<>>

CountsOK == {dropped, pushed, delivered, written} \subseteq Nat

Accounted == /\ CountsOK /\ HandIsKnown /\ QueueIsRecent /\ AllAccounted
             /\ GapIsCounted /\ GapsAreSaid /\ Ready

\* A step that takes, writes and counts nothing.
LEMMA AccountedKept ==
    ASSUME Accounted,
           UNCHANGED <<outbound, inHand, written>>,
           \/ writer' = writer
           \/ /\ {writer, writer'} \cap {"send", "sent"} = {}
              /\ writer' \in {"room", "take"} => queue # <<>>,
           \/ pc'[Main] = pc[Main]
           \/ {pc[Main], pc'[Main]} \cap {"drainSend", "drainSent"} = {}
    PROVE  Accounted'
<1>1. CountsOK' /\ QueueIsRecent' /\ GapIsCounted' /\ GapsAreSaid' /\ Ready'
  BY DEF Accounted, CountsOK, QueueIsRecent, GapIsCounted, LastTaken, GapsAreSaid, Ready,
     outbound
<1>2. HandIsKnown'
  BY DEF Accounted, HandIsKnown
<1>3. InFlight' <=> InFlight
  BY DEF InFlight
<1>4. AllAccounted'
  BY <1>3 DEF Accounted, AllAccounted, outbound
<1>5. QED
  BY <1>1, <1>2, <1>4 DEF Accounted

\* The next record is the one after those that were dropped.
LEMMA TakeAccounts ==
    ASSUME CountsOK, QueueIsRecent, GapIsCounted, inHand = <<>>, queue # <<>>,
           Take, UNCHANGED written
    PROVE  /\ CountsOK' /\ QueueIsRecent' /\ GapIsCounted' /\ GapsAreSaid'
           /\ \E r, b \in Nat : inHand' = <<[record |-> r, before |-> b]>>
           /\ Len(queue') = Len(queue) - 1 /\ UNCHANGED <<delivered, pushed>>
<1> DEFINE n == Len(queue)
<1>1. n \in Nat /\ n > 0 /\ n <= pushed /\ Head(queue) = pushed - n + 1
  BY DEF QueueIsRecent, CountsOK
<1>2. /\ queue' = Tail(queue) /\ dropped' = 0 /\ UNCHANGED <<pushed, delivered>>
      /\ inHand' = <<[record |-> pushed - n + 1, before |-> dropped]>>
  BY <1>1 DEF Take
<1>3. Len(queue') = n - 1 /\ queue' \in Seq(Nat)
  BY <1>1, <1>2 DEF QueueIsRecent
<1>4. \A i \in 1..(n - 1) : queue'[i] = queue[i + 1]
  BY <1>1, <1>2 DEF QueueIsRecent
<1>5. CountsOK' /\ QueueIsRecent'
  <2>1. CountsOK'
    BY <1>2 DEF CountsOK
  <2>2. ASSUME NEW i \in 1..(n - 1) PROVE queue'[i] = pushed' - (n - 1) + i
    <3>1. i + 1 \in 1..n
      BY <1>1
    <3>2. queue[i + 1] = pushed - n + (i + 1)
      BY <3>1 DEF QueueIsRecent
    <3>3. queue'[i] = queue[i + 1]
      BY <1>4
    <3>4. pushed' = pushed /\ pushed \in Nat
      BY <1>2 DEF CountsOK
    <3>5. QED
      BY <1>1, <3>2, <3>3, <3>4
  <2>3. n - 1 <= pushed'
    BY <1>1, <1>2 DEF CountsOK
  <2>4. QED
    BY <1>3, <2>1, <2>2, <2>3 DEF QueueIsRecent
<1>6. pushed - n + 1 \in Nat /\ dropped \in Nat /\ dropped = pushed - n - written
  BY <1>1 DEF CountsOK, GapIsCounted, LastTaken
<1>7. inHand' # <<>> /\ Len(inHand') = 1 /\ inHand'[1] = [record |-> pushed - n + 1, before |-> dropped]
  BY <1>2
<1>8. GapIsCounted'
  BY <1>1, <1>2, <1>3, <1>7 DEF GapIsCounted, LastTaken, CountsOK
<1>9. GapsAreSaid'
  BY <1>1, <1>6, <1>7 DEF GapsAreSaid, CountsOK
<1>10. QED
  BY <1>2, <1>3, <1>5, <1>6, <1>8, <1>9

\* The record in hand is the last on the connection.
LEMMA SendAccounts ==
    ASSUME CountsOK, GapIsCounted, UNCHANGED outbound,
           \E r, b \in Nat : inHand = <<[record |-> r, before |-> b]>>,
           written' = inHand[1].record, inHand' = <<>>
    PROVE  CountsOK' /\ GapIsCounted' /\ GapsAreSaid'
<1>1. PICK r \in Nat, b \in Nat : inHand = <<[record |-> r, before |-> b]>>
  OBVIOUS
<1>2. inHand # <<>> /\ inHand[1].record = r
  BY <1>1
<1>3. written' = r /\ Len(inHand') = 0
  BY <1>2
<1>4. QED
  BY <1>1, <1>2, <1>3 DEF CountsOK, GapIsCounted, LastTaken, GapsAreSaid, outbound

\* A push that drops the oldest keeps the order and counts the gap.
LEMMA PushAccounts ==
    ASSUME NEW t \in Threads, CountsOK, QueueIsRecent, GapIsCounted, Push(t),
           LastTaken \in Nat
    PROVE  /\ CountsOK' /\ QueueIsRecent' /\ GapIsCounted' /\ queue' # <<>>
           /\ delivered' + Len(queue') = delivered + Len(queue) + 1
           /\ pushed' = pushed + 1 /\ UNCHANGED <<inHand, written>>
<1> DEFINE n == Len(queue)
<1> USE StreamAssumption
<1>1. n \in Nat /\ n <= pushed /\ queue \in Seq(Nat) /\ pushed' = pushed + 1 /\ pushed \in Nat
  BY DEF QueueIsRecent, CountsOK, Push
<1>2. UNCHANGED <<inHand, written>>
  BY DEF Push
<1>3. CASE n >= Capacity
  <2>1. queue' = Append(Tail(queue), pushed + 1) /\ dropped' = dropped + 1 /\ delivered' = delivered + 1
    BY <1>3 DEF Push
  <2>2. n > 0 /\ Tail(queue) \in Seq(Nat) /\ Len(Tail(queue)) = n - 1
    BY <1>1, <1>3
  <2>3. \A i \in 1..(n - 1) : Tail(queue)[i] = queue[i + 1]
    BY <1>1, <2>2
  <2>4. Len(queue') = n /\ queue' \in Seq(Nat)
    BY <1>1, <2>1, <2>2
  <2>5. ASSUME NEW i \in 1..n PROVE queue'[i] = pushed' - n + i
    <3>1. CASE i = n
      BY <1>1, <2>1, <2>2, <3>1
    <3>2. CASE i # n
      <4>1. i \in 1..(n - 1) /\ i + 1 \in 1..n
        BY <1>1, <3>2
      <4>2. queue'[i] = queue[i + 1]
        BY <1>1, <2>1, <2>2, <2>3, <4>1
      <4>3. queue[i + 1] = pushed - n + (i + 1)
        BY <4>1 DEF QueueIsRecent
      <4>4. QED
        BY <1>1, <4>2, <4>3
    <3>3. QED
      BY <3>1, <3>2
  <2>6. QueueIsRecent'
    BY <1>1, <2>4, <2>5 DEF QueueIsRecent
  <2>7. queue' # <<>>
    BY <2>2, <2>4
  <2>8. CountsOK'
    BY <1>1, <1>2, <2>1 DEF CountsOK
  <2>9. dropped' + Len(queue') + LastTaken' = pushed'
    <3>1. LastTaken' = LastTaken
      BY <1>2 DEF LastTaken
    <3>2. dropped + n + LastTaken = pushed /\ dropped \in Nat
      BY DEF GapIsCounted, CountsOK
    <3>3. QED
      BY <1>1, <2>1, <2>4, <3>1, <3>2
  <2>10. delivered' + Len(queue') = delivered + Len(queue) + 1
    BY <1>1, <2>1, <2>4 DEF CountsOK
  <2>11. QED
    BY <1>1, <1>2, <2>6, <2>7, <2>8, <2>9, <2>10 DEF GapIsCounted
<1>4. CASE ~(n >= Capacity)
  <2>1. queue' = Append(queue, pushed + 1) /\ UNCHANGED <<dropped, delivered>>
    BY <1>4 DEF Push
  <2>2. Len(queue') = n + 1 /\ queue' \in Seq(Nat)
    BY <1>1, <2>1
  <2>3. ASSUME NEW i \in 1..(n + 1) PROVE queue'[i] = pushed' - (n + 1) + i
    <3>1. CASE i = n + 1
      BY <1>1, <2>1, <3>1
    <3>2. CASE i # n + 1
      <4>1. i \in 1..n
        BY <1>1, <3>2
      <4>2. queue'[i] = queue[i] /\ queue[i] = pushed - n + i
        BY <1>1, <2>1, <4>1 DEF QueueIsRecent
      <4>3. QED
        BY <1>1, <4>2
    <3>3. QED
      BY <3>1, <3>2
  <2>4. QueueIsRecent'
    BY <1>1, <2>2, <2>3 DEF QueueIsRecent
  <2>5. queue' # <<>>
    BY <1>1, <2>2
  <2>6. CountsOK'
    BY <1>1, <1>2, <2>1 DEF CountsOK
  <2>7. dropped' + Len(queue') + LastTaken' = pushed'
    <3>1. LastTaken' = LastTaken
      BY <1>2 DEF LastTaken
    <3>2. dropped + n + LastTaken = pushed /\ dropped \in Nat
      BY DEF GapIsCounted, CountsOK
    <3>3. QED
      BY <1>1, <2>1, <2>2, <3>1, <3>2
  <2>8. delivered' + Len(queue') = delivered + Len(queue) + 1
    BY <1>1, <2>1, <2>2 DEF CountsOK
  <2>9. QED
    BY <1>1, <1>2, <2>4, <2>5, <2>6, <2>7, <2>8 DEF GapIsCounted
<1>5. QED
  BY <1>3, <1>4

\* The last record taken is a number.
LEMMA HandIsNumbered ==
    ASSUME CountsOK, HandIsKnown PROVE LastTaken \in Nat
<1>1. CASE inHand = <<>>
  BY <1>1 DEF LastTaken, CountsOK
<1>2. CASE inHand # <<>>
  <2>1. PICK r \in Nat, b \in Nat : inHand = <<[record |-> r, before |-> b]>>
    BY <1>2 DEF HandIsKnown
  <2>2. QED
    BY <1>2, <2>1 DEF LastTaken
<1>3. QED
  BY <1>1, <1>2

\* Every step accounts for every record.
LEMMA AccountedStep ==
    ASSUME ~FreeThreaded, StoodDown, Ended, Accounted, [Next]_vars PROVE Accounted'
<1> USE StreamAssumption DEF DrainPlaces
<1> pc \in [Threads -> Places] /\ Main \in Threads
  BY DEF StoodDown, ShapeOK
<1>1. CASE WatchOff
  BY <1>1, AccountedKept DEF WatchOff, thread, outbound, Ended, EndIsMains, EndPlaces
<1>2. ASSUME NEW t \in Threads, Announce(t) PROVE Accounted'
  BY <1>2, AccountedKept DEF Announce, Goto, thread, outbound, Ended, EndIsMains, EndPlaces
<1>3. ASSUME NEW t \in Threads, NotARecord(t) PROVE Accounted'
  BY <1>3, AccountedKept DEF NotARecord, Goto, thread, outbound, Ended, EndIsMains,
     EndPlaces
<1>4. CASE WriterLook
  BY <1>4, AccountedKept DEF WriterLook, thread, outbound, Ended, EndIsMains, EndPlaces
<1>5. CASE WriterRoom
  BY <1>5, AccountedKept DEF WriterRoom, Accounted, Ready, thread, outbound, Ended,
     EndIsMains, EndPlaces
<1>6. ASSUME NEW t \in Threads, BeginStop(t) PROVE Accounted'
  BY <1>6, AccountedKept DEF BeginStop, Goto, thread, outbound, Ended, EndIsMains, EndPlaces
<1>7. ASSUME NEW t \in Threads, FlushWanted(t) PROVE Accounted'
  BY <1>7, AccountedKept DEF FlushWanted, Goto, thread, outbound, Ended, EndIsMains,
     EndPlaces
<1>8. ASSUME NEW t \in Threads, FlushAim(t) PROVE Accounted'
  BY <1>8, AccountedKept DEF FlushAim, Goto, thread, outbound, Ended, EndIsMains, EndPlaces
<1>9. ASSUME NEW t \in Threads, FlushCheck(t) PROVE Accounted'
  BY <1>9, AccountedKept DEF FlushCheck, Goto, thread, outbound, Ended, EndIsMains,
     EndPlaces
<1>10. ASSUME NEW t \in Threads, Report(t) PROVE Accounted'
  BY <1>10, AccountedKept DEF Report, Goto, thread, outbound, Ended, EndIsMains, EndPlaces
<1>11. ASSUME NEW t \in Threads, Stood(t) PROVE Accounted'
  BY <1>11, AccountedKept DEF Stood, Goto, thread, outbound, Ended, EndIsMains, EndPlaces
<1>12. ASSUME NEW t \in Threads, StandDown(t) PROVE Accounted'
  BY <1>12, AccountedKept DEF StandDown, Goto, Tell, Alone, OnToFork, thread, outbound,
     Ended, EndIsMains, EndPlaces
<1>13. ASSUME NEW t \in Threads, Joined(t) PROVE Accounted'
  BY <1>13, AccountedKept DEF Joined, Goto, OnToFork, thread, outbound, Ended, EndIsMains,
     EndPlaces
<1>14. CASE Finish
  BY <1>14, AccountedKept DEF Finish, Goto, thread, outbound, Ended, EndIsMains, EndPlaces
<1>15. CASE FinishStops
  BY <1>15, AccountedKept DEF FinishStops, Goto, Tell, Alone, thread, outbound, Ended,
     EndIsMains, EndPlaces
<1>16. CASE WatchOn
  <2>1. writer' = writer \/ (writer = "off" /\ writer' = "look")
    <3>1. ~running => writer = "off"
      BY <1>16 DEF WatchOn, StoodDown, WriterIsKnown
    <3>2. writer' = writer \/ (~running /\ writer' = "look")
      BY <1>16 DEF WatchOn
    <3>3. QED
      BY <3>1, <3>2
  <2>2. QED
    BY <1>16, <2>1, AccountedKept DEF WatchOn, outbound
<1>17. ASSUME NEW t \in Threads, Resume(t) PROVE Accounted'
  <2>1. writer = "off"
    BY <1>17, StoodDownIsOff DEF Resume, WriterIsOff
  <2>2. writer' = writer \/ writer' = "look"
    BY <1>17 DEF Resume
  <2>3. QED
    BY <1>17, <2>1, <2>2, AccountedKept DEF Resume, Goto, outbound
<1>18. ASSUME NEW t \in Threads, Push(t) PROVE Accounted'
  <2>1. LastTaken \in Nat
    BY HandIsNumbered DEF Accounted
  <2>2. /\ CountsOK' /\ QueueIsRecent' /\ GapIsCounted' /\ queue' # <<>>
        /\ delivered' + Len(queue') = delivered + Len(queue) + 1
        /\ pushed' = pushed + 1 /\ UNCHANGED <<inHand, written>>
    BY <1>18, <2>1, PushAccounts DEF Accounted
  <2>3. pc'[Main] = pc[Main] \/ {pc[Main], pc'[Main]} \cap {"drainSend", "drainSent"} = {}
    BY <1>18 DEF Push, Goto, DrainedThen
  <2>4. writer' = writer \/ (writer = "asleep" /\ writer' = "look")
    <3>1. writer' = IF writer = "asleep" THEN "look" ELSE writer
      BY <1>18 DEF Push
    <3>2. QED
      BY <3>1
  <2>5. HandIsKnown' /\ (InFlight' <=> InFlight)
    BY <2>2, <2>3, <2>4 DEF Accounted, HandIsKnown, InFlight
  <2>6. AllAccounted'
    BY <2>2, <2>5 DEF Accounted, AllAccounted, CountsOK, QueueIsRecent
  <2>7. GapsAreSaid' /\ Ready'
    BY <2>2 DEF Accounted, GapsAreSaid, Ready
  <2>8. QED
    BY <2>2, <2>5, <2>6, <2>7 DEF Accounted
<1>19. CASE WriterTake
  <2>1. /\ writer = "take" /\ queue # <<>> /\ Take /\ writer' = "send"
        /\ UNCHANGED <<pc, written>> /\ pc[Main] \notin DrainPlaces
    BY <1>19 DEF WriterTake, Ended, NothingWrites, Goto
  <2>2. ~InFlight /\ inHand = <<>>
    BY <2>1 DEF Accounted, HandIsKnown, InFlight
  <2>3. /\ CountsOK' /\ QueueIsRecent' /\ GapIsCounted' /\ GapsAreSaid'
        /\ \E r, b \in Nat : inHand' = <<[record |-> r, before |-> b]>>
        /\ Len(queue') = Len(queue) - 1 /\ UNCHANGED <<delivered, pushed>>
    BY <2>1, <2>2, TakeAccounts DEF Accounted
  <2>4. InFlight' /\ Ready'
    BY <2>1 DEF InFlight, Ready
  <2>5. HandIsKnown'
    BY <2>1, <2>3 DEF HandIsKnown
  <2>6. AllAccounted'
    BY <2>2, <2>3, <2>4 DEF Accounted, AllAccounted, CountsOK, QueueIsRecent
  <2>7. QED
    BY <2>3, <2>4, <2>5, <2>6 DEF Accounted
<1>20. CASE Drain
  <2>1. CASE queue = <<>>
    BY <1>20, <2>1, AccountedKept DEF Drain, Goto, outbound
  <2>2. CASE queue # <<>>
    <3>1. /\ pc[Main] = "drain" /\ queue # <<>> /\ Take /\ pc'[Main] = "drainSend"
          /\ writer = "off" /\ UNCHANGED <<writer, written>>
      BY <1>20, <2>2 DEF Drain, Ended, NothingWrites, Goto
    <3>2. ~InFlight /\ inHand = <<>>
      BY <3>1 DEF Accounted, HandIsKnown, InFlight
    <3>3. /\ CountsOK' /\ QueueIsRecent' /\ GapIsCounted' /\ GapsAreSaid'
          /\ \E r, b \in Nat : inHand' = <<[record |-> r, before |-> b]>>
          /\ Len(queue') = Len(queue) - 1 /\ UNCHANGED <<delivered, pushed>>
      BY <3>1, <3>2, TakeAccounts DEF Accounted
    <3>4. InFlight' /\ Ready'
      BY <3>1 DEF InFlight, Ready
    <3>5. HandIsKnown'
      BY <3>1, <3>3 DEF HandIsKnown
    <3>6. AllAccounted'
      BY <3>2, <3>3, <3>4 DEF Accounted, AllAccounted, CountsOK, QueueIsRecent
    <3>7. QED
      BY <3>3, <3>4, <3>5, <3>6 DEF Accounted
  <2>3. QED
    BY <2>1, <2>2
<1>21. CASE WriterSend
  <2>1. /\ writer = "send" /\ writer' = "sent" /\ pc[Main] \notin DrainPlaces
        /\ UNCHANGED <<outbound, pc>> /\ written' = inHand[1].record /\ inHand' = <<>>
    BY <1>21 DEF WriterSend, Ended, NothingWrites, Goto, outbound
  <2>2. InFlight /\ InFlight' /\ (\E r, b \in Nat : inHand = <<[record |-> r, before |-> b]>>)
    BY <2>1 DEF Accounted, HandIsKnown, InFlight
  <2>3. CountsOK' /\ GapIsCounted' /\ GapsAreSaid'
    BY <2>1, <2>2, SendAccounts DEF Accounted
  <2>4. HandIsKnown' /\ QueueIsRecent' /\ Ready'
    BY <2>1 DEF Accounted, HandIsKnown, QueueIsRecent, Ready, outbound
  <2>5. AllAccounted'
    BY <2>1, <2>2 DEF Accounted, AllAccounted, outbound
  <2>6. QED
    BY <2>3, <2>4, <2>5 DEF Accounted
<1>22. CASE DrainSend
  <2>1. /\ pc[Main] = "drainSend" /\ pc'[Main] = "drainSent" /\ writer = "off"
        /\ UNCHANGED <<outbound, writer>> /\ written' = inHand[1].record /\ inHand' = <<>>
    BY <1>22 DEF DrainSend, Ended, NothingWrites, Goto, outbound
  <2>2. InFlight /\ InFlight' /\ (\E r, b \in Nat : inHand = <<[record |-> r, before |-> b]>>)
    BY <2>1 DEF Accounted, HandIsKnown, InFlight
  <2>3. CountsOK' /\ GapIsCounted' /\ GapsAreSaid'
    BY <2>1, <2>2, SendAccounts DEF Accounted
  <2>4. HandIsKnown' /\ QueueIsRecent' /\ Ready'
    BY <2>1 DEF Accounted, HandIsKnown, QueueIsRecent, Ready, outbound
  <2>5. AllAccounted'
    BY <2>1, <2>2 DEF Accounted, AllAccounted, outbound
  <2>6. QED
    BY <2>3, <2>4, <2>5 DEF Accounted
<1>23. CASE WriterWritten
  <2>1. /\ writer = "sent" /\ writer' = "look" /\ pc[Main] \notin DrainPlaces
        /\ pc'[Main] \notin {"drainSend", "drainSent"} /\ delivered' = delivered + 1
        /\ UNCHANGED <<queue, dropped, pushed, inHand, written>>
    BY <1>23 DEF WriterWritten, Drained, Ended, NothingWrites
  <2>2. InFlight /\ ~InFlight'
    BY <2>1 DEF InFlight
  <2>3. HandIsKnown' /\ QueueIsRecent' /\ Ready' /\ GapIsCounted' /\ GapsAreSaid'
    BY <2>1 DEF Accounted, HandIsKnown, QueueIsRecent, Ready, GapIsCounted, LastTaken,
       GapsAreSaid
  <2>4. CountsOK'
    BY <2>1 DEF Accounted, CountsOK
  <2>5. AllAccounted'
    BY <2>1, <2>2 DEF Accounted, AllAccounted, CountsOK, QueueIsRecent
  <2>6. QED
    BY <2>3, <2>4, <2>5 DEF Accounted
<1>24. CASE DrainWritten
  <2>1. /\ pc[Main] = "drainSent" /\ pc'[Main] = "drain" /\ writer = "off"
        /\ delivered' = delivered + 1
        /\ UNCHANGED <<queue, dropped, pushed, inHand, written, writer>>
    BY <1>24 DEF DrainWritten, DrainedThen, Ended, NothingWrites
  <2>2. InFlight /\ ~InFlight'
    BY <2>1 DEF InFlight
  <2>3. HandIsKnown' /\ QueueIsRecent' /\ Ready' /\ GapIsCounted' /\ GapsAreSaid'
    BY <2>1 DEF Accounted, HandIsKnown, QueueIsRecent, Ready, GapIsCounted, LastTaken,
       GapsAreSaid
  <2>4. CountsOK'
    BY <2>1 DEF Accounted, CountsOK
  <2>5. AllAccounted'
    BY <2>1, <2>2 DEF Accounted, AllAccounted, CountsOK, QueueIsRecent
  <2>6. QED
    BY <2>3, <2>4, <2>5 DEF Accounted
<1>25. CASE UNCHANGED vars
  BY <1>25, AccountedKept DEF vars, outbound
<1>26. QED
  BY <1>1, <1>2, <1>3, <1>4, <1>5, <1>6, <1>7, <1>8, <1>9, <1>10, <1>11, <1>12, <1>13,
     <1>14, <1>15, <1>16, <1>17, <1>18, <1>19, <1>20, <1>21, <1>22, <1>23, <1>24, <1>25
  DEF Next, Ends, Writes, Flushes, Forks

-----------------------------------------------------------------------------
(***************************************************************************)
(* With a GIL: what a flush waits for.                                     *)
(***************************************************************************)

\* A stop is reported when as much is delivered as it waited for.
Aimed ==
    /\ target \in [Threads -> Nat]
    /\ \A t \in Threads : /\ target[t] # 0 => pc[t] \in {"asleep", "check", "report"}
                          /\ pc[t] = "report" => delivered >= target[t]

\* A step that leaves the flushes where they are, but for waking them.
LEMMA AimedKept ==
    ASSUME Aimed, UNCHANGED target, delivered \in Nat, delivered' \in Nat, delivered' >= delivered,
           \A t \in Threads : \/ pc'[t] = pc[t]
                              \/ pc[t] = "asleep" /\ pc'[t] = "check"
                              \/ /\ pc[t]  \notin {"asleep", "check", "report"}
                                 /\ pc'[t] \notin {"asleep", "check", "report"}
    PROVE  Aimed'
BY DEF Aimed

\* A flush is over when its target is reached, or has none.
LEMMA AimedStep ==
    ASSUME StoodDown, Accounted, Accounted', Aimed, [Next]_vars PROVE Aimed'
<1> USE StreamAssumption
<1> pc \in [Threads -> Places] /\ delivered \in Nat /\ delivered' \in Nat
  BY DEF StoodDown, ShapeOK, Accounted, CountsOK
<1>1. CASE WatchOn
  BY <1>1, AimedKept DEF WatchOn, thread, outbound
<1>2. CASE WatchOff
  BY <1>2, AimedKept DEF WatchOff, thread, outbound
<1>3. ASSUME NEW t \in Threads, Announce(t) PROVE Aimed'
  BY <1>3, AimedKept DEF Announce, Goto, thread, outbound
<1>4. ASSUME NEW t \in Threads, Push(t) PROVE Aimed'
  BY <1>4, AimedKept DEF Push, Goto, DrainedThen, thread, outbound
<1>5. ASSUME NEW t \in Threads, NotARecord(t) PROVE Aimed'
  BY <1>5, AimedKept DEF NotARecord, Goto, thread, outbound
<1>6. CASE WriterLook
  BY <1>6, AimedKept DEF WriterLook, thread, outbound
<1>7. CASE WriterRoom
  BY <1>7, AimedKept DEF WriterRoom, thread, outbound
<1>8. CASE WriterTake
  BY <1>8, AimedKept DEF WriterTake, Take, thread, outbound
<1>9. CASE WriterSend
  BY <1>9, AimedKept DEF WriterSend, thread, outbound
<1>10. CASE WriterWritten
  BY <1>10, AimedKept DEF WriterWritten, Drained, thread, outbound
<1>11. ASSUME NEW t \in Threads, BeginStop(t) PROVE Aimed'
  BY <1>11, AimedKept DEF BeginStop, Goto, thread, outbound
<1>12. ASSUME NEW t \in Threads, Stood(t) PROVE Aimed'
  BY <1>12, AimedKept DEF Stood, Goto, thread, outbound
<1>13. ASSUME NEW t \in Threads, StandDown(t) PROVE Aimed'
  BY <1>13, AimedKept DEF StandDown, Goto, OnToFork, thread, outbound
<1>14. ASSUME NEW t \in Threads, Joined(t) PROVE Aimed'
  BY <1>14, AimedKept DEF Joined, Goto, OnToFork, thread, outbound
<1>15. ASSUME NEW t \in Threads, Resume(t) PROVE Aimed'
  BY <1>15, AimedKept DEF Resume, Goto, thread, outbound
<1>16. CASE Finish
  BY <1>16, AimedKept DEF Finish, Goto, thread, outbound
<1>17. CASE FinishStops
  BY <1>17, AimedKept DEF FinishStops, Goto, thread, outbound
<1>18. CASE Drain
  BY <1>18, AimedKept DEF Drain, Goto, Take, thread, outbound
<1>19. CASE DrainSend
  BY <1>19, AimedKept DEF DrainSend, Goto, thread, outbound
<1>20. CASE DrainWritten
  BY <1>20, AimedKept DEF DrainWritten, DrainedThen, thread, outbound
<1>21. ASSUME NEW t \in Threads, FlushWanted(t) PROVE Aimed'
  BY <1>21 DEF Aimed, Goto, outbound, Accounted, CountsOK, FlushWanted
<1>22. ASSUME NEW t \in Threads, FlushAim(t) PROVE Aimed'
  BY <1>22 DEF Aimed, Goto, outbound, Accounted, CountsOK, FlushAim
<1>23. ASSUME NEW t \in Threads, FlushCheck(t) PROVE Aimed'
  BY <1>23 DEF Aimed, Goto, outbound, Accounted, CountsOK, FlushCheck
<1>24. ASSUME NEW t \in Threads, Report(t) PROVE Aimed'
  BY <1>24 DEF Aimed, Goto, outbound, Accounted, CountsOK, Report
<1>25. CASE UNCHANGED vars
  BY <1>25, AimedKept DEF vars, outbound
<1>26. QED
  BY <1>1, <1>2, <1>3, <1>4, <1>5, <1>6, <1>7, <1>8, <1>9, <1>10, <1>11, <1>12, <1>13,
     <1>14, <1>15, <1>16, <1>17, <1>18, <1>19, <1>20, <1>21, <1>22, <1>23, <1>24, <1>25
  DEF Next, Ends, Writes, Flushes, Forks

\* Once the rest is written, nothing is queued again.
NothingLeft == pc[Main] = "over" => queue = <<>>

\* Whoever might push has been through the hook before the end began.
LEMMA NothingLeftStep ==
    ASSUME StoodDown, Ended, NothingLeft, [Next]_vars PROVE NothingLeft'
<1> USE StreamAssumption DEF NothingLeft
<1> pc \in [Threads -> Places]
  BY DEF StoodDown, ShapeOK
<1>1. CASE WatchOn
  BY <1>1 DEF WatchOn, outbound
<1>2. CASE WatchOff
  BY <1>2 DEF WatchOff, outbound
<1>3. ASSUME NEW t \in Threads, Announce(t) PROVE NothingLeft'
  BY <1>3 DEF Announce, Goto, outbound
<1>4. ASSUME NEW t \in Threads, Push(t) PROVE NothingLeft'
  BY <1>4 DEF Push, Goto, DrainedThen, Ended, NothingComes, EndPlaces, DrainPlaces, outbound
<1>5. ASSUME NEW t \in Threads, NotARecord(t) PROVE NothingLeft'
  BY <1>5 DEF NotARecord, Goto, outbound
<1>6. CASE WriterLook
  BY <1>6 DEF WriterLook, outbound
<1>7. CASE WriterRoom
  BY <1>7 DEF WriterRoom, outbound
<1>8. CASE WriterTake
  BY <1>8 DEF WriterTake, Take, Ended, NothingWrites, DrainPlaces, outbound
<1>9. CASE WriterSend
  BY <1>9 DEF WriterSend, outbound
<1>10. CASE WriterWritten
  BY <1>10 DEF WriterWritten, Drained, outbound
<1>11. ASSUME NEW t \in Threads, BeginStop(t) PROVE NothingLeft'
  BY <1>11 DEF BeginStop, Goto, outbound
<1>12. ASSUME NEW t \in Threads, FlushWanted(t) PROVE NothingLeft'
  BY <1>12 DEF FlushWanted, Goto, outbound
<1>13. ASSUME NEW t \in Threads, FlushAim(t) PROVE NothingLeft'
  BY <1>13 DEF FlushAim, Goto, outbound
<1>14. ASSUME NEW t \in Threads, FlushCheck(t) PROVE NothingLeft'
  BY <1>14 DEF FlushCheck, Goto, outbound
<1>15. ASSUME NEW t \in Threads, Report(t) PROVE NothingLeft'
  BY <1>15 DEF Report, Goto, outbound
<1>16. ASSUME NEW t \in Threads, Stood(t) PROVE NothingLeft'
  BY <1>16 DEF Stood, Goto, outbound
<1>17. ASSUME NEW t \in Threads, StandDown(t) PROVE NothingLeft'
  BY <1>17 DEF StandDown, Goto, OnToFork, outbound
<1>18. ASSUME NEW t \in Threads, Joined(t) PROVE NothingLeft'
  BY <1>18 DEF Joined, Goto, OnToFork, outbound
<1>19. ASSUME NEW t \in Threads, Resume(t) PROVE NothingLeft'
  BY <1>19 DEF Resume, Goto, outbound
<1>20. CASE Finish
  BY <1>20 DEF Finish, Goto, outbound
<1>21. CASE FinishStops
  BY <1>21 DEF FinishStops, Goto, outbound
<1>22. CASE Drain
  BY <1>22 DEF Drain, Goto, Take, outbound
<1>23. CASE DrainSend
  BY <1>23 DEF DrainSend, Goto, outbound
<1>24. CASE DrainWritten
  BY <1>24 DEF DrainWritten, DrainedThen, outbound
<1>25. CASE UNCHANGED vars
  BY <1>25 DEF vars, outbound
<1>26. QED
  BY <1>1, <1>2, <1>3, <1>4, <1>5, <1>6, <1>7, <1>8, <1>9, <1>10, <1>11, <1>12, <1>13,
     <1>14, <1>15, <1>16, <1>17, <1>18, <1>19, <1>20, <1>21, <1>22, <1>23, <1>24, <1>25
  DEF Next, Ends, Writes, Flushes, Forks

\* The invariants of every behaviour with a GIL.
LEMMA AccountedAlways ==
    ASSUME ~FreeThreaded
    PROVE  Spec => [](Ended /\ Accounted /\ Aimed /\ NothingLeft)
<1>1. Init => Ended /\ Accounted /\ Aimed /\ NothingLeft
  <2> SUFFICES ASSUME Init PROVE Ended /\ Accounted /\ Aimed /\ NothingLeft
    OBVIOUS
  <2>1. Ended
    BY StreamAssumption
    DEF Init, Ended, OneInterprets, EndIsMains, NothingComes, NothingStarts, NothingWrites,
        Interpreting, DrainPlaces, EndPlaces
  <2>2. ~InFlight
    BY StreamAssumption DEF Init, InFlight
  <2>3. CountsOK /\ HandIsKnown /\ GapIsCounted /\ GapsAreSaid /\ Ready /\ QueueIsRecent
    BY StreamAssumption
    DEF Init, CountsOK, HandIsKnown, GapIsCounted, LastTaken, GapsAreSaid, Ready,
       QueueIsRecent
  <2>4. AllAccounted
    BY <2>2 DEF Init, AllAccounted
  <2>5. Aimed
    BY DEF Init, Aimed
  <2>6. QED
    BY <2>1, <2>3, <2>4, <2>5 DEF Init, Accounted, NothingLeft
<1>2. StoodDown /\ Ended /\ Accounted /\ Aimed /\ NothingLeft /\ [Next]_vars
         => (Ended /\ Accounted /\ Aimed /\ NothingLeft)'
  BY EndedStep, AccountedStep, AimedStep, NothingLeftStep
<1>3. QED
  BY <1>1, <1>2, StoodDownAlways, PTL DEF Spec

\* With a GIL, a record that is written says how many were dropped before it, for
\* every capacity (stream::Outbound).
THEOREM EveryGapIsSaid ==
    ASSUME ~FreeThreaded PROVE Spec => []GapsAreSaid
<1>1. Accounted => GapsAreSaid
  BY DEF Accounted
<1>2. QED
  BY <1>1, AccountedAlways, PTL

\* With a GIL, the writer takes a record whenever it goes to take one: what the
\* code says cannot happen does not (stream::write_records).
THEOREM TakeAlwaysFindsOne ==
    ASSUME ~FreeThreaded PROVE Spec => []TakeFindsOne
<1>1. Accounted => TakeFindsOne
  BY DEF Accounted, Ready, TakeFindsOne
<1>2. QED
  BY <1>1, AccountedAlways, PTL

\* With a GIL, a stop is reported after everything still queued that was queued
\* when it began (stream::flush).
THEOREM StopsFollowTheQueue ==
    ASSUME ~FreeThreaded PROVE Spec => []StopFollowsQueue
<1>1. Accounted /\ Aimed => StopFollowsQueue
  <2> SUFFICES ASSUME Accounted, Aimed, NEW t \in Threads, pc[t] = "report",
                      NEW i \in 1..Len(queue)
               PROVE  queue[i] > target[t]
    BY DEF StopFollowsQueue
  <2>1. queue[i] = pushed - Len(queue) + i /\ Len(queue) \in Nat
    BY DEF Accounted, QueueIsRecent
  <2>2. target[t] <= delivered /\ target[t] \in Nat
    BY DEF Aimed
  <2>3. delivered + Len(queue) <= pushed /\ delivered \in Nat /\ pushed \in Nat
    BY <2>1 DEF Accounted, AllAccounted, CountsOK
  <2>4. QED
    BY <2>1, <2>2, <2>3
<1>2. QED
  BY <1>1, AccountedAlways, PTL

\* With a GIL, the end of the program is reported with every record written or
\* said to be missing (stream::finish).
THEOREM TheEndAccounts ==
    ASSUME ~FreeThreaded PROVE Spec => []EndAccounts
<1>1. Ended /\ Accounted /\ NothingLeft => EndAccounts
  <2> SUFFICES ASSUME Ended, Accounted, NothingLeft, pc[Main] = "over"
               PROVE  queue = <<>> /\ inHand = <<>> /\ delivered = pushed /\ dropped = 0
    BY DEF EndAccounts
  <2>1. queue = <<>> /\ Len(queue) = 0
    BY DEF NothingLeft
  <2>2. writer = "off" /\ ~InFlight
    BY DEF Ended, NothingWrites, DrainPlaces, InFlight
  <2>3. inHand = <<>>
    BY <2>2 DEF Accounted, HandIsKnown
  <2>4. delivered = pushed
    BY <2>1, <2>2 DEF Accounted, AllAccounted, CountsOK
  <2>5. dropped = 0
    BY <2>1 DEF Accounted, GapIsCounted, CountsOK
  <2>6. QED
    BY <2>1, <2>3, <2>4, <2>5
<1>2. QED
  BY <1>1, AccountedAlways, PTL

-----------------------------------------------------------------------------
(***************************************************************************)
(* With a GIL: the types.                                                  *)
(***************************************************************************)

WriterPlaces == {"off", "look", "asleep", "room", "take", "send", "sent", "gone"}

\* What the other invariants leave of TypeOK.
Bounds == /\ {watching, stopping} \subseteq BOOLEAN
          /\ queue \in Seq(1..MaxRecords) /\ Len(queue) <= Capacity
          /\ pushed <= MaxRecords
          /\ wakeup \in 0..1 /\ (writerLock = "nobody" => wakeup = 0)
          /\ writer \in WriterPlaces
          /\ \A t \in Threads : target[t] <= pushed
          /\ begun \in [stops : 0..MaxStops, forks : 0..MaxForks]

\* The queue keeps to CAPACITY, and the wakeup pair to one byte.
LEMMA BoundsStep ==
    ASSUME StoodDown, Accounted, Aimed, Bounds, [Next]_vars PROVE Bounds'
<1> USE StreamAssumption DEF Bounds, WriterPlaces
<1> /\ pc \in [Threads -> Places] /\ target \in [Threads -> Nat]
    /\ pushed \in Nat /\ MaxRecords \in Nat /\ MaxStops \in Nat /\ MaxForks \in Nat
  BY DEF StoodDown, ShapeOK, Accounted, CountsOK, QueueIsRecent, Aimed
<1>1. CASE WatchOn
  BY <1>1 DEF WatchOn, outbound, thread
<1>2. CASE WatchOff
  BY <1>2 DEF WatchOff, outbound, thread
<1>3. ASSUME NEW t \in Threads, Announce(t) PROVE Bounds'
  BY <1>3 DEF Announce, Goto, outbound, thread
<1>4. ASSUME NEW t \in Threads, Push(t) PROVE Bounds'
  <2>1. /\ pushed' = pushed + 1 /\ pushed' <= MaxRecords
        /\ UNCHANGED <<watching, stopping, wakeup, writerLock, target, begun>>
    BY <1>4 DEF Push, thread
  <2>2. queue' \in Seq(1..MaxRecords) /\ Len(queue') <= Capacity
    <3>1. pushed + 1 \in 1..MaxRecords
      BY <2>1
    <3>2. CASE Len(queue) >= Capacity
      <4>1. queue' = Append(Tail(queue), pushed + 1)
        BY <1>4, <3>2 DEF Push
      <4>2. Tail(queue) \in Seq(1..MaxRecords) /\ Len(Tail(queue)) = Len(queue) - 1
        BY <3>2
      <4>3. QED
        BY <3>1, <4>1, <4>2
    <3>3. CASE ~(Len(queue) >= Capacity)
      <4>1. queue' = Append(queue, pushed + 1)
        BY <1>4, <3>3 DEF Push
      <4>2. QED
        BY <3>1, <3>3, <4>1
    <3>4. QED
      BY <3>2, <3>3
  <2>3. writer' \in WriterPlaces
    BY <1>4 DEF Push
  <2>4. QED
    BY <2>1, <2>2, <2>3
<1>5. ASSUME NEW t \in Threads, NotARecord(t) PROVE Bounds'
  BY <1>5 DEF NotARecord, Goto, outbound, thread
<1>6. CASE WriterLook
  BY <1>6 DEF WriterLook, outbound, thread
<1>7. CASE WriterRoom
  BY <1>7 DEF WriterRoom, outbound, thread
<1>8. CASE WriterTake
  BY <1>8 DEF WriterTake, Take, outbound, thread
<1>9. CASE WriterSend
  BY <1>9 DEF WriterSend, outbound, thread
<1>10. CASE WriterWritten
  BY <1>10 DEF WriterWritten, outbound, thread
<1>11. ASSUME NEW t \in Threads, BeginStop(t) PROVE Bounds'
  <2>1. begun' = [begun EXCEPT !.stops = begun.stops + 1] /\ begun.stops < MaxStops
    BY <1>11 DEF BeginStop
  <2>2. begun' \in [stops : 0..MaxStops, forks : 0..MaxForks]
    <3>1. begun.stops \in 0..MaxStops /\ begun.forks \in 0..MaxForks
      OBVIOUS
    <3>2. begun.stops + 1 \in 0..MaxStops
      BY <2>1, <3>1
    <3>3. begun' = [stops |-> begun.stops + 1, forks |-> begun.forks]
      BY <2>1
    <3>4. QED
      BY <3>1, <3>2, <3>3
  <2>3. QED
    BY <1>11, <2>2 DEF BeginStop, outbound, thread
<1>12. ASSUME NEW t \in Threads, FlushWanted(t) PROVE Bounds'
  BY <1>12 DEF FlushWanted, Goto, outbound, thread
<1>13. ASSUME NEW t \in Threads, FlushAim(t) PROVE Bounds'
  BY <1>13 DEF FlushAim, Goto, outbound, thread
<1>14. ASSUME NEW t \in Threads, FlushCheck(t) PROVE Bounds'
  BY <1>14 DEF FlushCheck, Goto, outbound, thread
<1>15. ASSUME NEW t \in Threads, Report(t) PROVE Bounds'
  BY <1>15 DEF Report, Goto, outbound, thread
<1>16. ASSUME NEW t \in Threads, Stood(t) PROVE Bounds'
  BY <1>16 DEF Stood, Goto, outbound, thread
<1>17. ASSUME NEW t \in Threads, StandDown(t) PROVE Bounds'
  <2>1. begun' = [begun EXCEPT !.forks = begun.forks + 1] /\ begun.forks < MaxForks
    BY <1>17 DEF StandDown
  <2>2. begun' \in [stops : 0..MaxStops, forks : 0..MaxForks]
    <3>1. begun.stops \in 0..MaxStops /\ begun.forks \in 0..MaxForks
      OBVIOUS
    <3>2. begun.forks + 1 \in 0..MaxForks
      BY <2>1, <3>1
    <3>3. begun' = [stops |-> begun.stops, forks |-> begun.forks + 1]
      BY <2>1
    <3>4. QED
      BY <3>1, <3>2, <3>3
  <2>3. /\ UNCHANGED <<watching, outbound, target>> /\ writerLock = "nobody"
        /\ \/ UNCHANGED <<writerLock, stopping, wakeup, writer>>
           \/ /\ writerLock' = t /\ stopping' = TRUE /\ wakeup' = wakeup + 1
              /\ writer' = IF writer = "asleep" THEN "look" ELSE writer
    BY <1>17 DEF StandDown, Tell, Alone
  <2>4. stopping' \in BOOLEAN /\ watching' \in BOOLEAN /\ writer' \in WriterPlaces
    BY <2>3
  <2>5. wakeup' \in 0..1 /\ (writerLock' = "nobody" => wakeup' = 0)
    BY <2>3
  <2>6. QED
    BY <2>2, <2>3, <2>4, <2>5 DEF outbound
<1>18. ASSUME NEW t \in Threads, Joined(t) PROVE Bounds'
  <2>1. /\ UNCHANGED <<watching, outbound, target, begun>>
        /\ writer' = "off" /\ wakeup' = 0 /\ stopping' = FALSE
    BY <1>18 DEF Joined
  <2>2. stopping' \in BOOLEAN /\ watching' \in BOOLEAN
    BY <2>1
  <2>3. QED
    BY <2>1, <2>2 DEF outbound
<1>19. ASSUME NEW t \in Threads, Resume(t) PROVE Bounds'
  BY <1>19 DEF Resume, Goto, outbound, thread
<1>20. CASE Finish
  BY <1>20 DEF Finish, Goto, outbound, thread
<1>21. CASE FinishStops
  <2>1. /\ UNCHANGED <<watching, outbound, target, begun>> /\ writerLock = "nobody"
        /\ \/ UNCHANGED <<writerLock, stopping, wakeup, writer>>
           \/ /\ writerLock' = Main /\ stopping' = TRUE /\ wakeup' = wakeup + 1
              /\ writer' = IF writer = "asleep" THEN "look" ELSE writer
    BY <1>21 DEF FinishStops, Tell, Alone
  <2>2. stopping' \in BOOLEAN /\ watching' \in BOOLEAN /\ writer' \in WriterPlaces
    BY <2>1
  <2>3. wakeup' \in 0..1 /\ (writerLock' = "nobody" => wakeup' = 0)
    BY <2>1
  <2>4. QED
    BY <2>1, <2>2, <2>3 DEF outbound
<1>22. CASE Drain
  <2>1. /\ UNCHANGED <<watching, stopping, wakeup, writerLock, target, begun, writer, pushed>>
        /\ queue' = queue \/ (queue # <<>> /\ queue' = Tail(queue))
    BY <1>22 DEF Drain, Take, outbound, thread
  <2>2. queue' \in Seq(1..MaxRecords) /\ Len(queue') <= Capacity
    <3>1. CASE queue' = queue
      BY <3>1
    <3>2. CASE queue # <<>> /\ queue' = Tail(queue)
      <4>1. Tail(queue) \in Seq(1..MaxRecords) /\ Len(Tail(queue)) = Len(queue) - 1
        BY <3>2
      <4>2. QED
        BY <3>2, <4>1
    <3>3. QED
      BY <2>1, <3>1, <3>2
  <2>3. QED
    BY <2>1, <2>2
<1>23. CASE DrainSend
  BY <1>23 DEF DrainSend, Goto, outbound, thread
<1>24. CASE DrainWritten
  BY <1>24 DEF DrainWritten, outbound, thread
<1>25. CASE UNCHANGED vars
  BY <1>25 DEF vars, outbound, thread
<1>26. QED
  BY <1>1, <1>2, <1>3, <1>4, <1>5, <1>6, <1>7, <1>8, <1>9, <1>10, <1>11, <1>12, <1>13,
     <1>14, <1>15, <1>16, <1>17, <1>18, <1>19, <1>20, <1>21, <1>22, <1>23, <1>24, <1>25
  DEF Next, Ends, Writes, Flushes, Forks

\* The types, with a GIL: the queue and the counts keep to their bounds.
THEOREM TypesHold ==
    ASSUME ~FreeThreaded PROVE Spec => []TypeOK
<1>1. Init => Bounds
  <2> SUFFICES ASSUME Init PROVE Bounds
    OBVIOUS
  <2>1. begun \in [stops : 0..MaxStops, forks : 0..MaxForks]
    BY StreamAssumption DEF Init
  <2>2. queue = <<>> /\ Len(queue) = 0 /\ pushed = 0
    BY DEF Init
  <2>3. Len(queue) <= Capacity /\ pushed <= MaxRecords
    BY <2>2, StreamAssumption
  <2>4. wakeup = 0 /\ writer \in WriterPlaces /\ queue \in Seq(1..MaxRecords)
    BY DEF Init, WriterPlaces
  <2>5. {watching, stopping} \subseteq BOOLEAN
    BY DEF Init
  <2>6. \A t \in Threads : target[t] <= pushed
    <3>1. target = [t \in Threads |-> 0]
      BY DEF Init
    <3>2. QED
      BY <2>2, <3>1
  <2>7. QED
    BY <2>1, <2>2, <2>3, <2>4, <2>5, <2>6 DEF Bounds
<1>2. StoodDown /\ Accounted /\ Aimed /\ Bounds /\ [Next]_vars => Bounds'
  BY BoundsStep
<1>3. StoodDown /\ Accounted /\ Aimed /\ Bounds => TypeOK
  <2> SUFFICES ASSUME StoodDown, Accounted, Aimed, Bounds PROVE TypeOK
    OBVIOUS
  <2> DEFINE n == Len(queue)
  <2>1. /\ {dropped, pushed, delivered, written} \subseteq Nat
        /\ n \in Nat /\ n <= pushed /\ n <= Capacity /\ pushed <= MaxRecords
    BY DEF Accounted, CountsOK, QueueIsRecent, Bounds
  <2>2. LastTaken \in Nat /\ LastTaken <= pushed
    <3>1. LastTaken \in Nat
      BY HandIsNumbered DEF Accounted
    <3>2. QED
      BY <2>1, <3>1 DEF Accounted, GapIsCounted
  <2>3. queue \in Seq(1..MaxRecords)
    BY DEF Bounds
  <2>4. delivered \in 0..pushed
    BY <2>1 DEF Accounted, AllAccounted
  <2>5. inHand \in Seq([record : 1..MaxRecords, before : Nat]) /\ Len(inHand) <= 1
    <3>1. CASE inHand = <<>>
      BY <3>1
    <3>2. CASE inHand # <<>>
      <4>1. PICK r \in Nat, b \in Nat : inHand = <<[record |-> r, before |-> b]>>
        BY <3>2 DEF Accounted, HandIsKnown
      <4>2. Len(inHand) = 1 /\ inHand[1].record = r /\ inHand[1].before = b
        BY <4>1
      <4>3. b = r - written - 1 /\ r <= pushed
        BY <2>2, <3>2, <4>2 DEF Accounted, GapsAreSaid, LastTaken
      <4>4. r \in 1..MaxRecords
        BY <2>1, <4>3, StreamAssumption
      <4>5. [record |-> r, before |-> b] \in [record : 1..MaxRecords, before : Nat]
        BY <4>4
      <4>6. QED
        BY <4>1, <4>5
    <3>3. QED
      BY <3>1, <3>2
  <2>6. written \in 0..MaxRecords
    <3>1. CASE inHand = <<>>
      BY <2>1, <2>2, <3>1, StreamAssumption DEF LastTaken
    <3>2. CASE inHand # <<>>
      <4>1. PICK r \in Nat, b \in Nat : inHand = <<[record |-> r, before |-> b]>>
        BY <3>2 DEF Accounted, HandIsKnown
      <4>2. Len(inHand) = 1 /\ inHand[1].record = r /\ inHand[1].before = b
        BY <4>1
      <4>3. b = r - written - 1 /\ r <= pushed
        BY <2>2, <3>2, <4>2 DEF Accounted, GapsAreSaid, LastTaken
      <4>4. QED
        BY <2>1, <4>3, StreamAssumption
    <3>3. QED
      BY <3>1, <3>2
  <2>7. forking \in 0..Cardinality(Threads)
    <3>1. Forking \subseteq Threads
      BY DEF Forking
    <3>2. Cardinality(Forking) <= Cardinality(Threads)
      BY <3>1, FS_Subset, StreamAssumption
    <3>3. Cardinality(Threads) \in Nat
      BY FS_CardinalityType, StreamAssumption
    <3>4. QED
      BY <3>2, <3>3, ForkingIsFinite DEF StoodDown, ForksAreCounted
  <2>8. target \in [Threads -> 0..MaxRecords]
    <3>1. \A t \in Threads : target[t] \in 0..MaxRecords
      BY <2>1, StreamAssumption DEF Aimed, Bounds
    <3>2. QED
      BY <3>1 DEF Aimed
  <2>9. QED
    BY <2>1, <2>3, <2>4, <2>5, <2>6, <2>7, <2>8 DEF TypeOK, StoodDown, ShapeOK, Bounds,
       WriterPlaces
<1>4. QED
  BY <1>1, <1>2, <1>3, StoodDownAlways, AccountedAlways, PTL DEF Spec

=============================================================================
