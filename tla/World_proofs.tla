---------------------------- MODULE World_proofs ----------------------------
(***************************************************************************)
(* What World promises for every set of threads and every build: its       *)
(* types, that no parked thread is forgotten, that the world is released   *)
(* with the stops that asked for it if each of them asks once, and that    *)
(* with a GIL no stop takes the world from another and no running thread   *)
(* is passed by.  And what Breakpoints promises for any files, sets and    *)
(* trees: a breakpoint acts as it was asked, and is where its line runs.   *)
(***************************************************************************)
EXTENDS World, Breakpoints, WellFoundedInduction, TLAPS

\* A thread is on its way to answer a request for the world it has listed.
Asking(t) == \/ pc[t] \in {"store", "arrivals", "record", "giveUp"}
             \/ pc[t] \in {"refresh", "set"} /\ after[t] = "arrivals"

\* A thread took the last request out and is on its way to let_go.
Releasing(t) == \/ pc[t] = "letGo"
                \/ pc[t] \in {"refresh", "set"} /\ after[t] = "letGo"

\* What a thread on its way to an answer asked for is still listed.
AskerIsListed == \A t \in Threads : Asking(t) => asked[t] > 0

\* The mutex is held by the one thread between its push and its wait.
LockIsHeld == \A t \in Threads : pc[t] \in {"check", "sleep"} <=> lock = t

\* Only a sleeping thread is in the wait set.
WaitersSleep == \A t \in waiting : pc[t] = "asleep"

\* The inductive invariants.
Types == TypeOK /\ AskerIsListed

Wakeup == LockIsHeld /\ WaitersSleep /\ NoLostWakeup

AsksOnce == ~orphaned /\ \A t \in Threads : asked[t] <= 1

\* With a GIL, nothing is listed while the last to leave lets the world go, and
\* PARKING is up for whatever is listed once it has been raised.
Kept == /\ \A t \in Threads : Releasing(t) => \A u \in Threads : asked[u] = 0
        /\ \A t \in Threads : asked[t] > 0 /\ pc[t] # "store" => parking

-----------------------------------------------------------------------------
\* The types are kept: in particular the count of requests never goes below
\* zero, because a thread that takes one back has listed it.
LEMMA TypesStep ==
    ASSUME Types, [Next]_vars PROVE Types'
<1> USE WorldAssumption DEF Types, TypeOK, AskerIsListed, Asking, Procs, PythonPlaces, state, world
<1>1. ASSUME NEW t \in Threads, EnterC(t) PROVE Types'
  BY <1>1 DEF EnterC, Goto
<1>2. ASSUME NEW t \in Threads, LeaveC(t) PROVE Types'
  BY <1>2 DEF LeaveC, Goto
<1>3. ASSUME NEW t \in Threads, Hit(t) PROVE Types'
  BY <1>3 DEF Hit, Goto
<1>4. ASSUME NEW t \in Threads, LineParks(t) PROVE Types'
  BY <1>4 DEF LineParks, Goto
<1>5. ASSUME NEW t \in Threads, ParkPush(t) PROVE Types'
  BY <1>5 DEF ParkPush, Goto
<1>6. ASSUME NEW t \in Threads, ParkCheck(t) PROVE Types'
  BY <1>6 DEF ParkCheck, Goto
<1>7. ASSUME NEW t \in Threads, ParkSleep(t) PROVE Types'
  BY <1>7 DEF ParkSleep, Goto
<1>8. ASSUME NEW t \in Threads, ParkWake(t) PROVE Types'
  BY <1>8 DEF ParkWake, Goto
<1>9. ASSUME NEW t \in Threads, LineClaimsPause(t) PROVE Types'
  BY <1>9 DEF LineClaimsPause, Goto, RefreshThen
<1>10. ASSUME NEW t \in Threads, EnterPaused(t) PROVE Types'
  BY <1>10 DEF EnterPaused, Goto
<1>11. ASSUME NEW t \in Threads, AskWorld(t) PROVE Types'
  BY <1>11 DEF AskWorld, Goto
<1>12. ASSUME NEW t \in Threads, StoreParking(t) PROVE Types'
  BY <1>12 DEF StoreParking, Goto, RefreshThen
<1>13. ASSUME NEW t \in Threads, Arrivals(t) PROVE Types'
  BY <1>13 DEF Arrivals, Goto
<1>14. ASSUME NEW t \in Threads, Record(t) PROVE Types'
  BY <1>14 DEF Record, Goto
<1>15. ASSUME NEW t \in Threads, GiveUp(t) PROVE Types'
  <2>1. /\ pc[t] = "giveUp" /\ asked' = [asked EXCEPT ![t] = @ - 1]
        /\ UNCHANGED <<parking, pausing, line, orphaned, parked, lock, waiting, registered,
                       arrived, letGo, mask, after>>
    BY <1>15 DEF GiveUp
  <2>2. pc' = [pc EXCEPT ![t] = "letGo"] \/ pc' = [pc EXCEPT ![t] = "held"]
    BY <1>15 DEF GiveUp, Goto
  <2>3. AskerIsListed'
    BY <2>1, <2>2
  <2>4. native' \subseteq Threads /\ targets' \subseteq Threads
    BY <1>15 DEF GiveUp
  <2>5. ending' \in [Procs -> {"resume", "restart", "refused", "failed"}]
    BY <1>15 DEF GiveUp
  <2>6. asked' \in [Threads -> Nat]
    BY <2>1
  <2>7. QED
    BY <2>1, <2>2, <2>3, <2>4, <2>5, <2>6
<1>16. ASSUME NEW t \in Threads, Restart(t) PROVE Types'
  BY <1>16 DEF Restart, Goto, RefreshThen
<1>17. ASSUME NEW t \in Threads, Woken(t) PROVE Types'
  BY <1>17 DEF Woken, Goto
<1>18. ASSUME NEW t \in Threads, LeaveRegistry(t) PROVE Types'
  BY <1>18 DEF LeaveRegistry, Goto
<1>19. ASSUME NEW t \in Threads, Release(t) PROVE Types'
  <2>1. /\ asked' = [asked EXCEPT ![t] = 0]
        /\ orphaned' \in BOOLEAN
        /\ native' \subseteq Threads
        /\ UNCHANGED <<parking, pausing, line, parked, lock, waiting, registered, targets,
                       arrived, mask>>
    BY <1>19 DEF Release, Remove
  <2>2. /\ letGo' \subseteq Threads
        /\ ending' \in [Procs -> {"resume", "restart", "refused", "failed"}]
    BY <1>19 DEF Release, Return
  <2>3. \/ pc' = [pc EXCEPT ![t] = "refresh"] /\ after' = [after EXCEPT ![t] = "letGo"]
        \/ pc' = [pc EXCEPT ![t] = "refresh"] /\ after' = [after EXCEPT ![t] = "python"]
        \/ pc' = [pc EXCEPT ![t] = "python"] /\ after' = after
    BY <1>19 DEF Release, Return, RefreshThen, Goto
  <2>4. AskerIsListed'
    BY <2>1, <2>3
  <2>5. /\ pc' \in [Procs -> PythonPlaces \cup {"idle"}]
        /\ after' \in [Procs -> {"python", "arrivals", "letGo", "leave", "enter", "idle"}]
    BY <2>3
  <2>6. asked' \in [Threads -> Nat]
    BY <2>1
  <2>7. QED
    BY <2>1, <2>2, <2>4, <2>5, <2>6
<1>20. ASSUME NEW t \in Threads, LetGoStore(t) PROVE Types'
  BY <1>20 DEF LetGoStore, Goto
<1>21. ASSUME NEW t \in Threads, LetGoNotify(t) PROVE Types'
  <2>1. /\ letGo' \subseteq Threads
        /\ ending' \in [Procs -> {"resume", "restart", "refused", "failed"}]
    BY <1>21 DEF LetGoNotify, Return
  <2>2. \/ pc' = [pc EXCEPT ![t] = "held"] /\ after' = after
        \/ pc' = [pc EXCEPT ![t] = "refresh"] /\ after' = [after EXCEPT ![t] = "python"]
        \/ pc' = [pc EXCEPT ![t] = "python"] /\ after' = after
    BY <1>21 DEF LetGoNotify, Return, RefreshThen, Goto
  <2>3. AskerIsListed'
    BY <1>21, <2>2 DEF LetGoNotify
  <2>4. /\ pc' \in [Procs -> PythonPlaces \cup {"idle"}]
        /\ after' \in [Procs -> {"python", "arrivals", "letGo", "leave", "enter", "idle"}]
    BY <2>2
  <2>5. waiting' = {} /\ UNCHANGED <<parking, pausing, line, asked, orphaned, native, parked, lock,
                                     registered, targets, arrived, mask>>
    BY <1>21 DEF LetGoNotify
  <2>6. QED
    BY <2>1, <2>3, <2>4, <2>5
<1>22. ASSUME NEW t \in Threads, RefreshFails(t) PROVE Types'
  BY <1>22 DEF RefreshFails, Goto
<1>23. ASSUME NEW p \in Procs, RefreshRead(p) PROVE Types'
  BY <1>23 DEF RefreshRead, Goto
<1>24. ASSUME NEW p \in Procs, RefreshSet(p) PROVE Types'
  BY <1>24 DEF RefreshSet, Goto
<1>25. ASSUME NEW p \in Pausers, PauseArm(p) PROVE Types'
  BY <1>25 DEF PauseArm, Goto, RefreshThen
<1>26. ASSUME NEW S \in SUBSET Threads, LetThreadsGo(S) PROVE Types'
  BY <1>26 DEF LetThreadsGo
<1>27. CASE UNCHANGED vars
  BY <1>27 DEF vars, state, world
<1>28. QED
  BY <1>1, <1>2, <1>3, <1>4, <1>5, <1>6, <1>7, <1>8, <1>9, <1>10, <1>11, <1>12, <1>13, <1>14, <1>15, <1>16, <1>17, <1>18, <1>19, <1>20, <1>21, <1>22, <1>23, <1>24, <1>25, <1>26, <1>27
  DEF Next, Parks, Claims, Stops, Leaves, Refresh

\* What a thread on its way to an answer asked for stays listed.
LEMMA TypesAlways == Spec => []Types
<1>1. Init => Types
  <2> SUFFICES ASSUME Init PROVE Types
    OBVIOUS
  <2>1. pc \in [Procs -> {"python", "idle"}]
    BY DEF Init
  <2>2. AskerIsListed
    BY <2>1 DEF Init, AskerIsListed, Asking, Procs
  <2>3. pc \in [Procs -> PythonPlaces \cup {"idle"}]
    BY <2>1 DEF PythonPlaces
  <2>4. TypeOK
    BY <2>3 DEF Init, TypeOK
  <2>5. QED
    BY <2>2, <2>4 DEF Types
<1>2. Types /\ [Next]_vars => Types'
  BY TypesStep
<1>3. QED
  BY <1>1, <1>2, PTL DEF Spec

\* TypeOK for every set of threads, every build and every failing set_events.
THEOREM TypesHold == Spec => []TypeOK
<1>1. Types => TypeOK
  BY DEF Types
<1>2. QED
  BY <1>1, TypesAlways, PTL

-----------------------------------------------------------------------------
\* The wait set is emptied under the mutex, and the mutex is held from the check
\* of PARKING to the wait, so that no thread can be between the two when the
\* world is let go.
LEMMA WakeupStep ==
    ASSUME Types, Wakeup, [Next]_vars PROVE Wakeup'
<1> USE WorldAssumption DEF Types, TypeOK, Procs, Wakeup, LockIsHeld, WaitersSleep, NoLostWakeup, state, world
<1>1. ASSUME NEW t \in Threads, EnterC(t) PROVE Wakeup'
  BY <1>1 DEF EnterC, Goto
<1>2. ASSUME NEW t \in Threads, LeaveC(t) PROVE Wakeup'
  BY <1>2 DEF LeaveC, Goto
<1>3. ASSUME NEW t \in Threads, Hit(t) PROVE Wakeup'
  BY <1>3 DEF Hit, Goto
<1>4. ASSUME NEW t \in Threads, LineParks(t) PROVE Wakeup'
  BY <1>4 DEF LineParks, Goto
<1>5. ASSUME NEW t \in Threads, ParkPush(t) PROVE Wakeup'
  BY <1>5 DEF ParkPush, Goto
<1>6. ASSUME NEW t \in Threads, ParkCheck(t) PROVE Wakeup'
  BY <1>6 DEF ParkCheck, Goto
<1>7. ASSUME NEW t \in Threads, ParkSleep(t) PROVE Wakeup'
  BY <1>7 DEF ParkSleep, Goto
<1>8. ASSUME NEW t \in Threads, ParkWake(t) PROVE Wakeup'
  BY <1>8 DEF ParkWake, Goto
<1>9. ASSUME NEW t \in Threads, LineClaimsPause(t) PROVE Wakeup'
  BY <1>9 DEF LineClaimsPause, Goto, RefreshThen
<1>10. ASSUME NEW t \in Threads, EnterPaused(t) PROVE Wakeup'
  BY <1>10 DEF EnterPaused, Goto
<1>11. ASSUME NEW t \in Threads, AskWorld(t) PROVE Wakeup'
  BY <1>11 DEF AskWorld, Goto
<1>12. ASSUME NEW t \in Threads, StoreParking(t) PROVE Wakeup'
  BY <1>12 DEF StoreParking, Goto, RefreshThen
<1>13. ASSUME NEW t \in Threads, Arrivals(t) PROVE Wakeup'
  BY <1>13 DEF Arrivals, Goto
<1>14. ASSUME NEW t \in Threads, Record(t) PROVE Wakeup'
  BY <1>14 DEF Record, Goto
<1>15. ASSUME NEW t \in Threads, GiveUp(t) PROVE Wakeup'
  BY <1>15 DEF GiveUp, Goto, LastToLeave, Others
<1>16. ASSUME NEW t \in Threads, Restart(t) PROVE Wakeup'
  BY <1>16 DEF Restart, Goto, RefreshThen
<1>17. ASSUME NEW t \in Threads, Woken(t) PROVE Wakeup'
  BY <1>17 DEF Woken, Goto
<1>18. ASSUME NEW t \in Threads, LeaveRegistry(t) PROVE Wakeup'
  BY <1>18 DEF LeaveRegistry, Goto
<1>19. ASSUME NEW t \in Threads, Release(t) PROVE Wakeup'
  BY <1>19 DEF Release, Goto, Remove, LastToLeave, Others, Return, RefreshThen
<1>20. ASSUME NEW t \in Threads, LetGoStore(t) PROVE Wakeup'
  BY <1>20 DEF LetGoStore, Goto
<1>21. ASSUME NEW t \in Threads, LetGoNotify(t) PROVE Wakeup'
  BY <1>21 DEF LetGoNotify, Goto, Return, RefreshThen
<1>22. ASSUME NEW t \in Threads, RefreshFails(t) PROVE Wakeup'
  BY <1>22 DEF RefreshFails, Goto
<1>23. ASSUME NEW p \in Procs, RefreshRead(p) PROVE Wakeup'
  BY <1>23 DEF RefreshRead, Goto
<1>24. ASSUME NEW p \in Procs, RefreshSet(p) PROVE Wakeup'
  BY <1>24 DEF RefreshSet, Goto
<1>25. ASSUME NEW p \in Pausers, PauseArm(p) PROVE Wakeup'
  BY <1>25 DEF PauseArm, Goto, RefreshThen
<1>26. ASSUME NEW S \in SUBSET Threads, LetThreadsGo(S) PROVE Wakeup'
  BY <1>26 DEF LetThreadsGo
<1>27. CASE UNCHANGED vars
  BY <1>27 DEF vars, state, world
<1>28. QED
  BY <1>1, <1>2, <1>3, <1>4, <1>5, <1>6, <1>7, <1>8, <1>9, <1>10, <1>11, <1>12, <1>13, <1>14, <1>15, <1>16, <1>17, <1>18, <1>19, <1>20, <1>21, <1>22, <1>23, <1>24, <1>25, <1>26, <1>27
  DEF Next, Parks, Claims, Stops, Leaves, Refresh

\* No parked thread is forgotten, on either build (world::let_go, wait_parked).
THEOREM NoWakeupIsLost == Spec => []NoLostWakeup
<1>1. Init => Wakeup
  BY WorldAssumption
  DEF Init, Wakeup, LockIsHeld, WaitersSleep, NoLostWakeup, Procs
<1>2. Types /\ Wakeup /\ [Next]_vars => Wakeup'
  BY WakeupStep
<1>3. Wakeup => NoLostWakeup
  BY DEF Wakeup
<1>4. QED
  BY <1>1, <1>2, <1>3, TypesAlways, PTL DEF Spec

-----------------------------------------------------------------------------
\* A stop that asks once leaves nothing behind when it takes its entry out.
LEMMA AsksOnceStep ==
    ASSUME MaxAsks <= 1, Types, AsksOnce, [Next]_vars PROVE AsksOnce'
<1> USE WorldAssumption DEF Types, TypeOK, Procs, AsksOnce, state, world
<1>1. ASSUME NEW t \in Threads, EnterC(t) PROVE AsksOnce'
  BY <1>1 DEF EnterC, Goto
<1>2. ASSUME NEW t \in Threads, LeaveC(t) PROVE AsksOnce'
  BY <1>2 DEF LeaveC, Goto
<1>3. ASSUME NEW t \in Threads, Hit(t) PROVE AsksOnce'
  BY <1>3 DEF Hit, Goto
<1>4. ASSUME NEW t \in Threads, LineParks(t) PROVE AsksOnce'
  BY <1>4 DEF LineParks, Goto
<1>5. ASSUME NEW t \in Threads, ParkPush(t) PROVE AsksOnce'
  BY <1>5 DEF ParkPush, Goto
<1>6. ASSUME NEW t \in Threads, ParkCheck(t) PROVE AsksOnce'
  BY <1>6 DEF ParkCheck, Goto
<1>7. ASSUME NEW t \in Threads, ParkSleep(t) PROVE AsksOnce'
  BY <1>7 DEF ParkSleep, Goto
<1>8. ASSUME NEW t \in Threads, ParkWake(t) PROVE AsksOnce'
  BY <1>8 DEF ParkWake, Goto
<1>9. ASSUME NEW t \in Threads, LineClaimsPause(t) PROVE AsksOnce'
  BY <1>9 DEF LineClaimsPause, Goto, RefreshThen
<1>10. ASSUME NEW t \in Threads, EnterPaused(t) PROVE AsksOnce'
  BY <1>10 DEF EnterPaused, Goto
<1>11. ASSUME NEW t \in Threads, AskWorld(t) PROVE AsksOnce'
  BY <1>11 DEF AskWorld, Goto
<1>12. ASSUME NEW t \in Threads, StoreParking(t) PROVE AsksOnce'
  BY <1>12 DEF StoreParking, Goto, RefreshThen
<1>13. ASSUME NEW t \in Threads, Arrivals(t) PROVE AsksOnce'
  BY <1>13 DEF Arrivals, Goto
<1>14. ASSUME NEW t \in Threads, Record(t) PROVE AsksOnce'
  BY <1>14 DEF Record, Goto
<1>15. ASSUME NEW t \in Threads, GiveUp(t) PROVE AsksOnce'
  BY <1>15 DEF GiveUp, Goto, LastToLeave, Others
<1>16. ASSUME NEW t \in Threads, Restart(t) PROVE AsksOnce'
  BY <1>16 DEF Restart, Goto, RefreshThen
<1>17. ASSUME NEW t \in Threads, Woken(t) PROVE AsksOnce'
  BY <1>17 DEF Woken, Goto
<1>18. ASSUME NEW t \in Threads, LeaveRegistry(t) PROVE AsksOnce'
  BY <1>18 DEF LeaveRegistry, Goto
<1>19. ASSUME NEW t \in Threads, Release(t) PROVE AsksOnce'
  BY <1>19 DEF Release, Goto, Remove, LastToLeave, Others, Return, RefreshThen
<1>20. ASSUME NEW t \in Threads, LetGoStore(t) PROVE AsksOnce'
  BY <1>20 DEF LetGoStore, Goto
<1>21. ASSUME NEW t \in Threads, LetGoNotify(t) PROVE AsksOnce'
  BY <1>21 DEF LetGoNotify, Goto, Return, RefreshThen
<1>22. ASSUME NEW t \in Threads, RefreshFails(t) PROVE AsksOnce'
  BY <1>22 DEF RefreshFails, Goto
<1>23. ASSUME NEW p \in Procs, RefreshRead(p) PROVE AsksOnce'
  BY <1>23 DEF RefreshRead, Goto
<1>24. ASSUME NEW p \in Procs, RefreshSet(p) PROVE AsksOnce'
  BY <1>24 DEF RefreshSet, Goto
<1>25. ASSUME NEW p \in Pausers, PauseArm(p) PROVE AsksOnce'
  BY <1>25 DEF PauseArm, Goto, RefreshThen
<1>26. ASSUME NEW S \in SUBSET Threads, LetThreadsGo(S) PROVE AsksOnce'
  BY <1>26 DEF LetThreadsGo
<1>27. CASE UNCHANGED vars
  BY <1>27 DEF vars, state, world
<1>28. QED
  BY <1>1, <1>2, <1>3, <1>4, <1>5, <1>6, <1>7, <1>8, <1>9, <1>10, <1>11, <1>12, <1>13, <1>14, <1>15, <1>16, <1>17, <1>18, <1>19, <1>20, <1>21, <1>22, <1>23, <1>24, <1>25, <1>26, <1>27
  DEF Next, Parks, Claims, Stops, Leaves, Refresh

\* PARKING stays up only with somebody to take it down: whoever takes an entry
\* out leaves another listed or is the last to leave.
LEMMA ReleasedStep ==
    ASSUME Types, AsksOnce, WorldIsReleased, [Next]_vars PROVE WorldIsReleased'
<1> USE WorldAssumption DEF Types, TypeOK, Procs, AskerIsListed, Asking, AsksOnce, WorldIsReleased, state, world
<1>1. ASSUME NEW t \in Threads, EnterC(t) PROVE WorldIsReleased'
  BY <1>1 DEF EnterC, Goto
<1>2. ASSUME NEW t \in Threads, LeaveC(t) PROVE WorldIsReleased'
  BY <1>2 DEF LeaveC, Goto
<1>3. ASSUME NEW t \in Threads, Hit(t) PROVE WorldIsReleased'
  BY <1>3 DEF Hit, Goto
<1>4. ASSUME NEW t \in Threads, LineParks(t) PROVE WorldIsReleased'
  BY <1>4 DEF LineParks, Goto
<1>5. ASSUME NEW t \in Threads, ParkPush(t) PROVE WorldIsReleased'
  BY <1>5 DEF ParkPush, Goto
<1>6. ASSUME NEW t \in Threads, ParkCheck(t) PROVE WorldIsReleased'
  BY <1>6 DEF ParkCheck, Goto
<1>7. ASSUME NEW t \in Threads, ParkSleep(t) PROVE WorldIsReleased'
  BY <1>7 DEF ParkSleep, Goto
<1>8. ASSUME NEW t \in Threads, ParkWake(t) PROVE WorldIsReleased'
  BY <1>8 DEF ParkWake, Goto
<1>9. ASSUME NEW t \in Threads, LineClaimsPause(t) PROVE WorldIsReleased'
  BY <1>9 DEF LineClaimsPause, Goto, RefreshThen
<1>10. ASSUME NEW t \in Threads, EnterPaused(t) PROVE WorldIsReleased'
  BY <1>10 DEF EnterPaused, Goto
<1>11. ASSUME NEW t \in Threads, AskWorld(t) PROVE WorldIsReleased'
  BY <1>11 DEF AskWorld, Goto
<1>12. ASSUME NEW t \in Threads, StoreParking(t) PROVE WorldIsReleased'
  BY <1>12 DEF StoreParking, Goto, RefreshThen
<1>13. ASSUME NEW t \in Threads, Arrivals(t) PROVE WorldIsReleased'
  BY <1>13 DEF Arrivals, Goto
<1>14. ASSUME NEW t \in Threads, Record(t) PROVE WorldIsReleased'
  BY <1>14 DEF Record, Goto
<1>15. ASSUME NEW t \in Threads, GiveUp(t) PROVE WorldIsReleased'
  BY <1>15 DEF GiveUp, Goto, LastToLeave, Others
<1>16. ASSUME NEW t \in Threads, Restart(t) PROVE WorldIsReleased'
  BY <1>16 DEF Restart, Goto, RefreshThen
<1>17. ASSUME NEW t \in Threads, Woken(t) PROVE WorldIsReleased'
  BY <1>17 DEF Woken, Goto
<1>18. ASSUME NEW t \in Threads, LeaveRegistry(t) PROVE WorldIsReleased'
  BY <1>18 DEF LeaveRegistry, Goto
<1>19. ASSUME NEW t \in Threads, Release(t) PROVE WorldIsReleased'
  BY <1>19 DEF Release, Goto, Remove, LastToLeave, Others, Return, RefreshThen
<1>20. ASSUME NEW t \in Threads, LetGoStore(t) PROVE WorldIsReleased'
  BY <1>20 DEF LetGoStore, Goto
<1>21. ASSUME NEW t \in Threads, LetGoNotify(t) PROVE WorldIsReleased'
  BY <1>21 DEF LetGoNotify, Goto, Return, RefreshThen
<1>22. ASSUME NEW t \in Threads, RefreshFails(t) PROVE WorldIsReleased'
  BY <1>22 DEF RefreshFails, Goto
<1>23. ASSUME NEW p \in Procs, RefreshRead(p) PROVE WorldIsReleased'
  BY <1>23 DEF RefreshRead, Goto
<1>24. ASSUME NEW p \in Procs, RefreshSet(p) PROVE WorldIsReleased'
  BY <1>24 DEF RefreshSet, Goto
<1>25. ASSUME NEW p \in Pausers, PauseArm(p) PROVE WorldIsReleased'
  BY <1>25 DEF PauseArm, Goto, RefreshThen
<1>26. ASSUME NEW S \in SUBSET Threads, LetThreadsGo(S) PROVE WorldIsReleased'
  BY <1>26 DEF LetThreadsGo
<1>27. CASE UNCHANGED vars
  BY <1>27 DEF vars, state, world
<1>28. QED
  BY <1>1, <1>2, <1>3, <1>4, <1>5, <1>6, <1>7, <1>8, <1>9, <1>10, <1>11, <1>12, <1>13, <1>14, <1>15, <1>16, <1>17, <1>18, <1>19, <1>20, <1>21, <1>22, <1>23, <1>24, <1>25, <1>26, <1>27
  DEF Next, Parks, Claims, Stops, Leaves, Refresh

\* If a stop asks for the world at most once, the world is released with the
\* stops that asked for it, on either build and with set_events failing at any
\* point (world::last_to_leave, world::release_with).
THEOREM ReleasedWhenAskedOnce ==
    ASSUME MaxAsks <= 1
    PROVE  Spec => []WorldIsReleased
<1>1. Init => AsksOnce /\ WorldIsReleased
  BY DEF Init, AsksOnce, WorldIsReleased
<1>2. Types /\ AsksOnce /\ [Next]_vars => AsksOnce'
  BY AsksOnceStep
<1>3. Types /\ AsksOnce /\ WorldIsReleased /\ [Next]_vars => WorldIsReleased'
  BY ReleasedStep
<1>4. QED
  BY <1>1, <1>2, <1>3, TypesAlways, PTL DEF Spec

-----------------------------------------------------------------------------
\* With a GIL nothing can be listed between the removal of the last entry and
\* the store that takes PARKING down.
LEMMA KeptStep ==
    ASSUME ~FreeThreaded, Types, Kept, [Next]_vars PROVE Kept'
<1> USE WorldAssumption DEF Types, TypeOK, Procs, AskerIsListed, Asking, Kept, Releasing, state, world
<1>1. ASSUME NEW t \in Threads, EnterC(t) PROVE Kept'
  BY <1>1 DEF EnterC, Goto
<1>2. ASSUME NEW t \in Threads, LeaveC(t) PROVE Kept'
  BY <1>2 DEF LeaveC, Goto
<1>3. ASSUME NEW t \in Threads, Hit(t) PROVE Kept'
  BY <1>3 DEF Hit, Goto
<1>4. ASSUME NEW t \in Threads, LineParks(t) PROVE Kept'
  BY <1>4 DEF LineParks, Goto
<1>5. ASSUME NEW t \in Threads, ParkPush(t) PROVE Kept'
  BY <1>5 DEF ParkPush, Goto
<1>6. ASSUME NEW t \in Threads, ParkCheck(t) PROVE Kept'
  BY <1>6 DEF ParkCheck, Goto
<1>7. ASSUME NEW t \in Threads, ParkSleep(t) PROVE Kept'
  BY <1>7 DEF ParkSleep, Goto
<1>8. ASSUME NEW t \in Threads, ParkWake(t) PROVE Kept'
  BY <1>8 DEF ParkWake, Goto
<1>9. ASSUME NEW t \in Threads, LineClaimsPause(t) PROVE Kept'
  BY <1>9 DEF LineClaimsPause, Goto, RefreshThen
<1>10. ASSUME NEW t \in Threads, EnterPaused(t) PROVE Kept'
  BY <1>10 DEF EnterPaused, Goto
<1>11. ASSUME NEW t \in Threads, AskWorld(t) PROVE Kept'
  <2>1. \A u \in Threads : ~Releasing(u)
    BY <1>11 DEF AskWorld, Interpreter, Interpreting
  <2>2. \A u \in Threads : ~Releasing(u)'
    BY <1>11, <2>1 DEF AskWorld, Goto
  <2>3. \A u \in Threads : asked'[u] > 0 /\ pc'[u] # "store" => parking'
    BY <1>11 DEF AskWorld, Goto
  <2>4. QED
    BY <2>2, <2>3
<1>12. ASSUME NEW t \in Threads, StoreParking(t) PROVE Kept'
  BY <1>12 DEF StoreParking, Goto, RefreshThen
<1>13. ASSUME NEW t \in Threads, Arrivals(t) PROVE Kept'
  BY <1>13 DEF Arrivals, Goto
<1>14. ASSUME NEW t \in Threads, Record(t) PROVE Kept'
  BY <1>14 DEF Record, Goto
<1>15. ASSUME NEW t \in Threads, GiveUp(t) PROVE Kept'
  BY <1>15 DEF GiveUp, Goto, LastToLeave, Others
<1>16. ASSUME NEW t \in Threads, Restart(t) PROVE Kept'
  BY <1>16 DEF Restart, Goto, RefreshThen
<1>17. ASSUME NEW t \in Threads, Woken(t) PROVE Kept'
  BY <1>17 DEF Woken, Goto
<1>18. ASSUME NEW t \in Threads, LeaveRegistry(t) PROVE Kept'
  BY <1>18 DEF LeaveRegistry, Goto
<1>19. ASSUME NEW t \in Threads, Release(t) PROVE Kept'
  BY <1>19 DEF Release, Goto, Remove, LastToLeave, Others, Return, RefreshThen
<1>20. ASSUME NEW t \in Threads, LetGoStore(t) PROVE Kept'
  BY <1>20 DEF LetGoStore, Goto
<1>21. ASSUME NEW t \in Threads, LetGoNotify(t) PROVE Kept'
  BY <1>21 DEF LetGoNotify, Goto, Return, RefreshThen
<1>22. ASSUME NEW t \in Threads, RefreshFails(t) PROVE Kept'
  BY <1>22 DEF RefreshFails, Goto
<1>23. ASSUME NEW p \in Procs, RefreshRead(p) PROVE Kept'
  BY <1>23 DEF RefreshRead, Goto
<1>24. ASSUME NEW p \in Procs, RefreshSet(p) PROVE Kept'
  BY <1>24 DEF RefreshSet, Goto
<1>25. ASSUME NEW p \in Pausers, PauseArm(p) PROVE Kept'
  BY <1>25 DEF PauseArm, Goto, RefreshThen
<1>26. ASSUME NEW S \in SUBSET Threads, LetThreadsGo(S) PROVE Kept'
  BY <1>26 DEF LetThreadsGo
<1>27. CASE UNCHANGED vars
  BY <1>27 DEF vars, state, world
<1>28. QED
  BY <1>1, <1>2, <1>3, <1>4, <1>5, <1>6, <1>7, <1>8, <1>9, <1>10, <1>11, <1>12, <1>13, <1>14, <1>15, <1>16, <1>17, <1>18, <1>19, <1>20, <1>21, <1>22, <1>23, <1>24, <1>25, <1>26, <1>27
  DEF Next, Parks, Claims, Stops, Leaves, Refresh

\* With a GIL, a stop that was told the world is stopped keeps it until it ends,
\* however many others end before it (world::last_to_leave, world::let_go).
THEOREM KeptWithGIL ==
    ASSUME ~FreeThreaded
    PROVE  Spec => []WorldIsKept
<1>1. Init => Kept
  BY DEF Init, Kept, Releasing, Procs
<1>2. Types /\ Kept /\ [Next]_vars => Kept'
  BY KeptStep
<1>3. Kept => WorldIsKept
  BY DEF Kept, WorldIsKept
<1>4. QED
  BY <1>1, <1>2, <1>3, TypesAlways, PTL DEF Spec

-----------------------------------------------------------------------------
(***************************************************************************)
(* None is passed by.                                                      *)
(***************************************************************************)

\* A held thread is at work for the engine: stopping the world, restarting, or
\* taking a request for the world back.
Answering(t) == \/ Asking(t)
                \/ pc[t] = "leave"
                \/ pc[t] \in {"refresh", "set"} /\ after[t] = "leave"
                \/ pc[t] \in {"letGo", "notify"} /\ ending[t] = "refused"

\* The registry holds the held threads and the one at work for the engine.
OneAnswers ==
    /\ \A t \in registered : pc[t] = "held" \/ Answering(t)
    /\ \A t \in Threads : Answering(t) => t \in registered
    /\ \A t, u \in registered : pc[t] # "held" /\ pc[u] # "held" => t = u
    /\ \A t \in Threads : ending[t] = "refused" => pc[t] \in {"letGo", "notify"}

\* A request of this stop has been answered WorldStopped.
Told(t) == asked[t] > (IF Asking(t) THEN 1 ELSE 0)

\* A thread that runs, or that runs next if it is not stopped on the way.
Loose(t) == \/ pc[t] \in {"python", "native"}
            \/ pc[t] \in {"refresh", "set"} /\ after[t] \notin {"leave", "letGo", "arrivals"}

\* With a GIL: one process at a time interprets, so what a refresh has read is
\* what it arms, and LINE is armed for a world that was stopped.
Armed ==
    /\ \A p, q \in Procs : pc[p] \in Interpreting /\ pc[q] \in Interpreting => p = q
    /\ \A p \in Procs : pc[p] = "set" => mask[p] = (parking \/ pausing)
    /\ \A t \in Threads : Told(t) \/ pc[t] \in {"arrivals", "record"} => parking /\ line
    /\ orphaned => parking /\ line
    /\ \A t \in Threads : Releasing(t) => ~orphaned
    /\ \A t \in Threads : after[t] # "idle"
    /\ parking /\ ~line =>
          \E p \in Procs : \/ pc[p] \in {"giveUp", "letGo"}
                           \/ pc[p] \in {"refresh", "set"} /\ after[p] = "arrivals"
    /\ pausing /\ ~line =>
          \E p \in Procs : pc[p] \in {"refresh", "set"} /\ after[p] = "idle"

\* While a stop of the world waits, what it does not wait for is held; what it
\* found parked is parked; and what runs in a stopped world was listed as native
\* or let go.
Caught ==
    /\ \A t \in Threads : t \in parked <=> pc[t] \in {"check", "sleep", "asleep"}
    /\ \A t \in Threads : Asking(t) => Threads \ targets \subseteq registered
    /\ \A t \in Threads : pc[t] = "record" => arrived \subseteq parked
    /\ \A t, u \in Threads : Told(t) /\ Loose(u) => u \in native \cup letGo

-----------------------------------------------------------------------------
\* The engine has one request answered at a time, so one thread of the registry
\* is at work at a time and every other one stays held.
LEMMA OneAnswersStep ==
    ASSUME Types, OneAnswers, [Next]_vars PROVE OneAnswers'
<1> USE WorldAssumption DEF Types, TypeOK, Procs, Asking, AskerIsListed, OneAnswers, Answering, EngineIdle, state, world
<1>1. ASSUME NEW t \in Threads, EnterC(t) PROVE OneAnswers'
  BY <1>1 DEF EnterC, Goto
<1>2. ASSUME NEW t \in Threads, LeaveC(t) PROVE OneAnswers'
  BY <1>2 DEF LeaveC, Goto
<1>3. ASSUME NEW t \in Threads, Hit(t) PROVE OneAnswers'
  BY <1>3 DEF Hit, Goto
<1>4. ASSUME NEW t \in Threads, LineParks(t) PROVE OneAnswers'
  BY <1>4 DEF LineParks, Goto
<1>5. ASSUME NEW t \in Threads, ParkPush(t) PROVE OneAnswers'
  BY <1>5 DEF ParkPush, Goto
<1>6. ASSUME NEW t \in Threads, ParkCheck(t) PROVE OneAnswers'
  BY <1>6 DEF ParkCheck, Goto
<1>7. ASSUME NEW t \in Threads, ParkSleep(t) PROVE OneAnswers'
  BY <1>7 DEF ParkSleep, Goto
<1>8. ASSUME NEW t \in Threads, ParkWake(t) PROVE OneAnswers'
  BY <1>8 DEF ParkWake, Goto
<1>9. ASSUME NEW t \in Threads, LineClaimsPause(t) PROVE OneAnswers'
  BY <1>9 DEF LineClaimsPause, Goto, RefreshThen
<1>10. ASSUME NEW t \in Threads, EnterPaused(t) PROVE OneAnswers'
  BY <1>10 DEF EnterPaused, Goto
<1>11. ASSUME NEW t \in Threads, AskWorld(t) PROVE OneAnswers'
  BY <1>11 DEF AskWorld, Goto
<1>12. ASSUME NEW t \in Threads, StoreParking(t) PROVE OneAnswers'
  BY <1>12 DEF StoreParking, Goto, RefreshThen
<1>13. ASSUME NEW t \in Threads, Arrivals(t) PROVE OneAnswers'
  BY <1>13 DEF Arrivals, Goto
<1>14. ASSUME NEW t \in Threads, Record(t) PROVE OneAnswers'
  BY <1>14 DEF Record, Goto
<1>15. ASSUME NEW t \in Threads, GiveUp(t) PROVE OneAnswers'
  BY <1>15 DEF GiveUp, Goto, LastToLeave, Others
<1>16. ASSUME NEW t \in Threads, Restart(t) PROVE OneAnswers'
  BY <1>16 DEF Restart, Goto, RefreshThen
<1>17. ASSUME NEW t \in Threads, Woken(t) PROVE OneAnswers'
  BY <1>17 DEF Woken, Goto
<1>18. ASSUME NEW t \in Threads, LeaveRegistry(t) PROVE OneAnswers'
  BY <1>18 DEF LeaveRegistry, Goto
<1>19. ASSUME NEW t \in Threads, Release(t) PROVE OneAnswers'
  BY <1>19 DEF Release, Goto, Remove, LastToLeave, Others, Return, RefreshThen
<1>20. ASSUME NEW t \in Threads, LetGoStore(t) PROVE OneAnswers'
  BY <1>20 DEF LetGoStore, Goto
<1>21. ASSUME NEW t \in Threads, LetGoNotify(t) PROVE OneAnswers'
  BY <1>21 DEF LetGoNotify, Goto, Return, RefreshThen
<1>22. ASSUME NEW t \in Threads, RefreshFails(t) PROVE OneAnswers'
  BY <1>22 DEF RefreshFails, Goto
<1>23. ASSUME NEW p \in Procs, RefreshRead(p) PROVE OneAnswers'
  BY <1>23 DEF RefreshRead, Goto
<1>24. ASSUME NEW p \in Procs, RefreshSet(p) PROVE OneAnswers'
  BY <1>24 DEF RefreshSet, Goto
<1>25. ASSUME NEW p \in Pausers, PauseArm(p) PROVE OneAnswers'
  BY <1>25 DEF PauseArm, Goto, RefreshThen
<1>26. ASSUME NEW S \in SUBSET Threads, LetThreadsGo(S) PROVE OneAnswers'
  BY <1>26 DEF LetThreadsGo
<1>27. CASE UNCHANGED vars
  BY <1>27 DEF vars, state, world
<1>28. QED
  BY <1>1, <1>2, <1>3, <1>4, <1>5, <1>6, <1>7, <1>8, <1>9, <1>10, <1>11, <1>12, <1>13, <1>14, <1>15, <1>16, <1>17, <1>18, <1>19, <1>20, <1>21, <1>22, <1>23, <1>24, <1>25, <1>26, <1>27
  DEF Next, Parks, Claims, Stops, Leaves, Refresh

-----------------------------------------------------------------------------
\* With a GIL a refresh arms what the flags say, and the flags stay up while a
\* stop of the world stands.
LEMMA ArmedStep ==
    ASSUME ~FreeThreaded, Types, Kept, OneAnswers, Armed, [Next]_vars PROVE Armed'
<1> USE WorldAssumption DEF Types, TypeOK, Procs, Asking, AskerIsListed, Kept, Releasing, OneAnswers, Answering, Armed, Told, Interpreting, Interpreter, state, world
<1>1. ASSUME NEW t \in Threads, EnterC(t) PROVE Armed'
  BY <1>1 DEF EnterC, Goto
<1>2. ASSUME NEW t \in Threads, LeaveC(t) PROVE Armed'
  BY <1>2 DEF LeaveC, Goto
<1>3. ASSUME NEW t \in Threads, Hit(t) PROVE Armed'
  BY <1>3 DEF Hit, Goto
<1>4. ASSUME NEW t \in Threads, LineParks(t) PROVE Armed'
  BY <1>4 DEF LineParks, Goto
<1>5. ASSUME NEW t \in Threads, ParkPush(t) PROVE Armed'
  BY <1>5 DEF ParkPush, Goto
<1>6. ASSUME NEW t \in Threads, ParkCheck(t) PROVE Armed'
  BY <1>6 DEF ParkCheck, Goto
<1>7. ASSUME NEW t \in Threads, ParkSleep(t) PROVE Armed'
  BY <1>7 DEF ParkSleep, Goto
<1>8. ASSUME NEW t \in Threads, ParkWake(t) PROVE Armed'
  BY <1>8 DEF ParkWake, Goto
<1>9. ASSUME NEW t \in Threads, LineClaimsPause(t) PROVE Armed'
  BY <1>9 DEF LineClaimsPause, Goto, RefreshThen
<1>10. ASSUME NEW t \in Threads, EnterPaused(t) PROVE Armed'
  BY <1>10 DEF EnterPaused, Goto
<1>11. ASSUME NEW t \in Threads, AskWorld(t) PROVE Armed'
  BY <1>11 DEF AskWorld, Goto
<1>12. ASSUME NEW t \in Threads, StoreParking(t) PROVE Armed'
  BY <1>12 DEF StoreParking, Goto, RefreshThen
<1>13. ASSUME NEW t \in Threads, Arrivals(t) PROVE Armed'
  BY <1>13 DEF Arrivals, Goto
<1>14. ASSUME NEW t \in Threads, Record(t) PROVE Armed'
  BY <1>14 DEF Record, Goto
<1>15. ASSUME NEW t \in Threads, GiveUp(t) PROVE Armed'
  BY <1>15 DEF GiveUp, Goto, LastToLeave, Others
<1>16. ASSUME NEW t \in Threads, Restart(t) PROVE Armed'
  BY <1>16 DEF Restart, Goto, RefreshThen
<1>17. ASSUME NEW t \in Threads, Woken(t) PROVE Armed'
  BY <1>17 DEF Woken, Goto
<1>18. ASSUME NEW t \in Threads, LeaveRegistry(t) PROVE Armed'
  BY <1>18 DEF LeaveRegistry, Goto
<1>19. ASSUME NEW t \in Threads, Release(t) PROVE Armed'
  BY <1>19 DEF Release, Goto, Remove, LastToLeave, Others, Return, RefreshThen
<1>20. ASSUME NEW t \in Threads, LetGoStore(t) PROVE Armed'
  BY <1>20 DEF LetGoStore, Goto
<1>21. ASSUME NEW t \in Threads, LetGoNotify(t) PROVE Armed'
  BY <1>21 DEF LetGoNotify, Goto, Return, RefreshThen
<1>22. ASSUME NEW t \in Threads, RefreshFails(t) PROVE Armed'
  <2>1. /\ pc[t] = "set"
        /\ \A q \in Procs \ {t} : pc[q] \notin Interpreting
    BY <1>22 DEF RefreshFails
  <2>2. /\ pc' = [pc EXCEPT ![t] = CASE after[t] = "arrivals" -> "giveUp"
                                     [] after[t] = "leave"    -> "held"
                                     [] after[t] = "letGo"    -> "letGo"
                                     [] OTHER                 -> "python"]
        /\ after' = [after EXCEPT ![t] = "python"]
        /\ UNCHANGED <<parking, pausing, line, asked, orphaned>>
    BY <1>22 DEF RefreshFails, Goto
  <2>3. \A u \in Threads : Asking(u)' = Asking(u)
    BY <2>1, <2>2
  <2>4. \A p, q \in Procs : pc'[p] \in Interpreting /\ pc'[q] \in Interpreting => p = q
    BY <2>1, <2>2
  <2>5. \A p \in Procs : pc'[p] # "set"
    BY <2>1, <2>2
  <2>6. \A u \in Threads : Told(u)' \/ pc'[u] \in {"arrivals", "record"} => parking' /\ line'
    BY <2>1, <2>2, <2>3
  <2>7. /\ orphaned' => parking' /\ line'
        /\ \A u \in Threads : Releasing(u)' => ~orphaned'
        /\ \A u \in Threads : after'[u] # "idle"
    BY <2>1, <2>2
  <2>8. ASSUME parking', ~line' PROVE pc'[t] \in {"giveUp", "letGo"}
    BY <2>1, <2>2, <2>8
  <2>9. ~(pausing' /\ ~line')
    BY <2>1, <2>2
  <2>10. QED
    BY <2>4, <2>5, <2>6, <2>7, <2>8, <2>9
<1>23. ASSUME NEW p \in Procs, RefreshRead(p) PROVE Armed'
  BY <1>23 DEF RefreshRead, Goto
<1>24. ASSUME NEW p \in Procs, RefreshSet(p) PROVE Armed'
  <2>1. /\ pc[p] = "set"
        /\ \A q \in Procs \ {p} : pc[q] \notin Interpreting
        /\ mask[p] = (parking \/ pausing)
    BY <1>24 DEF RefreshSet
  <2>2. /\ pc' = [pc EXCEPT ![p] = after[p]]
        /\ after' = [after EXCEPT ![p] = "python"]
        /\ UNCHANGED <<parking, pausing, asked, orphaned>>
    BY <1>24 DEF RefreshSet, Goto
  <2>3. line' = (parking' \/ pausing')
    BY <1>24, <2>1 DEF RefreshSet
  <2>4. \A u \in Threads : Asking(u)' = Asking(u)
    BY <2>1, <2>2
  <2>5. \A q, r \in Procs : pc'[q] \in Interpreting /\ pc'[r] \in Interpreting => q = r
    BY <2>1, <2>2
  <2>6. \A q \in Procs : pc'[q] # "set"
    BY <2>1, <2>2
  <2>7. \A u \in Threads : pc'[u] \in {"arrivals", "record"} => parking'
    BY <2>1, <2>2
  <2>8. \A u \in Threads : Told(u)' \/ pc'[u] \in {"arrivals", "record"} => parking' /\ line'
    BY <2>2, <2>3, <2>4, <2>7
  <2>9. /\ orphaned' => parking' /\ line'
        /\ \A u \in Threads : Releasing(u)' => ~orphaned'
        /\ \A u \in Threads : after'[u] # "idle"
    BY <2>1, <2>2, <2>3
  <2>10. (parking' => line') /\ (pausing' => line')
    BY <2>3
  <2>11. QED
    BY <2>5, <2>6, <2>8, <2>9, <2>10
<1>25. ASSUME NEW p \in Pausers, PauseArm(p) PROVE Armed'
  BY <1>25 DEF PauseArm, Goto, RefreshThen
<1>26. ASSUME NEW S \in SUBSET Threads, LetThreadsGo(S) PROVE Armed'
  BY <1>26 DEF LetThreadsGo
<1>27. CASE UNCHANGED vars
  BY <1>27 DEF vars, state, world
<1>28. QED
  BY <1>1, <1>2, <1>3, <1>4, <1>5, <1>6, <1>7, <1>8, <1>9, <1>10, <1>11, <1>12, <1>13, <1>14, <1>15, <1>16, <1>17, <1>18, <1>19, <1>20, <1>21, <1>22, <1>23, <1>24, <1>25, <1>26, <1>27
  DEF Next, Parks, Claims, Stops, Leaves, Refresh

-----------------------------------------------------------------------------
\* What runs in a stopped world is listed as native by the last stop of it, or
\* was let go since.
LEMMA CaughtStep ==
    ASSUME ~FreeThreaded, Types, Kept, OneAnswers, Armed, Caught, [Next]_vars PROVE Caught'
<1> USE WorldAssumption DEF Types, TypeOK, Procs, Asking, AskerIsListed, Kept, Releasing, OneAnswers, Answering, Armed, Told, Loose, Caught, state, world
<1>1. ASSUME NEW t \in Threads, EnterC(t) PROVE Caught'
  BY <1>1 DEF EnterC, Goto
<1>2. ASSUME NEW t \in Threads, LeaveC(t) PROVE Caught'
  BY <1>2 DEF LeaveC, Goto
<1>3. ASSUME NEW t \in Threads, Hit(t) PROVE Caught'
  BY <1>3 DEF Hit, Goto
<1>4. ASSUME NEW t \in Threads, LineParks(t) PROVE Caught'
  BY <1>4 DEF LineParks, Goto
<1>5. ASSUME NEW t \in Threads, ParkPush(t) PROVE Caught'
  BY <1>5 DEF ParkPush, Goto
<1>6. ASSUME NEW t \in Threads, ParkCheck(t) PROVE Caught'
  BY <1>6 DEF ParkCheck, Goto
<1>7. ASSUME NEW t \in Threads, ParkSleep(t) PROVE Caught'
  BY <1>7 DEF ParkSleep, Goto
<1>8. ASSUME NEW t \in Threads, ParkWake(t) PROVE Caught'
  BY <1>8 DEF ParkWake, Goto
<1>9. ASSUME NEW t \in Threads, LineClaimsPause(t) PROVE Caught'
  BY <1>9 DEF LineClaimsPause, Goto, RefreshThen
<1>10. ASSUME NEW t \in Threads, EnterPaused(t) PROVE Caught'
  BY <1>10 DEF EnterPaused, Goto
<1>11. ASSUME NEW t \in Threads, AskWorld(t) PROVE Caught'
  BY <1>11 DEF AskWorld, Goto
<1>12. ASSUME NEW t \in Threads, StoreParking(t) PROVE Caught'
  BY <1>12 DEF StoreParking, Goto, RefreshThen
<1>13. ASSUME NEW t \in Threads, Arrivals(t) PROVE Caught'
  BY <1>13 DEF Arrivals, Goto
<1>14. ASSUME NEW t \in Threads, Record(t) PROVE Caught'
  BY <1>14 DEF Record, Goto
<1>15. ASSUME NEW t \in Threads, GiveUp(t) PROVE Caught'
  BY <1>15 DEF GiveUp, Goto, LastToLeave, Others
<1>16. ASSUME NEW t \in Threads, Restart(t) PROVE Caught'
  BY <1>16 DEF Restart, Goto, RefreshThen
<1>17. ASSUME NEW t \in Threads, Woken(t) PROVE Caught'
  BY <1>17 DEF Woken, Goto
<1>18. ASSUME NEW t \in Threads, LeaveRegistry(t) PROVE Caught'
  BY <1>18 DEF LeaveRegistry, Goto
<1>19. ASSUME NEW t \in Threads, Release(t) PROVE Caught'
  <2>1. /\ pc[t] = "leaving"
        /\ asked' = [asked EXCEPT ![t] = 0]
        /\ native' = IF LastToLeave(t) THEN {} ELSE native
        /\ UNCHANGED <<parking, parked, registered, targets, arrived>>
    BY <1>19 DEF Release, Remove
  <2>2. \/ pc' = [pc EXCEPT ![t] = "refresh"] /\ after' = [after EXCEPT ![t] = "letGo"]
        \/ pc' = [pc EXCEPT ![t] = "refresh"] /\ after' = [after EXCEPT ![t] = "python"]
        \/ pc' = [pc EXCEPT ![t] = "python"] /\ after' = after
    BY <1>19 DEF Release, Return, RefreshThen, Goto
  <2>3. \A u \in Threads : ~Asking(t) /\ ~Asking(t)' /\ (Asking(u)' <=> Asking(u))
    BY <2>1, <2>2
  <2>4. \A u \in Threads : u \in parked' <=> pc'[u] \in {"check", "sleep", "asleep"}
    BY <2>1, <2>2
  <2>5. /\ \A u \in Threads : Asking(u)' => Threads \ targets' \subseteq registered'
        /\ \A u \in Threads : pc'[u] = "record" => arrived' \subseteq parked'
    BY <2>1, <2>2, <2>3
  <2>6. ASSUME NEW u \in Threads, NEW v \in Threads, Told(u)', Loose(v)'
        PROVE  v \in native' \cup letGo'
    <3>1. u # t /\ asked'[u] > 0 /\ asked[u] > 0 /\ Told(u)
      BY <2>1, <2>3, <2>6
    <3>2. ~LastToLeave(t)
      BY <3>1 DEF LastToLeave, Others
    <3>3. letGo' = {w \in letGo \cup {t} : Asked'}
      BY <1>19, <3>2 DEF Release, Return
    <3>4. Asked'
      BY <3>1 DEF Asked
    <3>5. letGo' = letGo \cup {t} /\ native' = native
      BY <2>1, <3>2, <3>3, <3>4
    <3>6. v = t \/ Loose(v)
      BY <2>2, <2>6
    <3>7. QED
      BY <3>1, <3>5, <3>6
  <2>7. QED
    BY <2>4, <2>5, <2>6
<1>20. ASSUME NEW t \in Threads, LetGoStore(t) PROVE Caught'
  BY <1>20 DEF LetGoStore, Goto
<1>21. ASSUME NEW t \in Threads, LetGoNotify(t) PROVE Caught'
  <2>1. /\ pc[t] = "notify"
        /\ UNCHANGED <<parking, asked, orphaned, native, parked, registered, targets, arrived>>
    BY <1>21 DEF LetGoNotify
  <2>2. \/ /\ pc' = [pc EXCEPT ![t] = "held"] /\ after' = after
           /\ letGo' = letGo
        \/ /\ \/ pc' = [pc EXCEPT ![t] = "refresh"] /\ after' = [after EXCEPT ![t] = "python"]
              \/ pc' = [pc EXCEPT ![t] = "python"] /\ after' = after
           /\ letGo' = {w \in letGo \cup {t} : Asked'}
    BY <1>21 DEF LetGoNotify, Return, RefreshThen, Goto
  <2>3. \A u \in Threads : ~Asking(t) /\ ~Asking(t)' /\ (Asking(u)' <=> Asking(u))
    BY <2>1, <2>2
  <2>4. \A u \in Threads : Told(u)' <=> Told(u)
    BY <2>1, <2>3
  <2>5. \A u \in Threads : u \in parked' <=> pc'[u] \in {"check", "sleep", "asleep"}
    BY <2>1, <2>2
  <2>6. /\ \A u \in Threads : Asking(u)' => Threads \ targets' \subseteq registered'
        /\ \A u \in Threads : pc'[u] = "record" => arrived' \subseteq parked'
    BY <2>1, <2>2, <2>3
  <2>7. ASSUME NEW u \in Threads, NEW v \in Threads, Told(u)', Loose(v)'
        PROVE  v \in native' \cup letGo'
    <3>1. Told(u) /\ asked'[u] > 0
      BY <2>1, <2>4, <2>7
    <3>2. Asked'
      BY <3>1 DEF Asked
    <3>3. \/ v = t /\ letGo' = letGo \cup {t}
          \/ Loose(v) /\ letGo \subseteq letGo'
      BY <2>2, <2>7, <3>2
    <3>4. QED
      BY <2>1, <3>1, <3>3
  <2>8. QED
    BY <2>5, <2>6, <2>7
<1>22. ASSUME NEW t \in Threads, RefreshFails(t) PROVE Caught'
  BY <1>22 DEF RefreshFails, Goto
<1>23. ASSUME NEW p \in Procs, RefreshRead(p) PROVE Caught'
  BY <1>23 DEF RefreshRead, Goto
<1>24. ASSUME NEW p \in Procs, RefreshSet(p) PROVE Caught'
  BY <1>24 DEF RefreshSet, Goto
<1>25. ASSUME NEW p \in Pausers, PauseArm(p) PROVE Caught'
  BY <1>25 DEF PauseArm, Goto, RefreshThen
<1>26. ASSUME NEW S \in SUBSET Threads, LetThreadsGo(S) PROVE Caught'
  <2>1. /\ \A t \in registered : pc[t] = "held"
        /\ UNCHANGED <<parking, pausing, line, asked, orphaned, native, parked, targets,
                       arrived, letGo, pc, after>>
    BY <1>26 DEF LetThreadsGo, EngineIdle
  <2>2. \A t \in Threads : ~Asking(t)
    BY <2>1
  <2>3. \A t \in Threads : ~Asking(t)'
    BY <2>1, <2>2
  <2>4. \A t \in Threads : (Told(t)' <=> Told(t)) /\ (Loose(t)' <=> Loose(t))
    BY <2>1, <2>2, <2>3
  <2>5. QED
    BY <2>1, <2>3, <2>4
<1>27. CASE UNCHANGED vars
  BY <1>27 DEF vars, state, world
<1>28. QED
  BY <1>1, <1>2, <1>3, <1>4, <1>5, <1>6, <1>7, <1>8, <1>9, <1>10, <1>11, <1>12, <1>13, <1>14, <1>15, <1>16, <1>17, <1>18, <1>19, <1>20, <1>21, <1>22, <1>23, <1>24, <1>25, <1>26, <1>27
  DEF Next, Parks, Claims, Stops, Leaves, Refresh

\* With a GIL a pause, or a request for the world, reaches every thread that runs
\* python: what runs while a stop was told the world is stopped is in the list of
\* native threads it was given, or was let go since, and LINE is armed for as long
\* as either lasts (world::stop, world::release_with, session::refresh_events).
THEOREM NoneIsPassedByWithGIL ==
    ASSUME ~FreeThreaded
    PROVE  Spec => []NoneIsPassedBy
<1>1. Init => Kept /\ OneAnswers /\ Armed /\ Caught
  <2> SUFFICES ASSUME Init PROVE Kept /\ OneAnswers /\ Armed /\ Caught
    OBVIOUS
  <2>1. /\ \A t \in Threads : pc[t] = "python" /\ asked[t] = 0 /\ ending[t] = "resume"
        /\ \A p \in Procs : pc[p] \in {"python", "idle"} /\ after[p] = "python"
    BY DEF Init, Procs
  <2>2. \A t \in Threads : ~Asking(t) /\ ~Answering(t) /\ ~Releasing(t) /\ ~Told(t)
    BY <2>1 DEF Asking, Answering, Releasing, Told
  <2>3. Kept /\ OneAnswers /\ Caught
    BY <2>1, <2>2 DEF Init, Kept, OneAnswers, Caught
  <2>4. Armed
    BY <2>1, <2>2 DEF Init, Armed, Interpreting, Procs
  <2>5. QED
    BY <2>3, <2>4
<1>2. Types /\ Kept /\ [Next]_vars => Kept'
  BY KeptStep
<1>3. Types /\ OneAnswers /\ [Next]_vars => OneAnswers'
  BY OneAnswersStep
<1>4. Types /\ Kept /\ OneAnswers /\ Armed /\ [Next]_vars => Armed'
  BY ArmedStep
<1>5. Types /\ Kept /\ OneAnswers /\ Armed /\ Caught /\ [Next]_vars => Caught'
  BY CaughtStep
<1>6. Types /\ Armed /\ Caught => NoneIsPassedBy
  <2> SUFFICES ASSUME Types, Armed, Caught PROVE NoThreadEscapes /\ LineWhileWanted
    BY DEF NoneIsPassedBy
  <2>1. NoThreadEscapes
    BY DEF Types, TypeOK, Caught, NoThreadEscapes, WorldStopped, Running, Told, Asking, Loose
  <2>2. LineWhileWanted
    BY DEF Armed, LineWhileWanted, Quiet, Interpreting
  <2>3. QED
    BY <2>1, <2>2
<1>7. QED
  BY <1>1, <1>2, <1>3, <1>4, <1>5, <1>6, TypesAlways, PTL DEF Spec

-----------------------------------------------------------------------------
(***************************************************************************)
(* The breakpoint table (Breakpoints).  What is armed, and the lines its   *)
(* code objects have.                                                      *)
(***************************************************************************)
Sites == [code : Codes, line : Nat, plan : Plans]

\* The types, as far as the arguments below need them.
Typed ==
    /\ code = [known |-> code.known, roots |-> code.roots, whole |-> code.whole]
    /\ code.roots \in [Files -> SUBSET Codes] /\ code.whole \subseteq Files
    /\ ran \in [loading : SUBSET Codes, loaded : SUBSET Codes, code : SUBSET Codes]
    /\ set = [plans |-> set.plans, armed |-> set.armed, fired |-> set.fired,
              reported |-> set.reported]
    /\ set.plans \subseteq Plans /\ set.armed \subseteq Sites
    /\ instr = [local |-> instr.local, forgotten |-> instr.forgotten]
    /\ work \in [Runners -> [plans : SUBSET Plans, acted : SUBSET Nat, on : BOOLEAN]]
    /\ count \in [Plans -> Nat] /\ acts \in [Plans -> Nat]
    /\ left \in [sets : 0..MaxSets, hits : Nat, replaced : Nat]

-----------------------------------------------------------------------------
(* What each plan has done.                                                *)

\* A breakpoint of that id has acted.
HasActed(id) == \E q \in Plans : q.request.id = id /\ acts[q] > 0

\* Whatever is watched, run or acted waited for nothing that has not acted.
InTurn ==
    /\ \A id \in set.fired : HasActed(id)
    /\ \A t \in Runners : \A id \in work[t].acted : HasActed(id)
    /\ \A a \in set.armed : a.plan.request.after # 0 => a.plan.request.after \in set.fired
    /\ \A t \in Runners : \A p \in work[t].plans :
          p.request.after # 0 => HasActed(p.request.after)
    /\ \A p \in Plans : acts[p] > 0 /\ p.request.after # 0 => HasActed(p.request.after)

\* A breakpoint that no set leaves out.
Always(r) == \A s \in Sets : r \in s

\* A request has one plan at a time, and one that is asked for always keeps it.
OnePlan ==
    /\ \A p, q \in set.plans : p.request = q.request => p = q
    /\ \A a \in set.armed : a.plan \in set.plans
    /\ \A t \in Runners : \A p \in work[t].plans : Always(p.request) => p \in set.plans
    /\ \A p \in Plans : acts[p] > 0 /\ Always(p.request) => p \in set.plans

\* The count of a plan passes the hit it acts on once.
Counted ==
    \A p \in Plans : p.request.hits # 0 =>
        acts[p] = 0 \/ (acts[p] = 1 /\ count[p] >= p.request.hits)

-----------------------------------------------------------------------------
(* What is armed, and what runs.                                           *)

\* A line that is armed is one of its code object, which is of the file of the
\* breakpoint, of which everything is known; and it is offered.
SitesAreReal ==
    /\ instr.local = CodesOf(set.armed)
    /\ \A a \in set.armed :
          /\ a.line \in Shape[a.code].lines /\ Shape[a.code].file \in code.whole
          /\ <<a.code, a.line>> \notin instr.forgotten

Acting == Typed /\ InTurn /\ OnePlan /\ Counted

\* What is loaded, not put in by a replacement.
Original(m) == Shape[m].module /\ \A tree \in Trees : m # tree.module

\* What runs of a file was made by its module, and is known if its file is.
Known ==
    /\ \A m \in ran.loading : Original(m) /\ m \notin ran.loaded
    /\ \A c \in ran.code :
          \E m \in ran.loaded : Original(m) /\ Shape[m].file = Shape[c].file
    /\ \A f \in code.whole : \E m \in ran.loaded : Original(m) /\ Shape[m].file = f
    /\ \A c \in ran.code : Shape[c].file \in code.whole => c \in UnitsFor(code, Shape[c].file)

Watching == Typed /\ SitesAreReal
Bound == Watching /\ Known /\ BoundIsRun

\* A file is loaded once, a code object is of the file it is compiled from, and a
\* replacement makes every function anew.
Ordinary ==
    /\ \A m, n \in Codes : Original(m) /\ Original(n) /\ Shape[m].file = Shape[n].file => m = n
    /\ \A c \in Codes : \A d \in Shape[c].holds : Shape[d].file = Shape[c].file
    /\ \A tree \in Trees : \A c \in DOMAIN tree.becomes :
          ~Shape[c].module => tree.becomes[c].differs

-----------------------------------------------------------------------------
(* What a resolution arms.                                                 *)

\* What waits for another is armed once that one has acted.
LEMMA NowIsInTurn ==
    ASSUME NEW plans, NEW r, NEW fired, Arming(plans, r, fired) = "now"
    PROVE  r.after # 0 => r.after \in fired
BY DEF Arming

\* What hangs under the roots of a file are code objects of it.
LEMMA UnitsAreCodes ==
    ASSUME NEW k, k.roots \in [Files -> SUBSET Codes], NEW f \in Files
    PROVE  \A c \in UnitsFor(k, f) : c \in Codes /\ Shape[c].file = f
BY BreakpointsAssumption DEF UnitsFor

\* A bound breakpoint is at every code object of its file that has its line, and
\* the file is known whole.
LEMMA BoundSites ==
    ASSUME NEW k, NEW r, NEW c \in Binding(k, r).sites
    PROVE  /\ r.file \in k.whole /\ c \in UnitsFor(k, r.file)
           /\ Binding(k, r).line \in Shape[c].lines
           /\ \A d \in UnitsFor(k, r.file) :
                 Binding(k, r).line \in Shape[d].lines => d \in Binding(k, r).sites
<1> DEFINE units == UnitsFor(k, r.file)
           later == {n \in UNION {Shape[d].lines : d \in units} : n >= r.line}
           at == Least(later)
           bound == [why |-> "bound", line |-> at, sites |-> {d \in units : at \in Shape[d].lines}]
<1>1. \A why : c \notin Unbound(why).sites
  BY DEF Unbound
<1>2. /\ r.file \in k.whole
      /\ Binding(k, r) = bound
  BY <1>1 DEF Binding
<1> HIDE DEF at, units
<1>3. c \in units /\ bound.line = at /\ bound.sites = {d \in units : at \in Shape[d].lines}
  BY <1>2
<1>4. QED
  BY <1>2, <1>3 DEF units

\* What a resolution arms is of the plans, in turn, at lines of code objects of
\* their files, and at every code object that has the line.
LEMMA ArmedSites ==
    ASSUME NEW k, k.roots \in [Files -> SUBSET Codes], k.whole \subseteq Files,
           NEW plans \in SUBSET Plans, NEW fired, NEW a \in ArmedBy(k, plans, fired)
    PROVE  /\ a \in Sites /\ a.plan \in plans
           /\ a.line \in Shape[a.code].lines
           /\ Shape[a.code].file = a.plan.request.file /\ a.plan.request.file \in k.whole
           /\ a.plan.request.after # 0 => a.plan.request.after \in fired
           /\ \A c \in UnitsFor(k, a.plan.request.file) :
                 a.line \in Shape[c].lines
                   => [code |-> c, line |-> a.line, plan |-> a.plan] \in ArmedBy(k, plans, fired)
<1>1. PICK p \in plans :
         /\ Arming(plans, p.request, fired) = "now"
         /\ \E c \in Binding(k, p.request).sites :
               a = [code |-> c, line |-> Binding(k, p.request).line, plan |-> p]
  BY DEF ArmedBy
<1>2. PICK c \in Binding(k, p.request).sites :
         a = [code |-> c, line |-> Binding(k, p.request).line, plan |-> p]
  BY <1>1
<1>3. a.code = c /\ a.line = Binding(k, p.request).line /\ a.plan = p
  BY <1>2
<1>4. p.request.file \in k.whole /\ c \in UnitsFor(k, p.request.file) /\ a.line \in Shape[c].lines
  BY <1>3, BoundSites
<1>5. c \in Codes /\ Shape[c].file = p.request.file
  BY <1>4, UnitsAreCodes
<1>6. a.line \in Nat
  BY <1>4, <1>5, BreakpointsAssumption
<1>7. p.request.after # 0 => p.request.after \in fired
  BY <1>1, NowIsInTurn
<1>8. ASSUME NEW d \in UnitsFor(k, p.request.file), a.line \in Shape[d].lines
      PROVE  [code |-> d, line |-> a.line, plan |-> p] \in ArmedBy(k, plans, fired)
  <2>1. d \in Binding(k, p.request).sites
    BY <1>3, <1>8, BoundSites
  <2>2. QED
    BY <1>1, <1>3, <2>1 DEF ArmedBy
<1>9. a \in Sites
  <2>1. a = [code |-> c, line |-> a.line, plan |-> p]
    BY <1>2, <1>3
  <2>2. QED
    BY <1>5, <1>6, <2>1 DEF Sites
<1>10. QED
  BY <1>3, <1>4, <1>5, <1>7, <1>8, <1>9

\* What a resolution leaves behind.
LEMMA Resolves ==
    ASSUME NEW k, NEW plans, NEW fired, NEW but, NEW announce,
           ResolveAll(k, plans, fired, but, announce)
    PROVE  /\ code' = k
           /\ set' = [plans |-> set'.plans, armed |-> set'.armed, fired |-> set'.fired,
                      reported |-> set'.reported]
           /\ set'.plans = plans /\ set'.armed = ArmedBy(k, plans, fired) /\ set'.fired = fired
           /\ instr' = [local |-> instr'.local, forgotten |-> instr'.forgotten]
           /\ instr'.local = (instr.local \ CodesOf(set.armed)) \cup CodesOf(set'.armed)
           /\ instr'.forgotten = but
<1>1. PICK reported :
         /\ code' = k
         /\ set' = [plans |-> plans, armed |-> ArmedBy(k, plans, fired), fired |-> fired,
                    reported |-> reported]
         /\ instr' = Arm(set.armed, ArmedBy(k, plans, fired), but)
  BY DEF ResolveAll
<1>2. QED
  BY <1>1 DEF Arm

-----------------------------------------------------------------------------
(* The types are kept.                                                     *)

\* The set, the registry and the interpreter's events, where they change.
Reset ==
    /\ code' = [known |-> code'.known, roots |-> code'.roots, whole |-> code'.whole]
    /\ code'.roots \in [Files -> SUBSET Codes] /\ code'.whole \subseteq Files
    /\ set' = [plans |-> set'.plans, armed |-> set'.armed, fired |-> set'.fired,
               reported |-> set'.reported]
    /\ set'.plans \subseteq Plans /\ set'.armed \subseteq Sites
    /\ instr' = [local |-> instr'.local, forgotten |-> instr'.forgotten]

\* A registry of the files and the code objects.
IsRegistry(k) ==
    /\ k = [known |-> k.known, roots |-> k.roots, whole |-> k.whole]
    /\ k.roots \in [Files -> SUBSET Codes] /\ k.whole \subseteq Files

\* A resolution of plans against a registry keeps them.
LEMMA ResolvedReset ==
    ASSUME NEW k, IsRegistry(k), NEW plans \in SUBSET Plans, NEW fired, NEW but, NEW announce,
           ResolveAll(k, plans, fired, but, announce)
    PROVE  Reset
<1>1. ArmedBy(k, plans, fired) \subseteq Sites
  BY ArmedSites DEF IsRegistry
<1>2. QED
  BY <1>1, Resolves DEF Reset, IsRegistry

\* A code object that is registered, and a tree that is put in, make one of one.
LEMMA Registers ==
    ASSUME Typed, NEW c \in Codes
    PROVE  /\ IsRegistry(code)
           /\ IsRegistry(Register(c)) /\ IsRegistry(Adopt(code, c))
           /\ Register(c).whole = IF Shape[c].module THEN code.whole \cup {Shape[c].file} ELSE code.whole
           /\ Register(c).roots = [code.roots EXCEPT ![Shape[c].file] = @ \cup {c}]
           /\ Adopt(code, c).whole = code.whole \cup {Shape[c].file}
           /\ Adopt(code, c).roots = [code.roots EXCEPT ![Shape[c].file] = {c}]
<1>1. Shape[c].file \in Files
  BY DEF Files
<1>2. IsRegistry(code)
  BY DEF Typed, IsRegistry
<1>3. /\ Register(c) = [known |-> Register(c).known, roots |-> Register(c).roots, whole |-> Register(c).whole]
      /\ Register(c).whole = IF Shape[c].module THEN code.whole \cup {Shape[c].file} ELSE code.whole
      /\ Register(c).roots = [code.roots EXCEPT ![Shape[c].file] = @ \cup {c}]
  BY DEF Register
<1>4. /\ Adopt(code, c) = [known |-> code.known \cup {Shape[c].file},
                           roots |-> [code.roots EXCEPT ![Shape[c].file] = {c}],
                           whole |-> code.whole \cup {Shape[c].file}]
  BY DEF Adopt
<1>5. IsRegistry(Register(c))
  BY <1>1, <1>2, <1>3 DEF IsRegistry
<1>6. IsRegistry(Adopt(code, c))
  BY <1>1, <1>2, <1>4 DEF IsRegistry
<1>7. QED
  BY <1>2, <1>3, <1>4, <1>5, <1>6

\* A step that resolves the set, against what registry and which plans.
LEMMA Settling ==
    ASSUME Typed, NEW k, IsRegistry(k), NEW plans \in SUBSET Plans, NEW fired, NEW but, NEW announce,
           ResolveAll(k, plans, fired, but, announce)
    PROVE  /\ Reset /\ code' = k /\ set'.plans = plans /\ set'.fired = fired
           /\ set'.armed = ArmedBy(code', set'.plans, set'.fired)
           /\ instr'.local = (instr.local \ CodesOf(set.armed)) \cup CodesOf(set'.armed)
           /\ instr'.forgotten = but
BY Resolves, ResolvedReset

\* The plans of a set are plans.
LEMMA Compiled ==
    ASSUME Typed, NEW requests \in Sets, left.sets > 0
    PROVE  /\ Compile(requests) \in SUBSET Plans
           /\ \A p \in set.plans : p.request \in requests => p \in Compile(requests)
           /\ \A p \in Compile(requests) : p \in set.plans \/
                 /\ p = [request |-> p.request, minted |-> MaxSets + 1 - left.sets]
                 /\ p.request \notin {q.request : q \in set.plans}
<1> DEFINE mint == MaxSets + 1 - left.sets
           fresh == {[request |-> r, minted |-> mint] : r \in requests \ {q.request : q \in set.plans}}
<1>1. mint \in 1..MaxSets
  BY BreakpointsAssumption DEF Typed
<1>2. \A r \in requests : r \in Requests
  BY DEF Requests
<1> HIDE DEF mint
<1>3. fresh \subseteq Plans
  BY <1>1, <1>2 DEF Plans
<1>4. \A p \in fresh : p = [request |-> p.request, minted |-> mint]
                       /\ p.request \notin {q.request : q \in set.plans}
  OBVIOUS
<1>5. Compile(requests) = {p \in set.plans : p.request \in requests} \cup fresh
  BY DEF Compile, mint
<1>6. set.plans \subseteq Plans
  BY DEF Typed
<1> HIDE DEF fresh
<1>7. QED
  BY <1>3, <1>4, <1>5, <1>6 DEF mint

\* What a step does to the set: it resolves it against what it leaves registered,
\* or leaves its plans and what is armed as they are.
Anew ==
    /\ set'.armed = ArmedBy(code', set'.plans, set'.fired)
    /\ instr'.local = (instr.local \ CodesOf(set.armed)) \cup CodesOf(set'.armed)
    /\ \A c \in Codes, n \in Nat : n # 0 => <<c, n>> \notin instr'.forgotten

AsItWas ==
    /\ set'.armed = set.armed /\ set'.plans = set.plans
    /\ instr'.local = instr.local /\ code.whole \subseteq code'.whole
    /\ \A a \in set.armed :
          a.line # 0 /\ <<a.code, a.line>> \in instr'.forgotten
             => PlansAt(a.code, a.line) = {} \/ <<a.code, a.line>> \in instr.forgotten

\* The breakpoints that acted are those of hits that were run.
Grows ==
    /\ set.fired \subseteq set'.fired
    /\ \A id \in set'.fired : id \in set.fired \/ \E t \in Runners : id \in work[t].acted


\* A step that touches neither the set nor what it is bound into.
LEMMA LeftAlone ==
    ASSUME Typed, UNCHANGED <<code, set, instr>>
    PROVE  Reset /\ AsItWas /\ Grows
BY DEF Typed, Reset, AsItWas, Grows

\* A set that is asked for is resolved against what is registered.
LEMMA SetBreakpointsResets ==
    ASSUME Typed, NEW requests \in Sets, SetBreakpoints(requests)
    PROVE  /\ Reset /\ Anew /\ Grows /\ UNCHANGED <<code, set.fired>>
           /\ left.sets > 0 /\ set'.plans = Compile(requests)
<1>1. /\ left.sets > 0 /\ ResolveAll(code, Compile(requests), set.fired, {}, FALSE)
  BY DEF SetBreakpoints
<1>2. IsRegistry(code)
  BY DEF Typed, IsRegistry
<1>3. Compile(requests) \in SUBSET Plans
  BY <1>1, Compiled
<1>4. /\ Reset /\ code' = code /\ set'.plans = Compile(requests) /\ set'.fired = set.fired
      /\ set'.armed = ArmedBy(code', set'.plans, set'.fired)
      /\ instr'.local = (instr.local \ CodesOf(set.armed)) \cup CodesOf(set'.armed)
      /\ instr'.forgotten = {}
  BY <1>1, <1>2, <1>3, Settling
<1>5. Anew
  BY <1>4 DEF Anew
<1>6. Grows
  BY <1>4 DEF Grows
<1>7. QED
  BY <1>1, <1>4, <1>5, <1>6

\* A replacement resolves the set against the tree it puts in.
LEMMA ReplaceCodeResets ==
    ASSUME Typed, NEW tree \in Trees, ReplaceCode(tree)
    PROVE  /\ Reset /\ Anew /\ Grows /\ UNCHANGED set.plans
           /\ code' = Adopt(code, tree.module)
<1>1. ResolveAll(Adopt(code, tree.module), set.plans, set.fired, {}, TRUE)
  BY DEF ReplaceCode
<1>2. IsRegistry(Adopt(code, tree.module))
  BY Registers, BreakpointsAssumption
<1>3. set.plans \in SUBSET Plans
  BY DEF Typed
<1>4. /\ Reset /\ code' = Adopt(code, tree.module) /\ set'.plans = set.plans /\ set'.fired = set.fired
      /\ set'.armed = ArmedBy(code', set'.plans, set'.fired)
      /\ instr'.local = (instr.local \ CodesOf(set.armed)) \cup CodesOf(set'.armed)
      /\ instr'.forgotten = {}
  BY <1>1, <1>2, <1>3, Settling
<1>5. Anew
  BY <1>4 DEF Anew
<1>6. Grows
  BY <1>4 DEF Grows
<1>7. QED
  BY <1>4, <1>5, <1>6

\* A code object that starts resolves the set, or is forgotten until a restart.
LEMMA StartResets ==
    ASSUME Typed, NEW t \in Runners, NEW c \in Codes, Start(t, c)
    PROVE  /\ Reset /\ (Anew \/ AsItWas) /\ Grows /\ UNCHANGED set.plans
           /\ code' = Register(c)
<1>1. IsRegistry(Register(c)) /\ code.whole \subseteq Register(c).whole
  BY Registers
<1>2. set.plans \in SUBSET Plans
  BY DEF Typed
<1>3. CASE ResolveAll(Register(c), set.plans, set.fired, {<<c, 0>>}, TRUE)
  <2>1. \A d \in Codes, n \in Nat : n # 0 => <<d, n>> \notin {<<c, 0>>}
    OBVIOUS
  <2>2. /\ Reset /\ code' = Register(c) /\ set'.plans = set.plans /\ set'.fired = set.fired
        /\ set'.armed = ArmedBy(code', set'.plans, set'.fired)
        /\ instr'.local = (instr.local \ CodesOf(set.armed)) \cup CodesOf(set'.armed)
        /\ instr'.forgotten = {<<c, 0>>}
    BY <1>1, <1>2, <1>3, Settling
  <2>3. Anew
    BY <2>1, <2>2 DEF Anew
  <2>4. Grows
    BY <2>2 DEF Grows
  <2>5. QED
    BY <2>2, <2>3, <2>4
<1>4. CASE /\ code' = Register(c)
           /\ instr' = [instr EXCEPT !.forgotten = @ \cup {<<c, 0>>}]
           /\ UNCHANGED <<set, told>>
  <2>1. instr = [local |-> instr.local, forgotten |-> instr.forgotten]
    BY DEF Typed
  <2>2. instr' = [local |-> instr.local, forgotten |-> instr.forgotten \cup {<<c, 0>>}]
    BY <1>4, <2>1
  <2>3. Reset
    BY <1>1, <1>4, <2>2 DEF Typed, Reset, IsRegistry
  <2>4. \A d, n : n # 0 => <<d, n>> # <<c, 0>>
    OBVIOUS
  <2>5. AsItWas
    BY <1>1, <1>4, <2>2, <2>4 DEF AsItWas
  <2>6. QED
    BY <1>4, <2>3, <2>5 DEF Grows
<1>5. QED
  BY <1>3, <1>4 DEF Start

\* Only a line that nothing is armed at is forgotten.
LEMMA LineOfNobodyResets ==
    ASSUME Typed, NEW t \in Runners, NEW c \in Codes, NEW n \in Shape[c].lines, LineOfNobody(t, c, n)
    PROVE  Reset /\ AsItWas /\ Grows
<1>1. instr = [local |-> instr.local, forgotten |-> instr.forgotten]
  BY DEF Typed
<1>2. /\ instr' = [local |-> instr.local, forgotten |-> instr.forgotten \cup {<<c, n>>}]
      /\ PlansAt(c, n) = {} /\ UNCHANGED <<code, set>>
  BY <1>1 DEF LineOfNobody
<1>3. \A a \in set.armed : <<a.code, a.line>> = <<c, n>> => PlansAt(a.code, a.line) = {}
  BY <1>2
<1>4. AsItWas
  BY <1>2, <1>3 DEF AsItWas
<1>5. QED
  BY <1>2, <1>4 DEF Typed, Reset, Grows

\* A hit that is over arms what waited, or puts down what acted.
LEMMA DecidedResets ==
    ASSUME Typed, NEW t \in Runners, Decided(t)
    PROVE  /\ Reset /\ (Anew \/ AsItWas) /\ Grows /\ UNCHANGED <<set.plans, code>>
<1>1. IsRegistry(code) /\ set.plans \in SUBSET Plans
  BY DEF Typed, IsRegistry
<1>2. CASE ResolveAll(code, set.plans, set.fired \cup work[t].acted, {}, TRUE)
  <2>1. /\ Reset /\ code' = code /\ set'.plans = set.plans /\ set'.fired = set.fired \cup work[t].acted
        /\ set'.armed = ArmedBy(code', set'.plans, set'.fired)
        /\ instr'.local = (instr.local \ CodesOf(set.armed)) \cup CodesOf(set'.armed)
        /\ instr'.forgotten = {}
    BY <1>1, <1>2, Settling
  <2>2. Anew
    BY <2>1 DEF Anew
  <2>3. Grows
    BY <2>1 DEF Grows
  <2>4. QED
    BY <2>1, <2>2, <2>3
<1>3. CASE /\ set' = [set EXCEPT !.fired = @ \cup work[t].acted]
           /\ UNCHANGED <<code, instr, told>>
  <2>1. set = [plans |-> set.plans, armed |-> set.armed, fired |-> set.fired, reported |-> set.reported]
    BY DEF Typed
  <2>2. set' = [plans |-> set.plans, armed |-> set.armed, fired |-> set.fired \cup work[t].acted,
                reported |-> set.reported]
    BY <1>3, <2>1
  <2>3. Grows
    BY <2>2 DEF Grows
  <2>4. Reset
    BY <1>3, <2>2 DEF Typed, Reset
  <2>5. AsItWas
    BY <1>3, <2>2 DEF AsItWas
  <2>6. QED
    BY <1>3, <2>2, <2>3, <2>4, <2>5
<1>4. QED
  BY <1>2, <1>3 DEF Decided

\* What the other actions leave alone.
LEMMA LeaveAlone ==
    ASSUME NEW t, NEW c, NEW n,
           Load(c) \/ HitLine(t, c, n) \/ Declines(t) \/ Fires(t) \/ Raises(t) \/ ConditionImports(t, c)
    PROVE  UNCHANGED <<code, set, instr>>
BY DEF Load, HitLine, Declines, Fires, Raises, ConditionImports

\* Any step.
LEMMA Resets ==
    ASSUME Typed, BreakpointsNext
    PROVE  /\ Reset /\ (Anew \/ AsItWas) /\ Grows
           /\ set'.plans = set.plans \/
                \E requests \in Sets : left.sets > 0 /\ set'.plans = Compile(requests)
<1>1. ASSUME NEW requests \in Sets, SetBreakpoints(requests)
      PROVE  Reset /\ Anew /\ Grows /\ left.sets > 0 /\ set'.plans = Compile(requests)
  BY <1>1, SetBreakpointsResets
<1>2. ASSUME NEW tree \in Trees, ReplaceCode(tree)
      PROVE  Reset /\ Anew /\ Grows /\ UNCHANGED set.plans
  BY <1>2, ReplaceCodeResets
<1>3. ASSUME NEW t \in Runners, NEW c \in Codes, Start(t, c)
      PROVE  Reset /\ (Anew \/ AsItWas) /\ Grows /\ UNCHANGED set.plans
  BY <1>3, StartResets
<1>4. ASSUME NEW t \in Runners, NEW c \in Codes, NEW n \in Shape[c].lines, LineOfNobody(t, c, n)
      PROVE  Reset /\ AsItWas /\ Grows /\ UNCHANGED set.plans
  BY <1>4, LineOfNobodyResets DEF AsItWas
<1>5. ASSUME NEW t \in Runners, Decided(t)
      PROVE  Reset /\ (Anew \/ AsItWas) /\ Grows /\ UNCHANGED set.plans
  BY <1>5, DecidedResets
<1>6. ASSUME NEW t, NEW c, NEW n,
             Load(c) \/ HitLine(t, c, n) \/ Declines(t) \/ Fires(t) \/ Raises(t) \/ ConditionImports(t, c)
      PROVE  Reset /\ AsItWas /\ Grows /\ UNCHANGED set.plans
  BY <1>6, LeaveAlone, LeftAlone DEF AsItWas
<1>7. QED
  BY <1>1, <1>2, <1>3, <1>4, <1>5, <1>6 DEF BreakpointsNext

-----------------------------------------------------------------------------
(* The hits that are run.                                                  *)

\* A set of numbers that is not empty has a least one.
LEMMA HasLeast ==
    ASSUME NEW S \in SUBSET Nat, S # {} PROVE \E m \in S : \A n \in S : m <= n
<1> DEFINE less == {ss \in Nat \X Nat : ss[1] < ss[2]}
<1>1. IsWellFoundedOn(less, Nat)
  BY NatLessThanWellFounded DEF OpToRel
<1>2. PICK m \in S : \A n \in S : ~(<<n, m>> \in less)
  BY <1>1, WFMin
<1>3. ASSUME NEW n \in S PROVE m <= n
  <2>1. <<n, m>> \in Nat \X Nat /\ ~(n < m)
    BY <1>2
  <2>2. QED
    BY <2>1
<1>4. QED
  BY <1>2, <1>3

\* What a plan was asked with.
LEMMA PlanFields ==
    ASSUME NEW p \in Plans
    PROVE  /\ p.request \in Requests /\ p.request.id \in Nat
           /\ p.request.after \in Nat /\ p.request.hits \in Nat
BY BreakpointsAssumption DEF Plans

\* While plans of a hit are left, one of them is due.
LEMMA OneIsDue ==
    ASSUME Typed, NEW t \in Runners, Firing(t)
    PROVE  Due(t) \in work[t].plans /\ Due(t) \in Plans
<1>1. work[t].plans \subseteq Plans /\ work[t].plans # {}
  BY DEF Typed, Firing
<1> DEFINE ids == {p.request.id : p \in work[t].plans}
<1>2. ids \in SUBSET Nat /\ ids # {}
  BY <1>1, PlanFields
<1> HIDE DEF ids
<1>3. PICK least \in ids : \A n \in ids : least <= n
  BY <1>2, HasLeast
<1>4. \E p \in work[t].plans : \A q \in work[t].plans : p.request.id <= q.request.id
  BY <1>3 DEF ids
<1>5. Due(t) \in work[t].plans
  BY <1>4 DEF Due
<1>6. QED
  BY <1>1, <1>5

\* The hits under way, in any state.
Hits == [Runners -> [plans : SUBSET Plans, acted : SUBSET Nat, on : BOOLEAN]]

\* What a step does to the hits: a plan joins one from what is armed, and an id is
\* put down as acted when its plan has.
HitsMove ==
    /\ work' \in Hits /\ count' \in [Plans -> Nat] /\ acts' \in [Plans -> Nat]
    /\ \A t \in Runners : \A p \in work'[t].plans :
          p \in work[t].plans \/ \E a \in set.armed : a.plan = p
    /\ \A t \in Runners : \A id \in work'[t].acted :
          id \in work[t].acted \/ \E q \in Plans : q.request.id = id /\ acts'[q] > 0
    /\ \A p \in Plans : acts[p] > 0 => acts'[p] > 0
    /\ \A p \in Plans : acts'[p] > 0 => acts[p] > 0 \/ \E t \in Runners : p \in work[t].plans
    /\ Counted => Counted'

\* A hit whose plans are others.
LEMMA HitBecomes ==
    ASSUME NEW t \in Runners, work \in Hits, NEW plans
    PROVE  [work EXCEPT ![t].plans = plans]
             = [work EXCEPT ![t] = [plans |-> plans, acted |-> work[t].acted, on |-> work[t].on]]
<1>1. ASSUME NEW w \in [plans : SUBSET Plans, acted : SUBSET Nat, on : BOOLEAN]
      PROVE  [w EXCEPT !.plans = plans] = [plans |-> plans, acted |-> w.acted, on |-> w.on]
  OBVIOUS
<1>2. work[t] \in [plans : SUBSET Plans, acted : SUBSET Nat, on : BOOLEAN]
  BY DEF Hits
<1>3. [work[t] EXCEPT !.plans = plans] = [plans |-> plans, acted |-> work[t].acted, on |-> work[t].on]
  BY <1>1, <1>2
<1>4. [work EXCEPT ![t].plans = plans] = [work EXCEPT ![t] = [work[t] EXCEPT !.plans = plans]]
  BY DEF Hits
<1>5. QED
  BY <1>3, <1>4

\* A step that runs no hit.
LEMMA IdleMoves ==
    ASSUME Typed, UNCHANGED <<work, count, acts>>
    PROVE  HitsMove
BY DEF Typed, HitsMove, Hits, Counted

\* A hit takes the plans that are armed at its line.
LEMMA HitLineMoves ==
    ASSUME Typed, NEW t \in Runners, NEW c, NEW n, HitLine(t, c, n)
    PROVE  HitsMove
<1>1. /\ work' = [work EXCEPT ![t] = [plans |-> PlansAt(c, n), acted |-> {}, on |-> TRUE]]
      /\ UNCHANGED <<count, acts>>
  BY DEF HitLine
<1>2. PlansAt(c, n) \subseteq Plans /\ \A p \in PlansAt(c, n) : \E a \in set.armed : a.plan = p
  BY DEF PlansAt, Typed, Sites
<1>3. work \in Hits
  BY DEF Typed, Hits
<1>4. work' \in Hits
  BY <1>1, <1>2, <1>3 DEF Hits
<1>5. \A s \in Runners : work'[s] = IF s = t THEN [plans |-> PlansAt(c, n), acted |-> {}, on |-> TRUE]
                                             ELSE work[s]
  BY <1>1, <1>3 DEF Hits
<1>6. \A s \in Runners : \A p \in work'[s].plans : p \in work[s].plans \/ \E a \in set.armed : a.plan = p
  BY <1>2, <1>5
<1>7. \A s \in Runners : \A id \in work'[s].acted : id \in work[s].acted
  BY <1>5
<1>8. QED
  BY <1>1, <1>4, <1>6, <1>7 DEF HitsMove, Typed, Counted

\* A hit that loses plans, and counts at most.
LEMMA PassingMoves ==
    ASSUME Typed, NEW t \in Runners, NEW plans, plans \subseteq work[t].plans,
           work' = [work EXCEPT ![t] = [plans |-> plans, acted |-> work[t].acted, on |-> work[t].on]],
           NEW p \in Plans, count' \in {count, [count EXCEPT ![p] = @ + 1]}, UNCHANGED acts
    PROVE  HitsMove
<1>1. work \in Hits /\ count \in [Plans -> Nat] /\ acts \in [Plans -> Nat]
  BY DEF Typed, Hits
<1>2. work[t] \in [plans : SUBSET Plans, acted : SUBSET Nat, on : BOOLEAN]
  BY <1>1 DEF Hits
<1>3. work' \in Hits
  BY <1>1, <1>2 DEF Hits
<1>4. \A s \in Runners : work'[s] = IF s = t THEN [plans |-> plans, acted |-> work[t].acted, on |-> work[t].on]
                                             ELSE work[s]
  BY <1>1 DEF Hits
<1>5. \A s \in Runners : work'[s].plans \subseteq work[s].plans /\ work'[s].acted = work[s].acted
  BY <1>4
<1>6. count' \in [Plans -> Nat] /\ \A q \in Plans : count[q] <= count'[q]
  BY <1>1
<1>7. Counted => Counted'
  <2>1. SUFFICES ASSUME Counted, NEW q \in Plans, q.request.hits # 0, acts'[q] # 0
                 PROVE  acts'[q] = 1 /\ count'[q] >= q.request.hits
    BY DEF Counted
  <2>2. acts[q] = 1 /\ count[q] >= q.request.hits
    BY <2>1 DEF Counted
  <2>3. count[q] \in Nat /\ count'[q] \in Nat /\ q.request.hits \in Nat
    BY <1>1, <1>6, PlanFields
  <2>4. QED
    BY <1>6, <2>2, <2>3
<1>8. QED
  BY <1>1, <1>3, <1>5, <1>6, <1>7 DEF HitsMove

\* A plan whose condition does not hold leaves the hit.
LEMMA DeclinesMoves ==
    ASSUME Typed, NEW t \in Runners, Declines(t)
    PROVE  HitsMove
<1>1. Due(t) \in Plans
  BY OneIsDue DEF Declines
<1> DEFINE rest == work[t].plans \ {Due(t)}
<1>2. work' = [work EXCEPT ![t].plans = rest] /\ UNCHANGED <<count, acts>>
  BY DEF Declines
<1>3. rest \subseteq work[t].plans /\ work \in Hits
  BY DEF Typed, Hits
<1> HIDE DEF rest
<1>4. work' = [work EXCEPT ![t] = [plans |-> rest, acted |-> work[t].acted, on |-> work[t].on]]
  BY <1>2, <1>3, HitBecomes
<1>5. count' \in {count, [count EXCEPT ![Due(t)] = @ + 1]}
  BY <1>2
<1>6. QED
  BY <1>1, <1>2, <1>3, <1>4, <1>5, PassingMoves

\* A plan that raises ends the hit.
LEMMA RaisesMoves ==
    ASSUME Typed, NEW t \in Runners, Raises(t)
    PROVE  HitsMove
<1>1. Due(t) \in Plans
  BY OneIsDue DEF Raises
<1> DEFINE rest == {}
<1>2. /\ work' = [work EXCEPT ![t].plans = rest]
      /\ count' \in {count, [count EXCEPT ![Due(t)] = @ + 1]} /\ UNCHANGED acts
  BY DEF Raises
<1>3. work \in Hits
  BY DEF Typed, Hits
<1>4. work' = [work EXCEPT ![t] = [plans |-> rest, acted |-> work[t].acted, on |-> work[t].on]]
  BY <1>2, <1>3, HitBecomes
<1>5. rest \subseteq work[t].plans
  OBVIOUS
<1> HIDE DEF rest
<1>6. QED
  BY <1>1, <1>2, <1>4, <1>5, PassingMoves

\* A plan that fires is counted, and acts on the hit it was asked for.
LEMMA FiresMoves ==
    ASSUME Typed, NEW t \in Runners, Fires(t)
    PROVE  HitsMove
<1> DEFINE p == Due(t)
           reached == Reached(p.request, count[p] + 1)
           acted == IF reached THEN work[t].acted \cup {p.request.id} ELSE work[t].acted
           rest == work[t].plans \ {p}
<1>1. p \in Plans /\ p \in work[t].plans
  BY OneIsDue DEF Fires
<1>2. /\ count' = [count EXCEPT ![p] = @ + 1]
      /\ work' = [work EXCEPT ![t] = [plans |-> rest, acted |-> acted, on |-> TRUE]]
      /\ acts' = IF reached THEN [acts EXCEPT ![p] = @ + 1] ELSE acts
  BY DEF Fires
<1>3. work \in Hits /\ count \in [Plans -> Nat] /\ acts \in [Plans -> Nat]
  BY DEF Typed, Hits
<1>4. work[t] \in [plans : SUBSET Plans, acted : SUBSET Nat, on : BOOLEAN]
  BY <1>3 DEF Hits
<1>5. acted \subseteq Nat /\ rest \subseteq Plans /\ p.request.id \in Nat /\ p.request.hits \in Nat
  BY <1>1, <1>4, PlanFields
<1>6. \A id \in acted : id \in work[t].acted \/ (reached /\ id = p.request.id)
  OBVIOUS
<1> HIDE DEF p, acted, reached
<1>7. work' \in Hits
  BY <1>2, <1>3, <1>4, <1>5 DEF Hits
<1>8. \A s \in Runners : work'[s] = IF s = t THEN [plans |-> rest, acted |-> acted, on |-> TRUE]
                                             ELSE work[s]
  BY <1>2, <1>3 DEF Hits
<1>9. \A s \in Runners : work'[s].plans \subseteq work[s].plans
  BY <1>8
<1>10. count' \in [Plans -> Nat] /\ count'[p] = count[p] + 1 /\ \A q \in Plans : q # p => count'[q] = count[q]
  BY <1>1, <1>2, <1>3
<1>11. /\ acts' \in [Plans -> Nat] /\ \A q \in Plans : q # p => acts'[q] = acts[q]
       /\ acts'[p] = IF reached THEN acts[p] + 1 ELSE acts[p]
  BY <1>1, <1>2, <1>3
<1>12. \A s \in Runners : \A id \in work'[s].acted :
          id \in work[s].acted \/ \E q \in Plans : q.request.id = id /\ acts'[q] > 0
  <2>1. SUFFICES ASSUME NEW s \in Runners, NEW id \in work'[s].acted, id \notin work[s].acted
                 PROVE  \E q \in Plans : q.request.id = id /\ acts'[q] > 0
    OBVIOUS
  <2>2. s = t /\ id \in acted
    BY <1>8, <2>1
  <2>3. reached /\ id = p.request.id
    BY <1>6, <2>1, <2>2
  <2>4. acts'[p] > 0
    BY <1>1, <1>3, <1>11, <2>3
  <2>5. QED
    BY <1>1, <2>3, <2>4
<1>13. \A q \in Plans : acts[q] > 0 => acts'[q] > 0
  BY <1>1, <1>3, <1>11
<1>14. \A q \in Plans : acts'[q] > 0 => acts[q] > 0 \/ q = p
  BY <1>3, <1>11
<1>15. Counted => Counted'
  <2>1. SUFFICES ASSUME Counted, NEW q \in Plans, q.request.hits # 0, acts'[q] # 0
                 PROVE  acts'[q] = 1 /\ count'[q] >= q.request.hits
    BY DEF Counted
  <2>2. acts[q] = 0 \/ (acts[q] = 1 /\ count[q] >= q.request.hits)
    BY <2>1 DEF Counted
  <2>3. count[q] \in Nat /\ q.request.hits \in Nat
    BY <1>3, PlanFields
  <2>4. CASE q # p
    BY <1>10, <1>11, <2>1, <2>2, <2>4
  <2>5. CASE q = p /\ ~reached
    BY <1>10, <1>11, <2>1, <2>2, <2>3, <2>5
  <2>6. CASE q = p /\ reached
    <3>1. count[p] + 1 = p.request.hits
      BY <2>1, <2>6 DEF Reached, reached
    <3>2. acts[p] = 0
      BY <2>2, <2>3, <2>6, <3>1
    <3>3. QED
      BY <1>10, <1>11, <2>3, <2>6, <3>1, <3>2
  <2>7. QED
    BY <2>4, <2>5, <2>6
<1>16. QED
  BY <1>1, <1>7, <1>9, <1>10, <1>11, <1>12, <1>13, <1>14, <1>15 DEF HitsMove

\* A hit that is over is put away.
LEMMA DecidedMoves ==
    ASSUME Typed, NEW t \in Runners, Decided(t)
    PROVE  HitsMove
<1>1. work' = [work EXCEPT ![t] = NoHit] /\ UNCHANGED <<count, acts>>
  BY DEF Decided
<1>2. work \in Hits
  BY DEF Typed, Hits
<1>3. work' \in Hits
  BY <1>1, <1>2 DEF Hits, NoHit
<1>4. \A s \in Runners : work'[s] = IF s = t THEN NoHit ELSE work[s]
  BY <1>1, <1>2 DEF Hits
<1>5. \A s \in Runners : work'[s].plans \subseteq work[s].plans /\ work'[s].acted \subseteq work[s].acted
  BY <1>4 DEF NoHit
<1>6. QED
  BY <1>1, <1>3, <1>5 DEF HitsMove, Typed, Counted

\* Any step.
LEMMA StepMoves ==
    ASSUME Typed, BreakpointsNext
    PROVE  HitsMove
<1>1. ASSUME NEW requests \in Sets, SetBreakpoints(requests) PROVE HitsMove
  BY <1>1, IdleMoves DEF SetBreakpoints
<1>2. ASSUME NEW tree \in Trees, ReplaceCode(tree) PROVE HitsMove
  BY <1>2, IdleMoves DEF ReplaceCode
<1>3. ASSUME NEW m \in Codes, Load(m) PROVE HitsMove
  BY <1>3, IdleMoves DEF Load
<1>4. ASSUME NEW t \in Runners, NEW c \in Codes, Start(t, c) PROVE HitsMove
  BY <1>4, IdleMoves DEF Start
<1>5. ASSUME NEW t \in Runners, NEW c \in Codes, NEW n \in Shape[c].lines, LineOfNobody(t, c, n)
      PROVE  HitsMove
  BY <1>5, IdleMoves DEF LineOfNobody
<1>6. ASSUME NEW t \in Runners, NEW c \in Codes, ConditionImports(t, c) PROVE HitsMove
  BY <1>6, IdleMoves DEF ConditionImports
<1>7. QED
  BY <1>1, <1>2, <1>3, <1>4, <1>5, <1>6, HitLineMoves, DeclinesMoves, FiresMoves, RaisesMoves,
     DecidedMoves DEF BreakpointsNext

\* What a step does to the program, and to what is left of the bounds.
LEMMA ProgramTyped ==
    ASSUME Typed, BreakpointsNext
    PROVE  /\ ran' \in [loading : SUBSET Codes, loaded : SUBSET Codes, code : SUBSET Codes]
           /\ left' \in [sets : 0..MaxSets, hits : Nat, replaced : Nat]
<1> DEFINE Programs == [loading : SUBSET Codes, loaded : SUBSET Codes, code : SUBSET Codes]
           Bounds == [sets : 0..MaxSets, hits : Nat, replaced : Nat]
<1>1. ran \in Programs /\ left \in Bounds /\ MaxSets \in Nat
  BY BreakpointsAssumption DEF Typed
<1>2. ASSUME NEW requests \in Sets, SetBreakpoints(requests) PROVE ran' \in Programs /\ left' \in Bounds
  BY <1>1, <1>2 DEF SetBreakpoints
<1>3. ASSUME NEW tree \in Trees, ReplaceCode(tree) PROVE ran' \in Programs /\ left' \in Bounds
  <2>1. {tree.becomes[c].new : c \in Changed(tree) \cap ran.code} \subseteq Codes
    BY BreakpointsAssumption DEF Changed
  <2>2. QED
    BY <1>1, <1>3, <2>1 DEF ReplaceCode
<1>4. ASSUME NEW m \in Codes, Load(m) PROVE ran' \in Programs /\ left' \in Bounds
  BY <1>1, <1>4 DEF Load
<1>5. ASSUME NEW t \in Runners, NEW c \in Codes, Start(t, c) PROVE ran' \in Programs /\ left' \in Bounds
  BY <1>1, <1>5, BreakpointsAssumption DEF Start, Runs
<1>6. ASSUME NEW t \in Runners, NEW c \in Codes, NEW n \in Shape[c].lines, LineOfNobody(t, c, n)
      PROVE  ran' \in Programs /\ left' \in Bounds
  BY <1>1, <1>6 DEF LineOfNobody
<1>7. ASSUME NEW t \in Runners, NEW c \in Codes, NEW n \in Shape[c].lines, HitLine(t, c, n)
      PROVE  ran' \in Programs /\ left' \in Bounds
  BY <1>1, <1>7 DEF HitLine
<1>8. ASSUME NEW t \in Runners, NEW c \in Codes, ConditionImports(t, c)
      PROVE  ran' \in Programs /\ left' \in Bounds
  BY <1>1, <1>8, BreakpointsAssumption DEF ConditionImports
<1>9. ASSUME NEW t \in Runners, Declines(t) \/ Fires(t) \/ Raises(t) \/ Decided(t)
      PROVE  ran' \in Programs /\ left' \in Bounds
  BY <1>1, <1>9 DEF Declines, Fires, Raises, Decided
<1>10. QED
  BY <1>2, <1>3, <1>4, <1>5, <1>6, <1>7, <1>8, <1>9 DEF BreakpointsNext

\* The types are kept.
LEMMA TypedStep ==
    ASSUME Typed, [BreakpointsNext]_bvars
    PROVE  Typed'
<1>1. CASE BreakpointsNext
  BY <1>1, Resets, StepMoves, ProgramTyped DEF Typed, Reset, HitsMove, Hits
<1>2. CASE UNCHANGED bvars
  BY <1>2 DEF Typed, bvars
<1>3. QED
  BY <1>1, <1>2

\* What is armed anew is of the plans, and in turn.
LEMMA ArmedAnew ==
    ASSUME Typed, Reset, Anew
    PROVE  \A a \in set'.armed :
             /\ a.plan \in set'.plans
             /\ a.plan.request.after # 0 => a.plan.request.after \in set'.fired
             /\ a.line \in Shape[a.code].lines /\ Shape[a.code].file \in code'.whole
             /\ \A c \in UnitsFor(code', Shape[a.code].file) : a.line \in Shape[c].lines
                   => \E b \in set'.armed : b.code = c /\ b.plan = a.plan
<1>1. code'.roots \in [Files -> SUBSET Codes] /\ code'.whole \subseteq Files
  BY DEF Reset
<1>2. set'.plans \in SUBSET Plans
  BY DEF Reset
<1>3. SUFFICES ASSUME NEW a \in ArmedBy(code', set'.plans, set'.fired)
               PROVE  /\ a.plan \in set'.plans
                      /\ a.plan.request.after # 0 => a.plan.request.after \in set'.fired
                      /\ a.line \in Shape[a.code].lines /\ Shape[a.code].file \in code'.whole
                      /\ \A c \in UnitsFor(code', Shape[a.code].file) : a.line \in Shape[c].lines
                           => \E b \in ArmedBy(code', set'.plans, set'.fired) :
                                 b.code = c /\ b.plan = a.plan
  BY DEF Anew
<1>4. /\ a.plan \in set'.plans
      /\ a.line \in Shape[a.code].lines
      /\ Shape[a.code].file = a.plan.request.file /\ a.plan.request.file \in code'.whole
      /\ a.plan.request.after # 0 => a.plan.request.after \in set'.fired
      /\ \A c \in UnitsFor(code', a.plan.request.file) :
            a.line \in Shape[c].lines
              => [code |-> c, line |-> a.line, plan |-> a.plan] \in ArmedBy(code', set'.plans, set'.fired)
  BY <1>1, <1>2, ArmedSites
<1>5. ASSUME NEW c \in UnitsFor(code', a.plan.request.file), a.line \in Shape[c].lines
      PROVE  \E b \in ArmedBy(code', set'.plans, set'.fired) : b.code = c /\ b.plan = a.plan
  <2>1. [code |-> c, line |-> a.line, plan |-> a.plan] \in ArmedBy(code', set'.plans, set'.fired)
    BY <1>4, <1>5
  <2>2. [code |-> c, line |-> a.line, plan |-> a.plan].code = c
        /\ [code |-> c, line |-> a.line, plan |-> a.plan].plan = a.plan
    OBVIOUS
  <2>3. QED
    BY <2>1, <2>2
<1>6. QED
  BY <1>4, <1>5

\* A step leaves what acted before it as it was.
LEMMA ActedStays ==
    ASSUME HitsMove, NEW id, HasActed(id)
    PROVE  HasActed(id)'
BY DEF HitsMove, HasActed

\* Nothing is armed, run or acts ahead of what it waits for.
LEMMA InTurnStep ==
    ASSUME Typed, InTurn, BreakpointsNext
    PROVE  InTurn'
<1>1. HitsMove /\ Reset /\ (Anew \/ AsItWas) /\ Grows
  BY StepMoves, Resets
<1>2. ASSUME NEW id \in set'.fired PROVE HasActed(id)'
  BY <1>1, <1>2, ActedStays DEF InTurn, Grows
<1>3. ASSUME NEW t \in Runners, NEW id \in work'[t].acted PROVE HasActed(id)'
  <2>1. CASE id \in work[t].acted
    BY <1>1, <2>1, ActedStays DEF InTurn
  <2>2. CASE \E q \in Plans : q.request.id = id /\ acts'[q] > 0
    BY <2>2 DEF HasActed
  <2>3. QED
    BY <1>1, <1>3, <2>1, <2>2 DEF HitsMove
<1>4. ASSUME NEW a \in set'.armed, a.plan.request.after # 0 PROVE a.plan.request.after \in set'.fired
  <2>1. CASE Anew
    BY <1>1, <1>4, <2>1, ArmedAnew
  <2>2. CASE AsItWas
    BY <1>1, <1>4, <2>2 DEF AsItWas, Grows, InTurn
  <2>3. QED
    BY <1>1, <2>1, <2>2
<1>5. ASSUME NEW t \in Runners, NEW p \in work'[t].plans, p.request.after # 0
      PROVE  HasActed(p.request.after)'
  <2>1. CASE p \in work[t].plans
    BY <1>1, <1>5, <2>1, ActedStays DEF InTurn
  <2>2. CASE \E a \in set.armed : a.plan = p
    <3>1. HasActed(p.request.after)
      BY <1>5, <2>2 DEF InTurn
    <3>2. QED
      BY <1>1, <3>1, ActedStays
  <2>3. QED
    BY <1>1, <1>5, <2>1, <2>2 DEF HitsMove
<1>6. ASSUME NEW p \in Plans, acts'[p] > 0, p.request.after # 0
      PROVE  HasActed(p.request.after)'
  <2>1. HasActed(p.request.after)
    BY <1>1, <1>6 DEF InTurn, HitsMove
  <2>2. QED
    BY <1>1, <2>1, ActedStays
<1>7. QED
  BY <1>2, <1>3, <1>4, <1>5, <1>6 DEF InTurn

\* No step gives a request a second plan, nor takes one that is asked for always.
LEMMA OnePlanStep ==
    ASSUME Typed, OnePlan, BreakpointsNext
    PROVE  OnePlan'
<1>1. HitsMove /\ Reset /\ (Anew \/ AsItWas)
  BY StepMoves, Resets
<1>2. /\ \A p, q \in set'.plans : p.request = q.request => p = q
      /\ \A p \in set.plans : Always(p.request) => p \in set'.plans
  <2>1. CASE set'.plans = set.plans
    BY <2>1 DEF OnePlan
  <2>2. CASE \E requests \in Sets : left.sets > 0 /\ set'.plans = Compile(requests)
    <3>1. PICK requests \in Sets : left.sets > 0 /\ set'.plans = Compile(requests)
      BY <2>2
    <3>2. \A p \in set.plans : p.request \in requests => p \in set'.plans
      BY <3>1, Compiled
    <3>3. \A p \in set'.plans : p \in set.plans \/
             /\ p = [request |-> p.request, minted |-> MaxSets + 1 - left.sets]
             /\ p.request \notin {q.request : q \in set.plans}
      BY <3>1, Compiled
    <3>4. ASSUME NEW p \in set'.plans, NEW q \in set'.plans, p.request = q.request PROVE p = q
      BY <3>3, <3>4 DEF OnePlan
    <3>5. QED
      BY <3>2, <3>4 DEF Always
  <2>3. QED
    BY <2>1, <2>2, Resets
<1>3. \A a \in set'.armed : a.plan \in set'.plans
  <2>1. CASE Anew
    BY <1>1, <2>1, ArmedAnew
  <2>2. CASE AsItWas
    BY <2>2 DEF AsItWas, OnePlan
  <2>3. QED
    BY <1>1, <2>1, <2>2
<1>4. \A t \in Runners : \A p \in work'[t].plans : Always(p.request) => p \in set'.plans
  BY <1>1, <1>2 DEF HitsMove, OnePlan
<1>5. \A p \in Plans : acts'[p] > 0 /\ Always(p.request) => p \in set'.plans
  BY <1>1, <1>2 DEF HitsMove, OnePlan
<1>6. QED
  BY <1>2, <1>3, <1>4, <1>5 DEF OnePlan, Always

\* What acts does what it was asked, in every state.
LEMMA ActingStep ==
    ASSUME Acting, [BreakpointsNext]_bvars
    PROVE  Acting'
<1>1. Typed'
  BY TypedStep DEF Acting
<1>2. CASE BreakpointsNext
  BY <1>1, <1>2, InTurnStep, OnePlanStep, StepMoves DEF Acting, HitsMove
<1>3. CASE UNCHANGED bvars
  BY <1>1, <1>3 DEF Acting, InTurn, OnePlan, Counted, HasActed, Always, bvars
<1>4. QED
  BY <1>2, <1>3

\* Nothing has acted.
LEMMA ActingInit ==
    ASSUME BreakpointsInit
    PROVE  Acting
<1>1. Typed
  BY BreakpointsAssumption DEF BreakpointsInit, Typed, NoHit
<1>2. InTurn
  BY DEF BreakpointsInit, InTurn, NoHit
<1>3. OnePlan
  BY DEF BreakpointsInit, OnePlan, NoHit
<1>4. Counted
  BY DEF BreakpointsInit, Counted
<1>5. QED
  BY <1>1, <1>2, <1>3, <1>4 DEF Acting

\* It says what was asked.
LEMMA ActingIsAsAsked ==
    ASSUME Acting
    PROVE  ActsAsAsked
<1>1. ASSUME NEW p \in set.plans \cup {a.plan : a \in set.armed}, p.request.after # 0,
             acts[p] > 0 \/ \E a \in set.armed : a.plan = p
      PROVE  \E q \in Plans : q.request.id = p.request.after /\ acts[q] > 0
  <2>1. p \in Plans
    BY DEF Acting, Typed, Sites
  <2>2. HasActed(p.request.after)
    BY <1>1, <2>1 DEF Acting, InTurn
  <2>3. QED
    BY <2>2 DEF HasActed
<1>2. ASSUME NEW r \in Requests, r.hits # 0, \A s \in Sets : r \in s,
             NEW p \in {o \in Plans : o.request = r /\ acts[o] > 0},
             NEW q \in {o \in Plans : o.request = r /\ acts[o] > 0}
      PROVE  p = q /\ acts[p] = 1
  <2>1. p \in set.plans /\ q \in set.plans
    BY <1>2 DEF Acting, OnePlan, Always
  <2>2. p = q
    BY <2>1 DEF Acting, OnePlan
  <2>3. acts[p] = 1
    BY <1>2 DEF Acting, Counted
  <2>4. QED
    BY <2>2, <2>3
<1>3. QED
  BY <1>1, <1>2 DEF ActsAsAsked, ArmedInTurn, ActsOnce

(***************************************************************************)
(* A breakpoint acts when what it was asked with says: one that waits      *)
(* after its predecessor has, one on the nth hit once (`conditions.rs`).   *)
(***************************************************************************)
THEOREM BreakpointsAct == BreakpointsSpec => []ActsAsAsked
<1>1. BreakpointsInit => Acting
  BY ActingInit
<1>2. Acting /\ [BreakpointsNext]_bvars => Acting'
  BY ActingStep
<1>3. Acting => ActsAsAsked
  BY ActingIsAsAsked
<1>4. QED
  BY <1>1, <1>2, <1>3, PTL DEF BreakpointsSpec

-----------------------------------------------------------------------------
(* What is armed is offered, and is wherever its line runs.                *)

\* Lines that are armed are offered, and of files known whole.
LEMMA SitesStep ==
    ASSUME Watching, [BreakpointsNext]_bvars
    PROVE  Watching'
<1>1. Typed'
  BY TypedStep DEF Watching
<1>2. ASSUME BreakpointsNext PROVE SitesAreReal'
  <2>1. Reset /\ (Anew \/ AsItWas)
    BY <1>2, Resets DEF Watching
  <2>2. CASE Anew
    <3>1. instr'.local = CodesOf(set'.armed)
      BY <2>2 DEF Anew, Watching, SitesAreReal
    <3>2. ASSUME NEW a \in set'.armed
          PROVE  /\ a.line \in Shape[a.code].lines /\ Shape[a.code].file \in code'.whole
                 /\ <<a.code, a.line>> \notin instr'.forgotten
      <4>1. a.line \in Shape[a.code].lines /\ Shape[a.code].file \in code'.whole
        BY <2>1, <2>2, ArmedAnew DEF Watching
      <4>2. a.code \in Codes
        BY <2>1 DEF Reset, Sites
      <4>3. a.line \in Nat /\ a.line # 0
        BY <4>1, <4>2, BreakpointsAssumption
      <4>4. QED
        BY <2>2, <4>1, <4>2, <4>3 DEF Anew
    <3>3. QED
      BY <3>1, <3>2 DEF SitesAreReal
  <2>3. CASE AsItWas
    <3>1. instr'.local = CodesOf(set'.armed)
      BY <2>3 DEF AsItWas, Watching, SitesAreReal
    <3>2. ASSUME NEW a \in set'.armed
          PROVE  /\ a.line \in Shape[a.code].lines /\ Shape[a.code].file \in code'.whole
                 /\ <<a.code, a.line>> \notin instr'.forgotten
      <4>1. a \in set.armed /\ a.code \in Codes
        BY <2>3 DEF AsItWas, Watching, Typed, Sites
      <4>2. /\ a.line \in Shape[a.code].lines /\ Shape[a.code].file \in code'.whole
            /\ <<a.code, a.line>> \notin instr.forgotten
        BY <2>3, <4>1 DEF AsItWas, Watching, SitesAreReal
      <4>3. a.line # 0
        BY <4>1, <4>2, BreakpointsAssumption
      <4>4. PlansAt(a.code, a.line) # {}
        BY <4>1 DEF PlansAt
      <4>5. QED
        BY <2>3, <4>1, <4>2, <4>3, <4>4 DEF AsItWas
    <3>3. QED
      BY <3>1, <3>2 DEF SitesAreReal
  <2>4. QED
    BY <2>1, <2>2, <2>3
<1>3. ASSUME UNCHANGED bvars PROVE SitesAreReal'
  BY <1>3 DEF Watching, SitesAreReal, CodesOf, bvars
<1>4. QED
  BY <1>1, <1>2, <1>3 DEF Watching

\* A code object that starts adds what it holds to what is known of its file.
LEMMA RegisterUnits ==
    ASSUME Typed, NEW c \in Codes
    PROVE  /\ \A f \in Files : UnitsFor(code, f) \subseteq UnitsFor(Register(c), f)
           /\ \A d \in Shape[c].holds : Shape[d].file = Shape[c].file
                 => d \in UnitsFor(Register(c), Shape[c].file)
<1>1. Shape[c].file \in Files
  BY DEF Files
<1>2. Register(c).roots = [code.roots EXCEPT ![Shape[c].file] = @ \cup {c}]
  BY Registers
<1>3. \A f \in Files : code.roots[f] \subseteq Register(c).roots[f]
  BY <1>1, <1>2 DEF Typed
<1>4. c \in Register(c).roots[Shape[c].file]
  BY <1>1, <1>2 DEF Typed
<1>5. QED
  BY <1>3, <1>4 DEF UnitsFor

\* A tree that is put in is what is known of its file, and of no other.
LEMMA AdoptUnits ==
    ASSUME Typed, NEW m \in Codes
    PROVE  /\ \A f \in Files : f # Shape[m].file => UnitsFor(Adopt(code, m), f) = UnitsFor(code, f)
           /\ \A d \in Shape[m].holds : Shape[d].file = Shape[m].file
                 => d \in UnitsFor(Adopt(code, m), Shape[m].file)
<1>1. Shape[m].file \in Files
  BY DEF Files
<1>2. Adopt(code, m).roots = [code.roots EXCEPT ![Shape[m].file] = {m}]
  BY Registers
<1>3. \A f \in Files : f # Shape[m].file => Adopt(code, m).roots[f] = code.roots[f]
  BY <1>1, <1>2 DEF Typed
<1>4. m \in Adopt(code, m).roots[Shape[m].file]
  BY <1>1, <1>2 DEF Typed
<1>5. QED
  BY <1>3, <1>4 DEF UnitsFor

\* A module that is not loaded is the only one of its file, and nothing of the
\* file runs or is known whole.
LEMMA NothingYet ==
    ASSUME Ordinary, Typed, Known, NEW m \in Codes, Original(m), m \notin ran.loaded
    PROVE  /\ Shape[m].file \notin code.whole
           /\ \A c \in ran.code : Shape[c].file # Shape[m].file
BY DEF Ordinary, Known, Typed

\* What runs stays known when neither it nor the registry changes.
LEMMA KnownStays ==
    ASSUME Typed, Known, UNCHANGED <<code, ran>>
    PROVE  Known'
BY DEF Known, Original, UnitsFor

\* A module that is about to run runs nothing yet.
LEMMA KnownLoad ==
    ASSUME Typed, Known, NEW m \in Codes, Load(m)
    PROVE  Known' /\ ran'.code = ran.code
<1>1. Original(m) /\ m \notin ran.loaded
  BY DEF Load, Unloaded, Original
<1>2. /\ ran'.loading = ran.loading \cup {m} /\ ran'.loaded = ran.loaded /\ ran'.code = ran.code
      /\ UNCHANGED code
  BY DEF Load, Typed
<1>3. QED
  BY <1>1, <1>2 DEF Known, Original, UnitsFor

\* A module that a condition imports is of a file bpd does not know whole.
LEMMA KnownImports ==
    ASSUME Ordinary, Typed, Known, NEW t, NEW m \in Codes, ConditionImports(t, m)
    PROVE  /\ Known'
           /\ \A c \in ran'.code : c \in ran.code \/ Shape[c].file \notin code.whole
<1>1. Original(m) /\ m \notin ran.loaded /\ m \notin ran.loading
  BY DEF ConditionImports, Unloaded, Original
<1>2. /\ ran'.loading = ran.loading /\ ran'.loaded = ran.loaded \cup {m}
      /\ ran'.code = ran.code \cup (Shape[m].holds \ {m}) /\ UNCHANGED code
  BY DEF ConditionImports, Typed
<1>3. Shape[m].file \notin code.whole
  BY <1>1, NothingYet
<1>4. \A d \in Shape[m].holds : Shape[d].file = Shape[m].file
  BY DEF Ordinary
<1>5. \A n \in ran'.loading : Original(n) /\ n \notin ran'.loaded
  BY <1>1, <1>2 DEF Known
<1>6. \A c \in ran'.code : \E n \in ran'.loaded : Original(n) /\ Shape[n].file = Shape[c].file
  BY <1>1, <1>2, <1>4 DEF Known
<1>7. \A f \in code'.whole : \E n \in ran'.loaded : Original(n) /\ Shape[n].file = f
  BY <1>2 DEF Known
<1>8. \A c \in ran'.code : c \in ran.code \/ Shape[c].file \notin code.whole
  BY <1>2, <1>3, <1>4
<1>9. \A c \in ran'.code : Shape[c].file \in code'.whole => c \in UnitsFor(code', Shape[c].file)
  BY <1>2, <1>8 DEF Known
<1>10. QED
  BY <1>5, <1>6, <1>7, <1>8, <1>9 DEF Known, Original

\* A module that starts is known with what it makes.
LEMMA KnownStart ==
    ASSUME Ordinary, Typed, Known, NEW t, NEW c \in Codes, Start(t, c), code' = Register(c)
    PROVE  /\ Known'
           /\ \A d \in ran'.code : d \in ran.code \/ Shape[d].file \notin code.whole
<1>1. /\ ran'.loading = ran.loading \ {c}
      /\ ran'.loaded = IF Shape[c].module THEN ran.loaded \cup {c} ELSE ran.loaded
      /\ ran'.code = IF Shape[c].module THEN ran.code \cup Shape[c].holds ELSE ran.code
  BY DEF Start, Runs
<1>2. Shape[c].module => Original(c) /\ c \notin ran.loaded
  BY DEF Start, Starts, Known
<1>3. code'.whole = IF Shape[c].module THEN code.whole \cup {Shape[c].file} ELSE code.whole
  BY Registers
<1>4. \A d \in Shape[c].holds : d \in Codes /\ Shape[d].file = Shape[c].file
  BY BreakpointsAssumption DEF Ordinary
<1>5. \A f \in Files : UnitsFor(code, f) \subseteq UnitsFor(code', f)
  BY RegisterUnits
<1>6. \A d \in Shape[c].holds : d \in UnitsFor(code', Shape[c].file)
  BY <1>4, RegisterUnits
<1>7. Shape[c].module => /\ Shape[c].file \notin code.whole
                         /\ \A d \in ran.code : Shape[d].file # Shape[c].file
  BY <1>2, NothingYet
<1>8. \A n \in ran'.loading : Original(n) /\ n \notin ran'.loaded
  BY <1>1 DEF Known
<1>9. \A d \in ran'.code : \E n \in ran'.loaded : Original(n) /\ Shape[n].file = Shape[d].file
  BY <1>1, <1>2, <1>4 DEF Known
<1>10. \A f \in code'.whole : \E n \in ran'.loaded : Original(n) /\ Shape[n].file = f
  BY <1>1, <1>2, <1>3 DEF Known
<1>11. ASSUME NEW d \in ran'.code, Shape[d].file \in code'.whole
       PROVE  d \in UnitsFor(code', Shape[d].file)
  <2>1. CASE d \in Shape[c].holds /\ Shape[c].module
    BY <1>4, <1>6, <2>1
  <2>2. CASE d \in ran.code
    <3>1. Shape[d].file \in code.whole
      BY <1>3, <1>7, <1>11, <2>2
    <3>2. d \in UnitsFor(code, Shape[d].file) /\ Shape[d].file \in Files
      BY <2>2, <3>1 DEF Known, Typed
    <3>3. QED
      BY <1>5, <3>2
  <2>3. QED
    BY <1>1, <1>11, <2>1, <2>2
<1>12. \A d \in ran'.code : d \in ran.code \/ Shape[d].file \notin code.whole
  BY <1>1, <1>4, <1>7
<1>13. QED
  BY <1>8, <1>9, <1>10, <1>11, <1>12 DEF Known, Original

\* After a replacement the functions of its file are those of the new tree.
LEMMA KnownReplace ==
    ASSUME Ordinary, Typed, Known, NEW tree \in Trees, ReplaceCode(tree),
           code' = Adopt(code, tree.module)
    PROVE  Known'
<1> DEFINE m == tree.module
           f == Shape[tree.module].file
<1>1. /\ ran'.loading = ran.loading /\ ran'.loaded = ran.loaded
      /\ ran'.code = {c \in ran.code \ Changed(tree) : c \in DOMAIN tree.becomes => ~Shape[c].module}
                      \cup {tree.becomes[c].new : c \in Changed(tree) \cap ran.code}
  BY DEF ReplaceCode, Typed
<1>2. f \in code.whole /\ UnitsFor(code, f) = DOMAIN tree.becomes
  BY DEF ReplaceCode, Replaceable
<1>3. m \in Codes
  BY BreakpointsAssumption
<1>4. code'.whole = code.whole
  <2>1. Adopt(code, m).whole = code.whole \cup {f}
    BY <1>3, Registers
  <2>2. code.whole \cup {f} = code.whole
    BY <1>2
  <2>3. QED
    BY <2>1, <2>2
<1>5. \A d \in Shape[m].holds : Shape[d].file = f
  BY <1>3 DEF Ordinary
<1>6. ASSUME NEW d \in ran'.code
      PROVE  \/ d \in ran.code /\ Shape[d].file # f
             \/ d \in Shape[m].holds
  <2>1. CASE d \in {tree.becomes[c].new : c \in Changed(tree) \cap ran.code}
    BY <2>1, BreakpointsAssumption DEF Changed
  <2>2. CASE d \in ran.code /\ d \notin Changed(tree) /\ (d \in DOMAIN tree.becomes => ~Shape[d].module)
    <3>1. d \notin DOMAIN tree.becomes
      BY <2>2 DEF Ordinary, Changed
    <3>2. Shape[d].file # f
      BY <1>2, <2>2, <3>1 DEF Known
    <3>3. QED
      BY <2>2, <3>2
  <2>3. QED
    BY <1>1, <1>6, <2>1, <2>2
<1>7. \A f1 \in code'.whole : \E n \in ran'.loaded : Original(n) /\ Shape[n].file = f1
  BY <1>1, <1>4 DEF Known
<1>8. \A n \in ran'.loading : Original(n) /\ n \notin ran'.loaded
  BY <1>1 DEF Known
<1>9. \A d \in ran'.code : \E n \in ran'.loaded : Original(n) /\ Shape[n].file = Shape[d].file
  BY <1>1, <1>2, <1>5, <1>6 DEF Known
<1>10. ASSUME NEW d \in ran'.code, Shape[d].file \in code'.whole
       PROVE  d \in UnitsFor(code', Shape[d].file)
  <2>1. CASE d \in Shape[m].holds
    BY <1>3, <1>5, <2>1, AdoptUnits
  <2>2. CASE d \in ran.code /\ Shape[d].file # f
    <3>1. d \in UnitsFor(code, Shape[d].file) /\ Shape[d].file \in Files
      BY <1>4, <1>10, <2>2 DEF Known, Typed
    <3>2. QED
      BY <1>3, <2>2, <3>1, AdoptUnits
  <2>3. QED
    BY <1>6, <1>10, <2>1, <2>2
<1>11. QED
  BY <1>7, <1>8, <1>9, <1>10 DEF Known, Original

\* What is armed anew is at whatever runs its line.
LEMMA BoundAnew ==
    ASSUME Typed, Reset, Anew, Known'
    PROVE  BoundIsRun'
<1>1. SUFFICES ASSUME NEW a \in set'.armed, NEW c \in ran'.code, Shape[c].file = Shape[a.code].file,
                      a.line \in Shape[c].lines
               PROVE  \E b \in set'.armed : b.code = c /\ b.plan = a.plan
  BY DEF BoundIsRun
<1>2. Shape[a.code].file \in code'.whole
  BY ArmedAnew
<1>3. c \in UnitsFor(code', Shape[a.code].file)
  BY <1>1, <1>2 DEF Known
<1>4. QED
  BY <1>1, <1>3, ArmedAnew

\* What stays armed is at whatever runs its line, when no more of its file runs.
LEMMA BoundStays ==
    ASSUME SitesAreReal, BoundIsRun, AsItWas,
           \A c \in ran'.code : c \in ran.code \/ Shape[c].file \notin code.whole
    PROVE  BoundIsRun'
<1>1. SUFFICES ASSUME NEW a \in set'.armed, NEW c \in ran'.code, Shape[c].file = Shape[a.code].file,
                      a.line \in Shape[c].lines
               PROVE  \E b \in set'.armed : b.code = c /\ b.plan = a.plan
  BY DEF BoundIsRun
<1>2. a \in set.armed /\ set'.armed = set.armed
  BY DEF AsItWas
<1>3. Shape[a.code].file \in code.whole
  BY <1>2 DEF SitesAreReal
<1>4. c \in ran.code
  BY <1>1, <1>3
<1>5. QED
  BY <1>1, <1>2, <1>4 DEF BoundIsRun

\* Every step keeps what is bound at what runs.
LEMMA BoundStep ==
    ASSUME Ordinary, Bound, [BreakpointsNext]_bvars
    PROVE  Bound'
<1>1. Watching'
  BY SitesStep DEF Bound
<1>2. Typed /\ SitesAreReal /\ Known /\ BoundIsRun
  BY DEF Bound, Watching
<1>3. ASSUME UNCHANGED <<code, ran>>, Reset, Anew \/ AsItWas PROVE Known' /\ BoundIsRun'
  BY <1>2, <1>3, KnownStays, BoundAnew, BoundStays
<1>4. ASSUME NEW requests \in Sets, SetBreakpoints(requests) PROVE Known' /\ BoundIsRun'
  BY <1>2, <1>3, <1>4, SetBreakpointsResets DEF SetBreakpoints
<1>5. ASSUME NEW tree \in Trees, ReplaceCode(tree) PROVE Known' /\ BoundIsRun'
  BY <1>2, <1>5, ReplaceCodeResets, KnownReplace, BoundAnew
<1>6. ASSUME NEW m \in Codes, Load(m) PROVE Known' /\ BoundIsRun'
  BY <1>2, <1>6, KnownLoad, LeaveAlone, LeftAlone, BoundStays
<1>7. ASSUME NEW t \in Runners, NEW c \in Codes, Start(t, c) PROVE Known' /\ BoundIsRun'
  BY <1>2, <1>7, StartResets, KnownStart, BoundAnew, BoundStays
<1>8. ASSUME NEW t \in Runners, NEW c \in Codes, NEW n \in Shape[c].lines, LineOfNobody(t, c, n)
      PROVE  Known' /\ BoundIsRun'
  BY <1>2, <1>3, <1>8, LineOfNobodyResets DEF LineOfNobody
<1>9. ASSUME NEW t \in Runners, NEW c \in Codes, NEW n \in Shape[c].lines, HitLine(t, c, n)
      PROVE  Known' /\ BoundIsRun'
  BY <1>2, <1>3, <1>9, LeaveAlone, LeftAlone DEF HitLine
<1>10. ASSUME NEW t \in Runners, NEW c \in Codes, ConditionImports(t, c)
       PROVE  Known' /\ BoundIsRun'
  BY <1>2, <1>10, KnownImports, LeaveAlone, LeftAlone, BoundStays
<1>11. ASSUME NEW t \in Runners, Declines(t) \/ Fires(t) \/ Raises(t)
       PROVE  Known' /\ BoundIsRun'
  BY <1>2, <1>3, <1>11, LeaveAlone, LeftAlone DEF Declines, Fires, Raises
<1>12. ASSUME NEW t \in Runners, Decided(t) PROVE Known' /\ BoundIsRun'
  BY <1>2, <1>3, <1>12, DecidedResets DEF Decided
<1>13. ASSUME UNCHANGED bvars PROVE Known' /\ BoundIsRun'
  BY <1>2, <1>13, KnownStays DEF BoundIsRun, bvars
<1>14. QED
  BY <1>1, <1>4, <1>5, <1>6, <1>7, <1>8, <1>9, <1>10, <1>11, <1>12, <1>13
     DEF Bound, BreakpointsNext

\* Nothing is bound.
LEMMA BoundInit ==
    ASSUME BreakpointsInit
    PROVE  Bound
<1>1. Typed
  BY ActingInit DEF Acting
<1>2. SitesAreReal /\ Known /\ BoundIsRun
  BY DEF BreakpointsInit, SitesAreReal, CodesOf, Known, BoundIsRun
<1>3. QED
  BY <1>1, <1>2 DEF Bound, Watching

\* Lines of armed code objects that were not forgotten are offered.
LEMMA SitesAreOffered ==
    ASSUME SitesAreReal
    PROVE  ArmedIsOffered
BY DEF SitesAreReal, ArmedIsOffered, Offered, CodesOf

(***************************************************************************)
(* The interpreter offers every line a breakpoint is armed at, whatever it *)
(* was told to forget and whatever was loaded or replaced meanwhile        *)
(* (`breakpoints.rs`, `arm`).                                              *)
(***************************************************************************)
THEOREM ArmedLinesAreOffered == BreakpointsSpec => []ArmedIsOffered
<1>1. BreakpointsInit => Watching
  BY BoundInit DEF Bound
<1>2. Watching /\ [BreakpointsNext]_bvars => Watching'
  BY SitesStep
<1>3. Watching => ArmedIsOffered
  BY SitesAreOffered DEF Watching
<1>4. QED
  BY <1>1, <1>2, <1>3, PTL DEF BreakpointsSpec

(***************************************************************************)
(* A bound breakpoint is at whatever function runs its line, when files    *)
(* are loaded once and a replacement makes every function anew             *)
(* (`code.rs`, `replace.rs`).                                              *)
(***************************************************************************)
THEOREM BreakpointsAreReached == ASSUME Ordinary PROVE BreakpointsSpec => []ArmedIsReached
<1>1. BreakpointsInit => Bound
  BY BoundInit
<1>2. Bound /\ [BreakpointsNext]_bvars => Bound'
  BY BoundStep
<1>3. Bound => ArmedIsReached
  BY SitesAreOffered DEF Bound, Watching, ArmedIsReached
<1>4. QED
  BY <1>1, <1>2, <1>3, PTL DEF BreakpointsSpec

=============================================================================
