------------------------ MODULE PoserThreads_proofs ------------------------
(***************************************************************************)
(* Proofs about PoserThreads, for any number of syncs and scenes.          *)
(***************************************************************************)
EXTENDS PoserThreads, TLAPS

\* The context lock is free or one thread has it.  (An assertion that fails
\* ends the program, whoever has the lock.)
LockInv ==
  solver # "failed" =>
    pollSema = IF MainHolds \/ WorkerHolds \/ SolverHolds THEN 0 ELSE 1

\* Main is past the join, and the poser is freed, only after the worker's end.
FreeInv ==
  /\ main = "regain" => worker = "exit"
  /\ FreedAfterExit

\* The last sync is the one run, or flagged, or about to be run; the worker
\* goes to wait with the flag down, except for the first time.
SyncInv ==
  /\ ran = posted \/ hasNew \/ worker = "getctx"
  /\ worker \in {"test", "wait"} /\ ran > 0 => ~hasNew
  /\ worker = "start" => ran = 0

\* A request speaks of scenes that are there.
SolveInv == flagged <= scenes /\ RequestsServed

IInv == TypeOK /\ LockInv /\ CtxExclusive /\ FreeInv /\ SyncInv /\ SolveInv

\* The actions, one by one.
LEMMA Actions ==
  ASSUME Next
  PROVE  \/ PollRelease \/ PollReacquire \/ Sync
         \/ \E a \in BOOLEAN : AddScene(a)
         \/ OotxReceived \/ Notify
         \/ CloseSolver \/ SolverJoined \/ Unplug \/ Disassociate
         \/ ReleaseToJoin \/ WorkerJoined \/ FreePoser
         \/ WorkerStep \/ WorkerSpurious \/ WorkerTake \/ WorkerRun
         \/ WorkerLetGo \/ WorkerPublish
         \/ SolverStep \/ SolverSpurious \/ SolverClear \/ SolverGetCtx
         \/ SolverOptimize \/ SolverFinish \/ SolverFails \/ SolverRelease
BY DEF Next, Handle, Close, Worker, Solver

\* Types, and the number of times the lock is free.
LEMMA TypeKept ==
  ASSUME IInv, Next
  PROVE  TypeOK'
<1> USE DEF IInv, TypeOK, LockInv, MainHolds, WorkerHolds, SolverHolds
<1>0. solver # "failed"
  BY DEF Next
<1>1. CASE PollRelease
  BY <1>0, <1>1, PoserThreadsAssumption
     DEF PollRelease, vars, workerVars, solverVars
<1>2. CASE PollReacquire
  BY <1>0, <1>2, PoserThreadsAssumption
     DEF PollReacquire, vars, workerVars, solverVars
<1>3. CASE Sync
  BY <1>0, <1>3, PoserThreadsAssumption
     DEF Sync, SignalWorker, WorkerLock, vars, workerVars, solverVars
<1>4. CASE \E a \in BOOLEAN : AddScene(a)
  BY <1>0, <1>4, PoserThreadsAssumption
     DEF AddScene, ScenesLock, vars, workerVars, solverVars
<1>5. CASE OotxReceived
  BY <1>0, <1>5, PoserThreadsAssumption
     DEF OotxReceived, vars, workerVars, solverVars
<1>6. CASE Notify
  BY <1>0, <1>6, PoserThreadsAssumption
     DEF Notify, SignalSolver, SolverLock, vars, workerVars, solverVars
<1>7. CASE CloseSolver
  BY <1>0, <1>7, PoserThreadsAssumption
     DEF CloseSolver, SignalSolver, SolverLock, vars, workerVars, solverVars
<1>8. CASE SolverJoined
  BY <1>0, <1>8, PoserThreadsAssumption
     DEF SolverJoined, vars, workerVars, solverVars
<1>9. CASE Unplug
  BY <1>0, <1>9, PoserThreadsAssumption DEF Unplug, vars, workerVars, solverVars
<1>10. CASE Disassociate
  BY <1>0, <1>10, PoserThreadsAssumption
     DEF Disassociate, SignalWorker, WorkerLock, vars, workerVars, solverVars
<1>11. CASE ReleaseToJoin
  BY <1>0, <1>11, PoserThreadsAssumption
     DEF ReleaseToJoin, vars, workerVars, solverVars
<1>12. CASE WorkerJoined
  BY <1>0, <1>12, PoserThreadsAssumption
     DEF WorkerJoined, vars, workerVars, solverVars
<1>13. CASE FreePoser
  <2>1. pollSema \in 0 .. 1 /\ pollSema > 0 /\ pollSema' = pollSema - 1
    BY <1>13 DEF FreePoser
  <2>2. main' \in {"done", "poll"} /\ live' \in BOOLEAN
    BY <1>13 DEF FreePoser
  <2>3. pollSema' \in 0 .. 1
    BY <2>1
  <2>4. UNCHANGED <<closing, worker, active, hasNew, posted, ran,
                    solver, solving, needsSolve, scenes, flagged, seen>>
    BY <1>13 DEF FreePoser, workerVars, solverVars
  <2> QED BY <2>2, <2>3, <2>4
<1>14. CASE WorkerStep
  BY <1>0, <1>14, PoserThreadsAssumption
     DEF WorkerStep, WorkerMoves, vars, workerVars, solverVars
<1>15. CASE WorkerSpurious
  BY <1>0, <1>15, PoserThreadsAssumption
     DEF WorkerSpurious, WorkerMoves, vars, workerVars, solverVars
<1>16. CASE WorkerTake
  BY <1>0, <1>16, PoserThreadsAssumption
     DEF WorkerTake, WorkerMoves, vars, workerVars, solverVars
<1>17. CASE WorkerRun
  BY <1>0, <1>17, PoserThreadsAssumption
     DEF WorkerRun, WorkerMoves, vars, workerVars, solverVars
<1>18. CASE WorkerLetGo
  BY <1>0, <1>18, PoserThreadsAssumption
     DEF WorkerLetGo, WorkerMoves, vars, workerVars, solverVars
<1>19. CASE WorkerPublish
  BY <1>0, <1>19, PoserThreadsAssumption
     DEF WorkerPublish, WorkerMoves, vars, workerVars, solverVars
<1>20. CASE SolverStep
  BY <1>0, <1>20, PoserThreadsAssumption
     DEF SolverStep, SolverMoves, vars, workerVars, solverVars
<1>21. CASE SolverSpurious
  BY <1>0, <1>21, PoserThreadsAssumption
     DEF SolverSpurious, SolverMoves, vars, workerVars, solverVars
<1>22. CASE SolverClear
  BY <1>0, <1>22, PoserThreadsAssumption
     DEF SolverClear, SolverMoves, vars, workerVars, solverVars
<1>23. CASE SolverGetCtx
  BY <1>0, <1>23, PoserThreadsAssumption
     DEF SolverGetCtx, SolverMoves, vars, workerVars, solverVars
<1>24. CASE SolverOptimize
  BY <1>0, <1>24, PoserThreadsAssumption
     DEF SolverOptimize, SolverMoves, vars, workerVars, solverVars
<1>25. CASE SolverFinish
  BY <1>0, <1>25, PoserThreadsAssumption
     DEF SolverFinish, SolverMoves, vars, workerVars, solverVars
<1>26. CASE SolverFails
  BY <1>0, <1>26, PoserThreadsAssumption
     DEF SolverFails, SolverMoves, vars, workerVars, solverVars
<1>27. CASE SolverRelease
  BY <1>0, <1>27, PoserThreadsAssumption
     DEF SolverRelease, SolverMoves, vars, workerVars, solverVars
<1> QED
  BY Actions, <1>1, <1>2, <1>3, <1>4, <1>5, <1>6, <1>7, <1>8, <1>9,
     <1>10, <1>11, <1>12, <1>13, <1>14, <1>15, <1>16, <1>17, <1>18,
     <1>19, <1>20, <1>21, <1>22, <1>23, <1>24, <1>25, <1>26, <1>27

\* The lock stays with one thread.
LEMMA LockKept ==
  ASSUME IInv, Next
  PROVE  LockInv' /\ CtxExclusive'
<1> USE
   DEF IInv, TypeOK, LockInv, CtxExclusive, MainHolds, WorkerHolds, SolverHolds
<1>0. solver # "failed"
  BY DEF Next
<1>1. CASE PollRelease
  BY <1>0, <1>1 DEF PollRelease, vars, workerVars, solverVars
<1>2. CASE PollReacquire
  BY <1>0, <1>2 DEF PollReacquire, vars, workerVars, solverVars
<1>3. CASE Sync
  BY <1>0, <1>3 DEF Sync, SignalWorker, WorkerLock, vars, workerVars, solverVars
<1>4. CASE \E a \in BOOLEAN : AddScene(a)
  BY <1>0, <1>4 DEF AddScene, ScenesLock, vars, workerVars, solverVars
<1>5. CASE OotxReceived
  BY <1>0, <1>5 DEF OotxReceived, vars, workerVars, solverVars
<1>6. CASE Notify
  BY <1>0, <1>6
     DEF Notify, SignalSolver, SolverLock, vars, workerVars, solverVars
<1>7. CASE CloseSolver
  BY <1>0, <1>7
     DEF CloseSolver, SignalSolver, SolverLock, vars, workerVars, solverVars
<1>8. CASE SolverJoined
  BY <1>0, <1>8 DEF SolverJoined, vars, workerVars, solverVars
<1>9. CASE Unplug
  BY <1>0, <1>9 DEF Unplug, vars, workerVars, solverVars
<1>10. CASE Disassociate
  BY <1>0, <1>10
     DEF Disassociate, SignalWorker, WorkerLock, vars, workerVars, solverVars
<1>11. CASE ReleaseToJoin
  BY <1>0, <1>11 DEF ReleaseToJoin, vars, workerVars, solverVars
<1>12. CASE WorkerJoined
  BY <1>0, <1>12 DEF WorkerJoined, vars, workerVars, solverVars
<1>13. CASE FreePoser
  BY <1>0, <1>13 DEF FreePoser, vars, workerVars, solverVars
<1>14. CASE WorkerStep
  BY <1>0, <1>14 DEF WorkerStep, WorkerMoves, vars, workerVars, solverVars
<1>15. CASE WorkerSpurious
  BY <1>0, <1>15 DEF WorkerSpurious, WorkerMoves, vars, workerVars, solverVars
<1>16. CASE WorkerTake
  BY <1>0, <1>16 DEF WorkerTake, WorkerMoves, vars, workerVars, solverVars
<1>17. CASE WorkerRun
  BY <1>0, <1>17 DEF WorkerRun, WorkerMoves, vars, workerVars, solverVars
<1>18. CASE WorkerLetGo
  BY <1>0, <1>18 DEF WorkerLetGo, WorkerMoves, vars, workerVars, solverVars
<1>19. CASE WorkerPublish
  BY <1>0, <1>19 DEF WorkerPublish, WorkerMoves, vars, workerVars, solverVars
<1>20. CASE SolverStep
  BY <1>0, <1>20 DEF SolverStep, SolverMoves, vars, workerVars, solverVars
<1>21. CASE SolverSpurious
  BY <1>0, <1>21 DEF SolverSpurious, SolverMoves, vars, workerVars, solverVars
<1>22. CASE SolverClear
  BY <1>0, <1>22 DEF SolverClear, SolverMoves, vars, workerVars, solverVars
<1>23. CASE SolverGetCtx
  BY <1>0, <1>23 DEF SolverGetCtx, SolverMoves, vars, workerVars, solverVars
<1>24. CASE SolverOptimize
  BY <1>0, <1>24 DEF SolverOptimize, SolverMoves, vars, workerVars, solverVars
<1>25. CASE SolverFinish
  BY <1>0, <1>25 DEF SolverFinish, SolverMoves, vars, workerVars, solverVars
<1>26. CASE SolverFails
  BY <1>0, <1>26 DEF SolverFails, SolverMoves, vars, workerVars, solverVars
<1>27. CASE SolverRelease
  BY <1>0, <1>27 DEF SolverRelease, SolverMoves, vars, workerVars, solverVars
<1> QED
  BY Actions, <1>1, <1>2, <1>3, <1>4, <1>5, <1>6, <1>7, <1>8, <1>9,
     <1>10, <1>11, <1>12, <1>13, <1>14, <1>15, <1>16, <1>17, <1>18,
     <1>19, <1>20, <1>21, <1>22, <1>23, <1>24, <1>25, <1>26, <1>27

\* The worker ends before it is freed: once it has ended it stays so.
LEMMA FreeKept ==
  ASSUME TypeOK, FreeInv, Next
  PROVE  FreeInv'
<1> USE DEF TypeOK, FreeInv, FreedAfterExit
<1>1. CASE UNCHANGED <<main, live, worker>>
  BY <1>1
<1>2. CASE PollRelease
  BY <1>2 DEF PollRelease, workerVars, solverVars
<1>3. CASE PollReacquire
  BY <1>3 DEF PollReacquire, workerVars, solverVars
<1>4. CASE Sync
  BY <1>4 DEF Sync, SignalWorker, WorkerLock, workerVars, solverVars
<1>5. CASE CloseSolver
  BY <1>5 DEF CloseSolver, SignalSolver, workerVars, solverVars
<1>6. CASE SolverJoined
  BY <1>6 DEF SolverJoined, workerVars, solverVars
<1>7. CASE Unplug
  BY <1>7 DEF Unplug, workerVars, solverVars
<1>8. CASE Disassociate
  BY <1>8 DEF Disassociate, SignalWorker, workerVars, solverVars
<1>9. CASE ReleaseToJoin
  BY <1>9 DEF ReleaseToJoin, workerVars, solverVars
<1>10. CASE WorkerJoined
  BY <1>10 DEF WorkerJoined, workerVars, solverVars
<1>11. CASE FreePoser
  BY <1>11 DEF FreePoser, workerVars, solverVars
<1>12. CASE WorkerStep
  BY <1>12 DEF WorkerStep, WorkerMoves, workerVars, solverVars
<1>13. CASE WorkerSpurious
  BY <1>13 DEF WorkerSpurious, WorkerMoves, workerVars, solverVars
<1>14. CASE WorkerTake
  BY <1>14 DEF WorkerTake, WorkerMoves, workerVars, solverVars
<1>15. CASE WorkerRun
  BY <1>15 DEF WorkerRun, WorkerMoves, workerVars, solverVars
<1>16. CASE WorkerLetGo
  BY <1>16 DEF WorkerLetGo, WorkerMoves, workerVars, solverVars
<1>17. CASE WorkerPublish
  BY <1>17 DEF WorkerPublish, WorkerMoves, workerVars, solverVars
<1> QED
  BY Actions, <1>1, <1>2, <1>3, <1>4, <1>5, <1>6, <1>7, <1>8, <1>9, <1>10, <1>11, <1>12, <1>13, <1>14, <1>15, <1>16, <1>17
  DEF AddScene, OotxReceived, Notify, SolverStep, SolverSpurious,
      SolverClear, SolverGetCtx, SolverOptimize, SolverFinish, SolverFails,
      SolverRelease, SignalSolver, workerVars, solverVars

\* The last sync is not forgotten.
LEMMA SyncKept ==
  ASSUME TypeOK, SyncInv, Next
  PROVE  SyncInv'
<1> USE DEF TypeOK, SyncInv
<1>1. CASE UNCHANGED <<worker, hasNew, posted, ran>>
  BY <1>1
<1>2. CASE Sync
  BY <1>2 DEF Sync, SignalWorker, WorkerLock, workerVars, solverVars
<1>3. CASE Disassociate
  BY <1>3 DEF Disassociate, SignalWorker, workerVars, solverVars
<1>4. CASE WorkerStep
  BY <1>4 DEF WorkerStep, WorkerMoves, workerVars, solverVars
<1>5. CASE WorkerSpurious
  BY <1>5 DEF WorkerSpurious, WorkerMoves, workerVars, solverVars
<1>6. CASE WorkerTake
  BY <1>6 DEF WorkerTake, WorkerMoves, workerVars, solverVars
<1>7. CASE WorkerRun
  BY <1>7 DEF WorkerRun, WorkerMoves, workerVars, solverVars
<1>8. CASE WorkerLetGo
  BY <1>8 DEF WorkerLetGo, WorkerMoves, workerVars, solverVars
<1>9. CASE WorkerPublish
  BY <1>9 DEF WorkerPublish, WorkerMoves, workerVars, solverVars
<1> QED
  BY Actions, <1>1, <1>2, <1>3, <1>4, <1>5, <1>6, <1>7, <1>8, <1>9
  DEF PollRelease, PollReacquire, AddScene, OotxReceived, Notify,
      CloseSolver, SolverJoined, Unplug, ReleaseToJoin, WorkerJoined,
      FreePoser, SolverStep, SolverSpurious, SolverClear, SolverGetCtx,
      SolverOptimize, SolverFinish, SolverFails, SolverRelease, SignalSolver,
      workerVars, solverVars

\* No request is forgotten.
LEMMA SolveKept ==
  ASSUME TypeOK, SolveInv, Next
  PROVE  SolveInv'
<1> USE DEF TypeOK, SolveInv, RequestsServed
<1>1. CASE UNCHANGED <<closing, solver, needsSolve, scenes, flagged, seen>>
  BY <1>1
<1>2. CASE \E a \in BOOLEAN : AddScene(a)
  BY <1>2 DEF AddScene, workerVars, solverVars
<1>3. CASE OotxReceived
  BY <1>3 DEF OotxReceived, workerVars, solverVars
<1>4. CASE Notify
  BY <1>4 DEF Notify, SignalSolver, workerVars, solverVars
<1>5. CASE CloseSolver
  BY <1>5 DEF CloseSolver, SignalSolver, workerVars, solverVars
<1>6. CASE SolverStep
  BY <1>6 DEF SolverStep, SolverMoves, workerVars, solverVars
<1>7. CASE SolverSpurious
  BY <1>7 DEF SolverSpurious, SolverMoves, workerVars, solverVars
<1>8. CASE SolverClear
  BY <1>8 DEF SolverClear, SolverMoves, workerVars, solverVars
<1>9. CASE SolverGetCtx
  BY <1>9 DEF SolverGetCtx, SolverMoves, workerVars, solverVars
<1>10. CASE SolverOptimize
  BY <1>10 DEF SolverOptimize, SolverMoves, workerVars, solverVars
<1>11. CASE SolverFinish
  BY <1>11 DEF SolverFinish, SolverMoves, workerVars, solverVars
<1>12. CASE SolverFails
  BY <1>12 DEF SolverFails, SolverMoves, workerVars, solverVars
<1>13. CASE SolverRelease
  BY <1>13 DEF SolverRelease, SolverMoves, workerVars, solverVars
<1> QED
  BY Actions, <1>1, <1>2, <1>3, <1>4, <1>5, <1>6, <1>7, <1>8, <1>9, <1>10, <1>11, <1>12, <1>13
  DEF PollRelease, PollReacquire, Sync, SolverJoined, Unplug, Disassociate,
      ReleaseToJoin, WorkerJoined, FreePoser, WorkerStep, WorkerSpurious,
      WorkerTake, WorkerRun, WorkerLetGo, WorkerPublish, workerVars,
      solverVars, SignalWorker

\* The invariant holds at first.
LEMMA InitIInv == Init => IInv
<1> SUFFICES ASSUME Init PROVE IInv
  OBVIOUS
<1>1. TypeOK
  <2>1. 0 \in 0 .. 1 /\ 0 \in 0 .. MaxSyncs /\ 0 \in 0 .. MaxScenes
    BY PoserThreadsAssumption
  <2> QED BY <2>1 DEF Init, TypeOK
<1>2. MainHolds /\ ~WorkerHolds /\ ~SolverHolds
  BY DEF Init, MainHolds, WorkerHolds, SolverHolds
<1>3. LockInv /\ CtxExclusive
  BY <1>2 DEF Init, LockInv, CtxExclusive
<1>4. FreeInv /\ SyncInv /\ SolveInv
  BY DEF Init, FreeInv, FreedAfterExit, SyncInv, SolveInv, RequestsServed
<1> QED BY <1>1, <1>3, <1>4 DEF IInv

\* No step breaks it.
LEMMA StepIInv == IInv /\ [Next]_vars => IInv'
<1> SUFFICES ASSUME IInv, [Next]_vars PROVE IInv'
  OBVIOUS
<1>1. CASE Next
  BY <1>1, TypeKept, LockKept, FreeKept, SyncKept, SolveKept DEF IInv
<1>2. CASE UNCHANGED vars
  BY <1>2 DEF vars, workerVars, solverVars, IInv, TypeOK, LockInv, MainHolds,
              WorkerHolds, SolverHolds, CtxExclusive, FreeInv, FreedAfterExit,
              SyncInv, SolveInv, RequestsServed
<1> QED BY <1>1, <1>2

\* Types: the semaphore is a lock, it never counts to two.
THEOREM ThreadsTyped == Spec => []TypeOK
<1>1. IInv => TypeOK
  BY DEF IInv
<1> QED BY <1>1, InitIInv, StepIInv, PTL DEF Spec

\* The context lock is exclusive across every place that gives it up.
THEOREM LockExclusive == Spec => []CtxExclusive
<1>1. IInv => CtxExclusive
  BY DEF IInv
<1> QED BY <1>1, InitIInv, StepIInv, PTL DEF Spec

\* The poser is freed when its thread has ended.
THEOREM FreedSafely == Spec => []FreedAfterExit
<1>1. IInv => FreedAfterExit
  BY DEF IInv, FreeInv
<1> QED BY <1>1, InitIInv, StepIInv, PTL DEF Spec

\* The worker does not go to sleep on a sync it has not run.
THEOREM SyncsNotForgotten == Spec => []LastSyncRun
<1>1. IInv => LastSyncRun
  BY DEF IInv, SyncInv, LastSyncRun
<1> QED BY <1>1, InitIInv, StepIInv, PTL DEF Spec

\* No request for a solve is lost to the unlocked flag.
THEOREM SolvesNotForgotten == Spec => []RequestsServed
<1>1. IInv => RequestsServed
  BY DEF IInv, SolveInv
<1> QED BY <1>1, InitIInv, StepIInv, PTL DEF Spec
=============================================================================
