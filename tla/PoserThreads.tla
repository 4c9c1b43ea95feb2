---------------------------- MODULE PoserThreads ----------------------------
(***************************************************************************)
(* The threads that solve for poses, and the context lock they share with  *)
(* the packet handlers.                                                    *)
(*                                                                         *)
(* The worker is the thread of one object's threaded poser (poser.c) with  *)
(* MPFIT as its inner poser: a handler leaves it the last sync and a       *)
(* signal.  The solver is the thread of the global scene solver: handlers  *)
(* collect scenes for it and signal it.  Both take the context lock, and   *)
(* MPFIT gives it up while its optimizer runs.  Main is whoever handles    *)
(* packets, always with the context lock; it also unplugs the device       *)
(* (survive_destroy_device) and closes the context.                        *)
(*                                                                         *)
(* A critical section of main under a thread's data_available_lock, or     *)
(* under scenes_lock, is one step; WorkerLock, SolverLock and ScenesLock   *)
(* say where a thread has them.  solve_count_max is -1, its default.       *)
(***************************************************************************)
EXTENDS Integers

CONSTANTS
  MaxSyncs,   \* bound on the syncs handled
  MaxScenes   \* bound on the scenes collected

ASSUME PoserThreadsAssumption == MaxSyncs \in Nat /\ MaxScenes \in Nat

VARIABLES
  pollSema,    \* the count of poll_sema, the context lock
  main,        \* where main is
  closing,     \* survive_close has begun
  live,        \* the object's poser exists
  worker,      \* where the worker is
  active,      \* its active
  hasNew,      \* its has_new_data
  posted,      \* the sync in its PoserData, counted from 1
  ran,         \* the sync its inner poser was last run on
  solver,      \* where the solver is
  solving,     \* gss->active
  needsSolve,  \* gss->needsSolve
  scenes,      \* gss->scenes_cnt
  flagged,     \* scenes_cnt when needsSolve was last set
  seen         \* scenes_cnt when the solver last read the scenes

workerVars == <<worker, active, hasNew, posted, ran>>
solverVars == <<solver, solving, needsSolve, scenes, flagged, seen>>
vars       == <<pollSema, main, closing, live, workerVars, solverVars>>

\* Where a thread has its data_available_lock, and the solver scenes_lock.
WorkerLock == worker \in {"test", "check"}
SolverLock == solver \in {"test", "check"}
ScenesLock == solver \in {"optimize", "finish"}

\* Who has the context lock.
MainHolds   == main \notin {"sleep", "join", "regain"}
WorkerHolds == worker \in {"inner", "publish"}
SolverHolds == solver \in {"solve", "finish"}

Init ==
  /\ pollSema = 0 /\ main = "poll" /\ closing = FALSE /\ live = TRUE
  /\ worker = "start" /\ active = TRUE /\ hasNew = FALSE /\ posted = 0 /\ ran = 0
  /\ solver = "start" /\ solving = TRUE /\ needsSolve = FALSE
  /\ scenes = 0 /\ flagged = 0 /\ seen = 0

\* OGSignalCond: lost when the thread is not waiting.
SignalWorker == worker' = IF worker = "wait" THEN "woken" ELSE worker
SignalSolver == solver' = IF solver = "wait" THEN "woken" ELSE solver
-----------------------------------------------------------------------------
(* Main: packets, and survive_poll's release of the lock.                  *)

PollRelease ==
  /\ main = "poll"
  /\ main' = "sleep" /\ pollSema' = pollSema + 1
  /\ UNCHANGED <<closing, live, workerVars, solverVars>>

PollReacquire ==
  /\ main = "sleep" /\ pollSema > 0
  /\ main' = "poll" /\ pollSema' = pollSema - 1
  /\ UNCHANGED <<closing, live, workerVars, solverVars>>

\* survive_threaded_poser_fn, POSERDATA_SYNC and POSERDATA_SYNC_GEN2.
Sync ==
  /\ main = "poll" /\ live /\ posted < MaxSyncs /\ ~WorkerLock
  /\ posted' = posted + 1 /\ hasNew' = TRUE
  /\ SignalWorker
  /\ UNCHANGED <<pollSema, main, closing, live, active, ran, solverVars>>

\* check_object adds a scene, unless the solver has the scenes; set_needs_solve
\* waits for the OOTX data of every lighthouse.
AddScene(allOotx) ==
  /\ main = "poll" /\ live /\ scenes < MaxScenes /\ ~ScenesLock
  /\ scenes' = scenes + 1
  /\ needsSolve' = (needsSolve \/ allOotx)
  /\ flagged' = IF allOotx THEN scenes + 1 ELSE flagged
  /\ UNCHANGED <<pollSema, main, closing, live, workerVars, solver, solving, seen>>

\* ootx_recv, once every lighthouse has its OOTX data.
OotxReceived ==
  /\ main = "poll"
  /\ needsSolve' = TRUE /\ flagged' = scenes
  /\ UNCHANGED <<pollSema, main, closing, live, workerVars,
                 solver, solving, scenes, seen>>

\* check_object, a second after the last addition.
Notify ==
  /\ main = "poll" /\ live /\ needsSolve /\ ~SolverLock
  /\ SignalSolver
  /\ UNCHANGED <<pollSema, main, closing, live, workerVars,
                 solving, needsSolve, scenes, flagged, seen>>
-----------------------------------------------------------------------------
(* Main: the end of the poser and of the context.                          *)

\* survive_close reaches DriverRegGlobalSceneSolverClose.
CloseSolver ==
  /\ main = "poll" /\ ~SolverLock
  /\ main' = "joinsolver" /\ closing' = TRUE
  /\ needsSolve' = FALSE /\ solving' = FALSE
  /\ SignalSolver
  /\ UNCHANGED <<pollSema, live, workerVars, scenes, flagged, seen>>

SolverJoined ==
  /\ main = "joinsolver" /\ solver = "exit"
  /\ main' = IF live THEN "disassociate" ELSE "done"
  /\ UNCHANGED <<pollSema, closing, live, workerVars, solverVars>>

\* survive_destroy_device for a device that is gone.
Unplug ==
  /\ main = "poll" /\ live
  /\ main' = "disassociate"
  /\ UNCHANGED <<pollSema, closing, live, workerVars, solverVars>>

\* survive_threaded_poser_fn, POSERDATA_DISASSOCIATE.
Disassociate ==
  /\ main = "disassociate" /\ ~WorkerLock
  /\ active' = FALSE
  /\ SignalWorker
  /\ main' = "release"
  /\ UNCHANGED <<pollSema, closing, live, hasNew, posted, ran, solverVars>>

\* Mutant of ReleaseToJoin: the context lock is kept.
ReleaseToJoinKeeps ==
  /\ main = "release"
  /\ main' = "join"
  /\ UNCHANGED <<pollSema, closing, live, workerVars, solverVars>>

ReleaseToJoin ==
  /\ main = "release"
  /\ main' = "join" /\ pollSema' = pollSema + 1
  /\ UNCHANGED <<closing, live, workerVars, solverVars>>

\* Mutant of WorkerJoined: the thread is not waited for.
WorkerNotJoined ==
  /\ main = "join"
  /\ main' = "regain"
  /\ UNCHANGED <<pollSema, closing, live, workerVars, solverVars>>

WorkerJoined ==
  /\ main = "join" /\ worker = "exit"
  /\ main' = "regain"
  /\ UNCHANGED <<pollSema, closing, live, workerVars, solverVars>>

\* The inner poser's data and the poser's own are freed.
FreePoser ==
  /\ main = "regain" /\ pollSema > 0
  /\ pollSema' = pollSema - 1
  /\ live' = FALSE
  /\ main' = IF closing THEN "done" ELSE "poll"
  /\ UNCHANGED <<closing, workerVars, solverVars>>
-----------------------------------------------------------------------------
(* The worker: survive_threaded_poser_thread_fn.                           *)

WorkerMoves(from, to) == worker = from /\ worker' = to

\* The steps that change nothing but the place in the loop; a wait may also
\* end without a signal.
WorkerStep ==
  /\ \/ WorkerMoves("start", "test")
     \/ WorkerMoves("test", "wait") /\ active
     \/ WorkerMoves("test", "exit") /\ ~active
     \/ WorkerMoves("woken", "check")
     \/ WorkerMoves("check", "test") /\ ~hasNew
     \/ WorkerMoves("relock", "check")
  /\ UNCHANGED <<pollSema, main, closing, live, active, hasNew, posted, ran,
                 solverVars>>

WorkerSpurious ==
  /\ WorkerMoves("wait", "woken")
  /\ UNCHANGED <<pollSema, main, closing, live, active, hasNew, posted, ran,
                 solverVars>>

WorkerTake ==
  /\ WorkerMoves("check", "getctx") /\ hasNew
  /\ hasNew' = FALSE
  /\ UNCHANGED <<pollSema, main, closing, live, active, posted, ran, solverVars>>

\* The inner poser starts on what PoserData holds by now.
WorkerRun ==
  /\ WorkerMoves("getctx", "inner") /\ pollSema > 0
  /\ pollSema' = pollSema - 1
  /\ ran' = posted
  /\ UNCHANGED <<main, closing, live, active, hasNew, posted, solverVars>>

\* Mutant of WorkerLetGo: has_new_data is cleared once more.
WorkerLetGoClears ==
  /\ \/ WorkerMoves("inner", "optimize")
     \/ WorkerMoves("inner", "relock")
     \/ WorkerMoves("publish", "relock")
  /\ pollSema' = pollSema + 1
  /\ hasNew' = FALSE
  /\ UNCHANGED <<main, closing, live, active, posted, ran, solverVars>>

\* run_mpfit_find_3d_structure releases the lock for the optimizer, unless
\* there is nothing to optimize; the thread releases it when the poser returns.
WorkerLetGo ==
  /\ \/ WorkerMoves("inner", "optimize")
     \/ WorkerMoves("inner", "relock")
     \/ WorkerMoves("publish", "relock")
  /\ pollSema' = pollSema + 1
  /\ UNCHANGED <<main, closing, live, active, hasNew, posted, ran, solverVars>>

\* Mutant of WorkerPublish: the results are handled without the lock.
WorkerPublishUnlocked ==
  /\ WorkerMoves("optimize", "publish")
  /\ UNCHANGED <<pollSema, main, closing, live, active, hasNew, posted, ran,
                 solverVars>>

WorkerPublish ==
  /\ WorkerMoves("optimize", "publish") /\ pollSema > 0
  /\ pollSema' = pollSema - 1
  /\ UNCHANGED <<main, closing, live, active, hasNew, posted, ran, solverVars>>
-----------------------------------------------------------------------------
(* The solver: survive_threaded_gss_thread_fn and run_optimization.        *)

SolverMoves(from, to) == solver = from /\ solver' = to

\* Mutant of SolverStep: needsSolve is cleared after the solve once more.
SolverStepClears ==
  /\ \/ SolverMoves("start", "test") /\ UNCHANGED needsSolve
     \/ SolverMoves("test", "wait") /\ solving /\ UNCHANGED needsSolve
     \/ SolverMoves("test", "exit") /\ ~solving /\ UNCHANGED needsSolve
     \/ SolverMoves("woken", "check") /\ UNCHANGED needsSolve
     \/ SolverMoves("check", "test") /\ ~needsSolve /\ UNCHANGED needsSolve
     \/ SolverMoves("check", "clear") /\ needsSolve /\ UNCHANGED needsSolve
     \/ SolverMoves("relock", "check") /\ needsSolve' = FALSE
  /\ UNCHANGED <<pollSema, main, closing, live, workerVars,
                 solving, scenes, flagged, seen>>

SolverStep ==
  /\ \/ SolverMoves("start", "test")
     \/ SolverMoves("test", "wait") /\ solving
     \/ SolverMoves("test", "exit") /\ ~solving
     \/ SolverMoves("woken", "check")
     \/ SolverMoves("check", "test") /\ ~needsSolve
     \/ SolverMoves("check", "clear") /\ needsSolve
     \/ SolverMoves("relock", "check")
  /\ UNCHANGED <<pollSema, main, closing, live, workerVars,
                 solving, needsSolve, scenes, flagged, seen>>

SolverSpurious ==
  /\ SolverMoves("wait", "woken")
  /\ UNCHANGED <<pollSema, main, closing, live, workerVars,
                 solving, needsSolve, scenes, flagged, seen>>

\* Mutant of SolverClear: needsSolve stays set until the solve is over.
SolverClearNot ==
  /\ SolverMoves("clear", "getctx")
  /\ UNCHANGED <<pollSema, main, closing, live, workerVars,
                 solving, needsSolve, scenes, flagged, seen>>

\* needsSolve is cleared with no lock at all.
SolverClear ==
  /\ SolverMoves("clear", "getctx")
  /\ needsSolve' = FALSE
  /\ UNCHANGED <<pollSema, main, closing, live, workerVars,
                 solving, scenes, flagged, seen>>

SolverGetCtx ==
  /\ SolverMoves("getctx", "solve") /\ pollSema > 0
  /\ pollSema' = pollSema - 1
  /\ UNCHANGED <<main, closing, live, workerVars,
                 solving, needsSolve, scenes, flagged, seen>>

\* The scenes go to the poser of objs[0], which releases the lock for the
\* optimizer; without a scene it returns at once.
SolverOptimize ==
  /\ SolverMoves("solve", IF scenes = 0 THEN "relock" ELSE "optimize") /\ live
  /\ seen' = scenes
  /\ pollSema' = pollSema + 1
  /\ UNCHANGED <<main, closing, live, workerVars,
                 solving, needsSolve, scenes, flagged>>

SolverFinish ==
  /\ SolverMoves("optimize", "finish") /\ pollSema > 0 /\ live
  /\ pollSema' = pollSema - 1
  /\ UNCHANGED <<main, closing, live, workerVars,
                 solving, needsSolve, scenes, flagged, seen>>

\* The poser of objs[0] is gone, or goes while its optimizer runs.
SolverFails ==
  /\ ~live /\ solver \in {"solve", "optimize"}
  /\ solver' = "failed"
  /\ UNCHANGED <<pollSema, main, closing, live, workerVars,
                 solving, needsSolve, scenes, flagged, seen>>

SolverRelease ==
  /\ SolverMoves("finish", "relock")
  /\ pollSema' = pollSema + 1
  /\ UNCHANGED <<main, closing, live, workerVars,
                 solving, needsSolve, scenes, flagged, seen>>
-----------------------------------------------------------------------------
Handle == Sync \/ (\E allOotx \in BOOLEAN : AddScene(allOotx)) \/ OotxReceived \/ Notify

Close == \/ CloseSolver \/ SolverJoined \/ Unplug \/ Disassociate
         \/ ReleaseToJoin \/ WorkerJoined \/ FreePoser

Worker == WorkerStep \/ WorkerTake \/ WorkerRun \/ WorkerLetGo \/ WorkerPublish

Solver == \/ SolverStep \/ SolverClear \/ SolverGetCtx \/ SolverOptimize
          \/ SolverFinish \/ SolverFails \/ SolverRelease

Next ==
  /\ solver # "failed"
  /\ \/ PollRelease \/ PollReacquire \/ Handle \/ Close
     \/ Worker \/ WorkerSpurious \/ Solver \/ SolverSpurious

Spec == Init /\ [][Next]_vars

(***************************************************************************)
(* Every thread that can take a step does, an optimizer's run ends, and a  *)
(* thread waiting for the context lock gets it if it is free again and     *)
(* again.  A device that is plugged in keeps sending packets, and each of  *)
(* them ends in check_object: hence the fairness of Notify.                *)
(***************************************************************************)
Running(A) == solver # "failed" /\ A

Fairness ==
  /\ SF_vars(Running(PollRelease)) /\ WF_vars(Running(PollReacquire))
  /\ SF_vars(Running(Notify))
  /\ WF_vars(Running(SolverJoined)) /\ WF_vars(Running(Disassociate))
  /\ WF_vars(Running(ReleaseToJoin)) /\ WF_vars(Running(WorkerJoined))
  /\ SF_vars(Running(FreePoser))
  /\ WF_vars(Running(Worker)) /\ WF_vars(Running(Solver))
  /\ SF_vars(Running(WorkerRun)) /\ SF_vars(Running(WorkerPublish))
  /\ SF_vars(Running(SolverGetCtx)) /\ SF_vars(Running(SolverFinish))

FairSpec == Spec /\ Fairness
-----------------------------------------------------------------------------
(* Properties.                                                             *)

\* Every variable has its type.
TypeOK ==
  /\ pollSema \in 0 .. 1
  /\ main \in {"poll", "sleep", "joinsolver", "disassociate", "release", "join",
               "regain", "done"}
  /\ worker \in {"start", "test", "wait", "woken", "check", "getctx", "inner",
                 "optimize", "publish", "relock", "exit"}
  /\ solver \in {"start", "test", "wait", "woken", "check", "clear", "getctx", "solve",
                 "optimize", "finish", "relock", "exit", "failed"}
  /\ closing \in BOOLEAN /\ live \in BOOLEAN
  /\ active \in BOOLEAN /\ hasNew \in BOOLEAN
  /\ solving \in BOOLEAN /\ needsSolve \in BOOLEAN
  /\ posted \in 0 .. MaxSyncs /\ ran \in 0 .. MaxSyncs
  /\ scenes \in 0 .. MaxScenes /\ flagged \in 0 .. MaxScenes /\ seen \in 0 .. MaxScenes

\* The context lock is what it is meant to be: through all the places that
\* give it up and take it back in the middle of a call (the optimizers, the
\* join of a poser, survive_poll) no two threads ever have it.
CtxExclusive ==
  /\ ~(MainHolds /\ WorkerHolds)
  /\ ~(MainHolds /\ SolverHolds)
  /\ ~(WorkerHolds /\ SolverHolds)

\* A poser is freed when its thread has ended, never under it
\* (survive_threaded_poser_fn joins the thread before it frees).
FreedAfterExit == ~live => worker = "exit"

\* Syncs are conflated but the last one is not lost: once the worker has run,
\* it waits only when it has run on the last sync posted.  (The first signals
\* may come before it waits for the first time, and are lost.)
LastSyncRun == worker = "wait" /\ ran > 0 => ran = posted

\* needsSolve is cleared without a lock and before the scenes are read, and
\* so no request is lost: when it is not set and the solver is not on its way
\* to the scenes, the solver has read all that were there at the last request.
RequestsServed ==
  ~needsSolve /\ ~closing /\ solver \notin {"getctx", "solve", "failed"} => seen >= flagged

\* Main waits for the worker's end without the lock the worker needs to get
\* there: a device can be unplugged, and its poser freed, at any time.
JoinReturns == main = "join" ~> (main # "join" \/ solver = "failed")

\* A request for a global solve is served, although the signal may come when
\* the solver is not waiting: handlers repeat it as long as needsSolve is set.
SolveHappens ==
  needsSolve ~> (~needsSolve \/ closing \/ main = "disassociate" \/ ~live)
=============================================================================
