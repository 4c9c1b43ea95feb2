CONSTANTS
  MaxSyncs = 2
  MaxScenes = 2
SPECIFICATION FairSpec
INVARIANTS CtxExclusive FreedAfterExit LastSyncRun RequestsServed
PROPERTIES JoinReturns SolveHappens
CHECK_DEADLOCK FALSE
