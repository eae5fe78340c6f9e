\* Up to three handlers wait while main starts, runs and leaves.
SPECIFICATION LifecycleFairSpec
CONSTANTS
  Documents <- MCDocuments
  Literals = {"a1", "a2", "a3"}
  MaxQueue = 3
INVARIANTS
  LifecycleTypeOK
  ContextOutlivesWorker
  WorkerServes
  RunsOnSoundConfig
PROPERTIES
  WorkerKeepsContext
  OrderlyExitCompletes
\* The program ends, or waits for ever in a join.
CHECK_DEADLOCK FALSE
