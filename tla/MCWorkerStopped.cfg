\* A handler that runs when the receive loop ends.
SPECIFICATION LifecycleSpec
CONSTANTS
  Documents <- MCDocuments
  Literals = {"a1", "a2", "a3"}
  MaxQueue = 1
INVARIANT
  WorkerStoppedFirst
\* The program ends, or waits for ever in a join.
CHECK_DEADLOCK FALSE
