\* A port that is 2^32 too large.
SPECIFICATION LifecycleSpec
CONSTANTS
  Documents <- MCDocuments
  Literals = {"a1", "a2", "a3"}
  MaxQueue = 1
INVARIANT
  PortsOutOfRangeRejected
\* The program ends, or waits for ever in a join.
CHECK_DEADLOCK FALSE
