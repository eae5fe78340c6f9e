\* A constructor that throws after the delivery thread was started.
SPECIFICATION LifecycleFairSpec
CONSTANTS
  Documents <- MCDocuments
  Literals = {"a1", "a2", "a3"}
  MaxQueue = 1
PROPERTY
  StartupErrorsReported
\* The program ends, or waits for ever in a join.
CHECK_DEADLOCK FALSE
