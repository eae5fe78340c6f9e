\* Two LRADs: the target of one has a fixed address, that of the other is a
\* name that may not resolve and has two addresses, one of them the address of
\* the first; two datagrams of every kind, one network fault.
SPECIFICATION EngineSpec
CONSTANTS
  e1 = e1
  e2 = e2
  t1 = t1
  t2 = t2
  l1 = l1
  l2 = l2
  l3 = l3
  NoEndpoint = NoEndpoint
  Endpoints = {e1, e2}
  Targets = {t1, t2}
  Addresses <- MCNamed
  NamedTargets = {t2}
  DefaultTarget = t1
  ResolveErrors = {"timed_out"}
  ConnectErrors = {"connection_refused"}
  WriteErrors = {"broken_pipe"}
  MaxFaults = 1
  Lrads = {l1, l2, l3}
  Datagrams <- Mix
  LradConfig <- TwoLrads
  MaxDatagrams = 2
INVARIANTS
  EngineTypeOK
  OneReportPerOrder
  AcksAreTruthful
  RoutedToConfiguredLrad
  OneAddressPerTarget
  CommitsMatchAcks
PROPERTIES
  EveryHandlerStepAdvances
  ImplementsBridge
  EngineKeepsContext
\* The program really stops: after a receive error, or when an exception ends
\* the delivery thread.
CHECK_DEADLOCK FALSE
