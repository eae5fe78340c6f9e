\* One cueing order is enough.
SPECIFICATION EngineSpec
CONSTANTS
  e1 = e1
  e2 = e2
  t1 = t1
  t2 = t2
  l1 = l1
  l2 = l2
  l3 = l3
  NoEndpoint = NoEndpoint
  Endpoints = {e1, e2}
  Targets = {t1, t2}
  Addresses <- MCNamed
  NamedTargets = {t2}
  DefaultTarget = t1
  ResolveErrors = {"timed_out"}
  ConnectErrors = {"connection_refused"}
  WriteErrors = {"broken_pipe"}
  MaxFaults = 0
  Lrads = {l1, l2, l3}
  Datagrams <- CueMix
  LradConfig <- TwoLrads
  MaxDatagrams = 1
INVARIANT
  AckCarriesActionId
\* The program really stops: after a receive error, or when an exception ends
\* the delivery thread.
CHECK_DEADLOCK FALSE
