\* One endpoint for two LRADs, as in config/network_config.json, under a name
\* that may not resolve; two datagrams, two network faults, both threads fair.
SPECIFICATION ReportingFairSpec
CONSTANTS
  e1 = e1
  e2 = e2
  t1 = t1
  t2 = t2
  l1 = l1
  l2 = l2
  l3 = l3
  NoEndpoint = NoEndpoint
  Endpoints = {e1}
  Targets = {t1}
  Addresses <- MCNamed
  NamedTargets = {t1}
  DefaultTarget = t1
  ResolveErrors = {"timed_out"}
  ConnectErrors = {"connection_refused"}
  WriteErrors = {"broken_pipe"}
  MaxFaults = 2
  Lrads = {l1, l2, l3}
  Datagrams <- Reported
  LradConfig <- OneEndpoint
  MaxDatagrams = 2
  AckTargets = {"unusable", "v4", "v6"}
INVARIANT
  PacketsAreEvidence
PROPERTIES
  EveryDatagramHandled
  ShutdownCompletes
\* The program really stops: after a receive error, or when an exception ends
\* the delivery thread.
CHECK_DEADLOCK FALSE
