\* One socket, two targets, two network faults: enough for a connection to be
\* lost unseen and for the reconnection to be refused.
SPECIFICATION TcpFairSpec
CONSTANTS
  e1 = e1
  e2 = e2
  e3 = e3
  t1 = t1
  t2 = t2
  NoEndpoint = NoEndpoint
  Endpoints = {e1, e2, e3}
  Targets = {t1, t2}
  Addresses <- MCAddresses
  NamedTargets = {t2}
  DefaultTarget = t1
  ResolveErrors = {"timed_out"}
  ConnectErrors = {"connection_refused"}
  WriteErrors = {"broken_pipe"}
  MaxFaults = 2
INVARIANTS
  TcpTypeOK
  WritesToTarget
  OutcomeMatchesSocket
PROPERTIES
  KeepsHealthyConnection
  EveryCallReturns
  Recovers
