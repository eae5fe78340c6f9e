---------------------------- MODULE MCReporting ----------------------------
(***************************************************************************)
(* The engine and its reports: the traffic of MCProxyEngine.               *)
(***************************************************************************)
EXTENDS MCProxyEngine, Reporting

Reported == {EngageUnknown, Emit, EmitNotUtf8, Cancel}

=============================================================================
