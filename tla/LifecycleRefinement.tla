------------------------- MODULE LifecycleRefinement -------------------------
(***************************************************************************)
(* main and its delivery thread implement DeliveryContext: the handlers    *)
(* are posted by the receive loop that main runs.                          *)
(***************************************************************************)
EXTENDS ProxyLifecycle

arming == {"loading", "listing", "constructing", "running"}

context_service ==
  IF mode = "terminated" THEN "terminated"
  ELSE IF stopped THEN "stopped" ELSE "running"

Context == INSTANCE DeliveryContext WITH
  accepting <- mode \in arming,
  service   <- context_service,
  waiting   <- IF context_service = "running" THEN queue ELSE 0,
  handling  <- worker = "handling" /\ mode # "terminated"

\* However main ends, no handler is started after the stop and none is dropped
\* before it, and the delivery thread executes them one at a time.
WorkerKeepsContext == Context!ContextSpec

=============================================================================
