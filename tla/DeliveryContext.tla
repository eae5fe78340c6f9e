--------------------------- MODULE DeliveryContext ---------------------------
(***************************************************************************)
(* What main and the engine rely on when they hand datagrams to the        *)
(* delivery thread: the receiver posts handlers, the one thread executes   *)
(* them one at a time, and once main has stopped the context no handler    *)
(* is started: those that wait are dropped, and the one that runs goes on. *)
(*                                                                         *)
(* The engine knows what a handler does and the lifecycle of main how the  *)
(* thread is started, stopped and joined.  Both implement this.            *)
(***************************************************************************)
EXTENDS Integers

VARIABLES
  accepting,  \* handlers may still be posted
  service,    \* running, stopped or terminated
  waiting,    \* how many handlers are posted and not started
  handling    \* one runs

contextVars == <<accepting, service, waiting, handling>>

ContextInit ==
  /\ accepting = TRUE
  /\ service = "running"
  /\ waiting = 0
  /\ handling = FALSE

PostHandler ==
  /\ accepting
  /\ service = "running"
  /\ waiting' = waiting + 1
  /\ UNCHANGED <<accepting, service, handling>>

CeasePosting ==
  /\ accepting
  /\ accepting' = FALSE
  /\ UNCHANGED <<service, waiting, handling>>

StopContext ==
  /\ ~accepting
  /\ service = "running"
  /\ service' = "stopped"
  /\ waiting' = 0
  /\ UNCHANGED <<accepting, handling>>

Ready ==
  /\ service = "running"
  /\ ~handling
  /\ waiting > 0

BeginHandler ==
  /\ Ready
  /\ waiting' = waiting - 1
  /\ handling' = TRUE
  /\ UNCHANGED <<accepting, service>>

EndHandler ==
  /\ handling
  /\ handling' = FALSE
  /\ UNCHANGED <<accepting, service, waiting>>

\* A handler that does not wait for anybody.
BriefHandler ==
  /\ Ready
  /\ waiting' = waiting - 1
  /\ UNCHANGED <<accepting, service, handling>>

\* The process ends in a handler, and with it all that waits.
DieInHandler ==
  /\ handling \/ Ready
  /\ accepting' = FALSE
  /\ service' = "terminated"
  /\ waiting' = 0
  /\ handling' = FALSE

ContextNext ==
  \/ PostHandler
  \/ CeasePosting
  \/ StopContext
  \/ BeginHandler
  \/ EndHandler
  \/ BriefHandler
  \/ DieInHandler

ContextSpec == ContextInit /\ [][ContextNext]_contextVars

=============================================================================
