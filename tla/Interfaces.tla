----------------------------- MODULE Interfaces -----------------------------
(***************************************************************************)
(* The values that cross the abstract interfaces of IInterfaces.hpp.       *)
(*                                                                         *)
(* A SendResult is what ISender::send reports.  Its error is the number of *)
(* a boost error code; the model names the number after the system error   *)
(* it stands for, or after the resolver error it came from, and keeps the  *)
(* category beside it, because a number means nothing without it.          *)
(***************************************************************************)

SystemErrors ==
  { "invalid_argument", "bad_descriptor",
    "already_started", "in_progress", "operation_aborted",
    "timed_out", "try_again", "would_block", "not_connected",
    "connection_refused", "connection_reset", "host_unreachable",
    "network_unreachable", "network_down", "broken_pipe",
    "address_not_available" }

ResolverErrors == { "host_not_found", "no_endpoint" }

Categories == { "none", "system", "asio.netdb", "resolver", "engine" }

SendResult ==
  [ success  : BOOLEAN,
    error    : SystemErrors \cup ResolverErrors \cup {"none"},
    category : Categories ]

\* SendResult{}: what a result holds before any of its fields is set.
DefaultResult == [success |-> FALSE, error |-> "none", category |-> "none"]

Success == [DefaultResult EXCEPT !.success = TRUE]

Failure(error, category) ==
  [success |-> FALSE, error |-> error, category |-> category]

=============================================================================
