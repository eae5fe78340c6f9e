---------------------------- MODULE MCTcpSender ----------------------------
(***************************************************************************)
(* TcpSender on its own: two targets called in any order and without end,  *)
(* one a literal address, the other a name that resolves to two addresses. *)
(***************************************************************************)
EXTENDS TcpSender

CONSTANTS e1, e2, e3, t1, t2

MCAddresses == [t \in Targets |-> IF t = t1 THEN {e1} ELSE {e2, e3}]

=============================================================================
