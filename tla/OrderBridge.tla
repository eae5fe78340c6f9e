----------------------------- MODULE OrderBridge -----------------------------
(***************************************************************************)
(* What the proxy promises to the combat system, without a network, a      *)
(* socket or a loop: datagrams are handled one at a time and in the order  *)
(* of arrival, the orders of a datagram are settled all at once, each is   *)
(* either delivered and ACKed or neither, and the belief about the LRADs   *)
(* follows a datagram exactly if all its orders were ACKed.                *)
(*                                                                         *)
(* An order is <<n, i>>: the i-th order of the n-th datagram.              *)
(***************************************************************************)
EXTENDS Integers, Sequences

CONSTANTS
  Datagrams,
  Orders(_),        \* the places of the orders of a datagram
  Discarded(_),     \* the datagram has no effect
  Confirmed(_),     \* the datagram is ACKed without a delivery
  Fatal(_),         \* the datagram ends the program
  Routed(_, _),     \* the LRAD of an order is configured
  FirstBelief,
  Updated(_, _)     \* the belief after a datagram all of whose orders were ACKed

VARIABLES
  receiving,   \* datagrams are still accepted
  service,     \* running, stopped or terminated
  received,    \* the datagrams accepted
  done,        \* how many of them are settled
  busy,        \* the next of them is being executed
  delivered,   \* the orders that were delivered
  acked,
  nacked,
  belief       \* what the proxy believes of the LRADs

bridgeVars ==
  <<receiving, service, received, done, busy, delivered, acked, nacked, belief>>

BridgeInit ==
  /\ receiving = TRUE
  /\ service = "running"
  /\ received = <<>>
  /\ done = 0
  /\ busy = FALSE
  /\ delivered = {}
  /\ acked = {}
  /\ nacked = {}
  /\ belief = FirstBelief

Accept(d) ==
  /\ receiving
  /\ received' = Append(received, d)
  /\ UNCHANGED <<receiving, service, done, busy, delivered, acked, nacked, belief>>

CeaseReceiving ==
  /\ receiving
  /\ receiving' = FALSE
  /\ UNCHANGED <<service, received, done, busy, delivered, acked, nacked, belief>>

\* What waits is dropped; what is being executed may still be settled.
CeaseService ==
  /\ ~receiving
  /\ service = "running"
  /\ service' = "stopped"
  /\ UNCHANGED <<receiving, received, done, busy, delivered, acked, nacked, belief>>

Abandon ==
  /\ busy
  /\ service = "stopped"
  /\ service' = "terminated"
  /\ UNCHANGED <<receiving, received, done, busy, delivered, acked, nacked, belief>>

Next(d) ==
  /\ ~busy
  /\ service = "running"
  /\ done < Len(received)
  /\ d = received[done + 1]

Discard(d) ==
  /\ Next(d)
  /\ Discarded(d)
  /\ done' = done + 1
  /\ UNCHANGED <<receiving, service, received, busy, delivered, acked, nacked, belief>>

Crash(d) ==
  /\ Next(d)
  /\ Fatal(d)
  /\ done' = done + 1
  /\ service' = "terminated"
  /\ receiving' = FALSE
  /\ UNCHANGED <<received, busy, delivered, acked, nacked, belief>>

Confirm(d) ==
  /\ Next(d)
  /\ Confirmed(d)
  /\ done' = done + 1
  /\ acked' = acked \cup ({done + 1} \X Orders(d))
  /\ UNCHANGED <<receiving, service, received, busy, delivered, nacked, belief>>

Begin(d) ==
  /\ Next(d)
  /\ ~Discarded(d)
  /\ ~Confirmed(d)
  /\ ~Fatal(d)
  /\ busy' = TRUE
  /\ UNCHANGED <<receiving, service, received, done, delivered, acked, nacked, belief>>

\* The orders in ok are delivered and the others are not; an LRAD that is not
\* configured is never reached.
Settle(ok) ==
  LET d == received[done + 1] IN
  /\ service # "terminated"
  /\ \A i \in ok : Routed(d, i)
  /\ busy' = FALSE
  /\ done' = done + 1
  /\ delivered' = delivered \cup ({done + 1} \X ok)
  /\ acked' = acked \cup ({done + 1} \X ok)
  /\ nacked' = nacked \cup ({done + 1} \X (Orders(d) \ ok))
  /\ belief' = IF ok = Orders(d) THEN Updated(belief, d) ELSE belief
  /\ UNCHANGED <<receiving, service, received>>

BridgeNext ==
  \/ \E d \in Datagrams :
       Accept(d) \/ Discard(d) \/ Crash(d) \/ Confirm(d) \/ Begin(d)
  \/ CeaseReceiving
  \/ CeaseService
  \/ Abandon
  \/ busy /\ \E ok \in SUBSET Orders(received[done + 1]) : Settle(ok)

BridgeSpec == BridgeInit /\ [][BridgeNext]_bridgeVars

=============================================================================
