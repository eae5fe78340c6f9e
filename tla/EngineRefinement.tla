--------------------------- MODULE EngineRefinement ---------------------------
(***************************************************************************)
(* ProxyEngine implements OrderBridge.  The orders of a datagram are       *)
(* settled one after another, over many steps of two threads and of the    *)
(* network; seen from outside they are settled when the loop ends.         *)
(***************************************************************************)
EXTENDS ProxyEngine

order_places(d) == 1..Len(packets(d))

discarded(d) == packets(d) = <<>>

routed(d, i) == packets(d)[i].destinationLradId \in DOMAIN LradConfig

updated(state, d) == applyBatch(state, state_updates(d))

\* The orders of the datagrams that are finished, by what became of them.
settled(orders) == {o \in orders : o[1] <= finished}

reported_as(verdict) ==
  { acks[i].order : i \in {j \in DOMAIN acks : acks[j].packet.ack_nack = verdict} }

settled_delivered == settled(delivered)
settled_acked == settled(reported_as(AckAccepted))
settled_nacked == settled(reported_as(NackNotExecuted))

Bridge == INSTANCE OrderBridge WITH
  Orders      <- order_places,
  Discarded   <- discarded,
  Confirmed   <- ack_only,
  Fatal       <- dump_throws,
  Routed      <- routed,
  FirstBelief <- InitialState,
  Updated     <- updated,
  service     <- delivery,
  done        <- finished,
  busy        <- pc = "loop",
  delivered   <- settled_delivered,
  acked       <- settled_acked,
  nacked      <- settled_nacked,
  belief      <- systemState

\* Whatever the network does between the sends of a datagram, the combat system
\* sees datagrams that are settled one at a time, each as a whole: an order is
\* delivered and ACKed or neither, an LRAD that is not configured is never
\* reached, and the system state takes the updates of a datagram if all of its
\* orders were ACKed, and else none of them.
ImplementsBridge == Bridge!BridgeSpec

----------------------------------------------------------------------------
(* The engine's part of the delivery context: main knows it as a thread    *)
(* that executes handlers.                                                 *)

Context == INSTANCE DeliveryContext WITH
  accepting <- receiving,
  service   <- delivery,
  waiting   <- IF delivery = "running" THEN Len(received) - taken ELSE 0,
  handling  <- pc = "loop" /\ delivery # "terminated"

\* The posted datagrams are handled one at a time, by a delivery thread that the
\* lifecycle of main may rely on: after the stop no datagram is taken from the
\* queue, and a datagram in progress is the only one that may still be finished.
EngineKeepsContext == Context!ContextSpec

=============================================================================
