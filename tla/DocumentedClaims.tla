-------------------------- MODULE DocumentedClaims --------------------------
(***************************************************************************)
(* What the README and the comments say of the engine and the code does    *)
(* not do.  Each claim is refuted by a run of its own.                     *)
(***************************************************************************)
EXTENDS ProxyEngine

\* The configuration orders for l whose RELEASE or REQ was written.
engagement_orders(l) ==
  { i \in DOMAIN written :
      LET order == written[i].order IN
      /\ received[order[1]].messageId = "change_configuration_order"
      /\ message(order).destinationLradId = l }

\* "RELEASE/REQ cambia lo stato di engagement del LRAD"
\* (BinaryConverter.cpp:262): between two datagrams the engagement recorded
\* for an LRAD is the one of the last RELEASE or REQ that was written to it.
EngagementTracksOrders ==
  pc = "idle" =>
    \A l \in Lrads :
      LET sent == engagement_orders(l) IN
      sent # {} =>
        LET last  == CHOOSE i \in sent : \A j \in sent : j <= i
            order == written[last].order
        IN systemState.lradStates[l] =
             configuration_updates(received[order[1]])[order[2]].engaged

\* "action_id" is a field of the ACK (README.md:126) and a parameter of the
\* cueing command it is read from (README.md:96): the ACK of a cueing order
\* carries the order's action id.
AckCarriesActionId ==
  \A i \in DOMAIN acks :
    LET order == acks[i].order IN
    received[order[1]].messageId = "cueing_order" =>
      acks[i].packet.action_id = message(order).action_id

\* "payload malformato, il pacchetto viene scartato senza ACK" (README.md:40):
\* no datagram ends the delivery thread.
MalformedPayloadDiscarded == delivery # "terminated"

\* Reason 2 stands for "indirizzo/porta invalidi" (README.md:134): an order
\* whose host could not be resolved is NACKed with that reason.
UnresolvedHostIsReason2 ==
  [][ \A i \in DOMAIN acks' \ DOMAIN acks :
        call.at = "done" /\ call.result.category \in {"asio.netdb", "resolver"}
          => acks'[i].packet.nack_reason = 2 ]_engineVars

=============================================================================
