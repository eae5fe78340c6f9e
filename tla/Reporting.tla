------------------------------- MODULE Reporting -------------------------------
(***************************************************************************)
(* The engine with its ACK sender and the combat system at the other end:  *)
(* what the combat system may conclude from the packets that reach it.     *)
(***************************************************************************)
EXTENDS EngineRefinement, UdpAckSender

reportingVars == <<engineVars, ackVars>>

ReportingInit == EngineInit /\ AckSenderInit

\* The delivery thread hands each packet to the ACK sender as it builds it.
Handed ==
  /\ acks' # acks
  /\ send_ack(acks'[Len(acks')].packet)

ReportingNext ==
  /\ EngineNext
  /\ Handed \/ (acks' = acks /\ UNCHANGED ackVars)

ReportingSpec == ReportingInit /\ [][ReportingNext]_reportingVars

\* The fairness of the engine; nobody owes that a packet leaves.
ReportingFairSpec ==
  /\ ReportingSpec
  /\ WF_engineVars(StopDelivery)
  /\ WF_engineVars(processPacket)
  /\ NetworkFairness

----------------------------------------------------------------------------
(* Properties.                                                             *)

\* The orders a packet may be about, as far as the combat system can tell.
candidates(packet) ==
  { order \in UNION { {n} \X (1..due(n)) : n \in 1..taken } :
      /\ received[order[1]].messageId = packet.source_message_id
      /\ packet.action_id =
           IF ack_only(received[order[1]]) THEN 0
           ELSE extract_action_id_from_payload(message(order)) }

\* A packet is evidence, however late and however often it arrives and whatever
\* other packets are lost: an ACK that a command with that action id was delivered,
\* or that the order is a cancellation, a NACK that one was not delivered.
PacketsAreEvidence ==
  \A packet \in ack_network :
    \E order \in candidates(packet) :
      IF packet.ack_nack = AckAccepted
        THEN order \in delivered \/ ack_only(received[order[1]])
        ELSE order \notin delivered

=============================================================================
