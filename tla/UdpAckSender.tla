----------------------------- MODULE UdpAckSender -----------------------------
(***************************************************************************)
(* UdpAckSender: the UDP socket that reports to the combat system.         *)
(*                                                                         *)
(* The constructor makes the socket ready or not, once and for all;        *)
(* send_ack reports no failure to its caller.  What the network does with  *)
(* a packet that left is loss, duplication and reordering: the combat      *)
(* system may receive any packet that was ever sent, any number of times   *)
(* and in any order, or none, so that the set of what was sent is all that *)
(* it can know.                                                            *)
(***************************************************************************)

\* The target of the configuration: not an IP address and a port, or an
\* address of one of the two versions.
CONSTANT AckTargets

ASSUME AckTargetKinds == AckTargets \subseteq {"unusable", "v4", "v6"}

VARIABLES
  ack_target,        \* ack_target_endpoint_
  ack_socket_ready,  \* ack_socket_ready_
  ack_network        \* external: the packets that left

ackVars == <<ack_target, ack_socket_ready, ack_network>>

\* Opening the socket may fail.
AckSenderInit ==
  /\ ack_target \in AckTargets
  /\ ack_socket_ready \in BOOLEAN
  /\ ack_socket_ready => ack_target # "unusable"
  /\ ack_network = {}

\* The socket is one of IPv4, and sends to no other address.
Leaves(packet) ==
  /\ ack_socket_ready
  /\ ack_target = "v4"
  /\ ack_network' = ack_network \cup {packet}

\* The socket is not ready, or send_to fails.
Dropped == ack_network' = ack_network

send_ack(packet) ==
  /\ Leaves(packet) \/ Dropped
  /\ UNCHANGED <<ack_target, ack_socket_ready>>

=============================================================================
