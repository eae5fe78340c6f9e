--------------------------- MODULE BinaryConverter ---------------------------
(***************************************************************************)
(* BinaryConverter: from a datagram of the combat system to the JSON       *)
(* commands for the LRADs, the updates of the system state and the builder *)
(* of the ACK/NACK packet.  It keeps no state: everything here is an       *)
(* operator.                                                               *)
(*                                                                         *)
(* A datagram is abstracted to what the control flow reads: the message    *)
(* id, the length its header declares, the bytes that arrived, the fields  *)
(* found at each 8-byte block of the payload and, for an emission order,   *)
(* whether its free text is UTF-8.                                         *)
(***************************************************************************)
EXTENDS Integers, Sequences, Interfaces, SystemState

CONSTANT Datagrams   \* what the combat system may send

HeaderSize == 16
BufferSize == 4096  \* buffer_ of UdpMulticastReceiver
BlockSize == 8      \* actionId(4) + lradId(2) + configuration(2)

\* dispatchTable: the ids that have a handler.
DispatchTable ==
  { "change_configuration_order", "cueing_order_cancellation",
    "cueing_order", "emission_control" }

MessageIds == DispatchTable \cup {"unsupported"}

Block == [actionId : Nat, lrad : Lrads, configuration : Nat]

Datagram ==
  [ messageId     : MessageIds,
    messageLength : Nat,
    size          : Nat,
    blocks        : Seq(Block),
    utf8          : BOOLEAN ]

BlockCount(d) == (d.size - HeaderSize) \div BlockSize

\* The blocks are those of the bytes that arrived: for a configuration order
\* one for each whole block; the other handlers read no more than the first,
\* which is there as soon as an action id and an LRAD id fit.
ASSUME DatagramsAreBytes ==
  \A d \in Datagrams :
    /\ d \in Datagram
    /\ d.size <= BufferSize /\ d.messageLength < 65536
    /\ d.messageId = "change_configuration_order" =>
         BlockCount(d) <= Len(d.blocks)
    /\ d.size >= 22 => d.blocks # <<>>

----------------------------------------------------------------------------
(* From datagram to commands.                                              *)

\* The declared length is only a lower bound on the size.
parseHeader(d) ==
  d.size >= HeaderSize /\ d.size >= HeaderSize + d.messageLength

\* A converted message.  param_action_id tells whether the JSON has the
\* action id under "param", where the engine looks for it.
Message(header, block, param_action_id) ==
  [ header |-> header, destinationLradId |-> block.lrad,
    action_id |-> block.actionId, param_action_id |-> param_action_id ]

\* One command for each block, up to the end of the bytes.
change_configuration_order(d) ==
  [i \in 1..BlockCount(d) |-> Message("MASTER", d.blocks[i], FALSE)]

configuration_updates(d) ==
  [ i \in 1..BlockCount(d) |->
      [ lradId  |-> d.blocks[i].lrad,
        engaged |-> IF d.blocks[i].configuration # 0
                      THEN "engaged" ELSE "released" ] ]

cueing_order_cancellation(d) ==
  IF d.size < HeaderSize + 6 THEN <<>>
  ELSE <<Message("TRCK", d.blocks[1], FALSE)>>

\* The angles are not modelled here.  The action id goes under "meta".
cueing_order(d) ==
  IF d.size < HeaderSize + 22 THEN <<>>
  ELSE <<Message("MOVE or DELTA", d.blocks[1], FALSE)>>

emission_control(d) ==
  IF d.size < 838 THEN <<>>
  ELSE <<Message("EMISS", d.blocks[1], TRUE)>>

handler(d) ==
  CASE d.messageId = "change_configuration_order" -> change_configuration_order(d)
    [] d.messageId = "cueing_order_cancellation"  -> cueing_order_cancellation(d)
    [] d.messageId = "cueing_order"               -> cueing_order(d)
    [] d.messageId = "emission_control"           -> emission_control(d)

dispatched(d) == parseHeader(d) /\ d.messageId \in DispatchTable

ack_only(d) == d.messageId = "cueing_order_cancellation"

\* ConversionResult.packets: empty when the datagram is to be discarded.
packets(d) == IF dispatched(d) THEN handler(d) ELSE <<>>

state_updates(d) ==
  IF dispatched(d) /\ d.messageId = "change_configuration_order"
    THEN configuration_updates(d) ELSE <<>>

\* json::dump() throws on a string that is not UTF-8, and only the free text
\* of an emission order is copied from the datagram.
dump_throws(d) ==
  packets(d) # <<>> /\ d.messageId = "emission_control" /\ ~d.utf8

----------------------------------------------------------------------------
(* ACK and NACK.                                                           *)

AckAccepted == 1
NackNotExecuted == 2

\* The error number is read again as a number of the system category.  One
\* that came from the resolver names there a system error that no case tests.
system_error(result) ==
  IF result.category = "asio.netdb" THEN "unrelated" ELSE result.error

map_nack_reason(result) ==
  LET ec == system_error(result) IN
  CASE result.success -> 0
    [] \/ ec \in {"invalid_argument", "bad_descriptor"}
       \/ result.category \in {"resolver", "engine"} -> 2
    [] ec \in {"already_started", "in_progress", "operation_aborted"} -> 3
    [] ec \in {"timed_out", "try_again", "would_block", "not_connected"} -> 4
    [] ec \in { "connection_refused", "connection_reset", "host_unreachable",
                "network_unreachable", "network_down", "broken_pipe" } -> 5
    [] OTHER -> 0

build_ack_packet(action_id, source_message_id, result) ==
  [ action_id         |-> action_id,
    source_message_id |-> source_message_id,
    ack_nack          |-> IF result.success THEN AckAccepted ELSE NackNotExecuted,
    nack_reason       |-> map_nack_reason(result) ]

AckPacket ==
  [ action_id         : Nat,
    source_message_id : MessageIds,
    ack_nack          : {AckAccepted, NackNotExecuted},
    nack_reason       : {0, 2, 3, 4, 5} ]

=============================================================================
