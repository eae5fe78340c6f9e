--------------------------- MODULE MCProxyEngine ---------------------------
(***************************************************************************)
(* The datagrams and the network of the runs of ProxyEngine.               *)
(***************************************************************************)
EXTENDS DocumentedClaims, EngineRefinement

CONSTANTS e1, e2, t1, t2, l1, l2, l3   \* l3 is not in the configuration

Order(action, lrad, configuration) ==
  [actionId |-> action, lrad |-> lrad, configuration |-> configuration]

\* n bytes after the header, all of them declared.
Bytes(id, n, blocks) ==
  [ messageId |-> id, messageLength |-> n, size |-> 16 + n,
    blocks |-> blocks, utf8 |-> TRUE ]

Engage ==
  Bytes("change_configuration_order", 16, <<Order(11, l1, 1), Order(12, l2, 1)>>)

\* The same LRAD twice, then a block that the datagram does not end.
ReleaseAgain ==
  Bytes("change_configuration_order", 23,
        <<Order(21, l2, 1), Order(22, l2, 0), Order(23, l1, 1)>>)

\* The header declares no payload: the block is executed nevertheless.
ReleaseFirst ==
  [Bytes("change_configuration_order", 8, <<Order(31, l1, 0)>>)
     EXCEPT !.messageLength = 0]

EngageUnknown ==
  Bytes("change_configuration_order", 16, <<Order(41, l3, 1), Order(42, l1, 0)>>)

Cue == Bytes("cueing_order", 22, <<Order(51, l2, 1)>>)

Cancel == Bytes("cueing_order_cancellation", 6, <<Order(61, l3, 0)>>)

Emit == Bytes("emission_control", 822, <<Order(71, l1, 0)>>)

EmitNotUtf8 == [Emit EXCEPT !.utf8 = FALSE]

\* More bytes declared than arrived.
Malformed == [Cue EXCEPT !.messageLength = 40]

Unsupported == [Cue EXCEPT !.messageId = "unsupported"]

Mix == { Engage, ReleaseAgain, EngageUnknown, Cue, Cancel, Emit, EmitNotUtf8,
         Malformed, Unsupported }

LiveMix == {Engage, Emit, EmitNotUtf8, Unsupported}

CueMix == {Cue}

Configurations == {Engage, ReleaseFirst, EngageUnknown}

MCNamed == [t \in Targets |-> IF t = t1 THEN {e1} ELSE {e1, e2}]

TwoLrads == [l \in {l1, l2} |-> IF l = l1 THEN t1 ELSE t2]

\* As in config/network_config.json: one endpoint for every LRAD.
OneEndpoint == [l \in {l1, l2} |-> t1]

=============================================================================
