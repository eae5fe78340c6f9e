-------------------------- MODULE MCProxyLifecycle --------------------------
(***************************************************************************)
(* The configuration files of the runs of ProxyLifecycle: the shipped one, *)
(* and that file with one place changed.                                   *)
(***************************************************************************)
EXTENDS LifecycleRefinement

Number(n) == [kind |-> "number", turns |-> 0, rest |-> n]
Wrapped(n) == [kind |-> "number", turns |-> 1, rest |-> n]
True == [kind |-> "boolean", turns |-> 0, rest |-> 1]
Text(t) == [kind |-> "string", text |-> t]

Entry(id, port) == [kind |-> "object", id |-> id, ip |-> Text("a1"), port |-> port]
List(list) == [kind |-> "array", elements |-> list]

\* config/network_config.json.
Shipped ==
  [ kind |-> "object",
    udp  |-> [ kind |-> "object", listen_ip |-> Text("a1"),
               multicast_group |-> Text("a2"), multicast_port |-> Number(55000) ],
    tcp  |-> [ kind |-> "object", default_target_ip |-> Text("a1"),
               default_target_port |-> Number(9000), unicast_target_ip |-> Text("a1") ],
    ack  |-> [kind |-> "object", ip |-> Text("a3"), port |-> Number(55010)],
    ack_multicast |-> Missing,
    lrad_destinations |->
      List(<<Entry(Number(1), Number(9000)), Entry(Number(2), Number(9000))>>) ]

PortValues ==
  { Number(-1), Number(0), Number(1), Number(MaxPort), Number(MaxPort + 1),
    Wrapped(9000), Wrapped(0), True, Text("a1"), Missing }

IdValues ==
  {Number(-1), Number(0), Number(MaxId), Number(MaxId + 1), Wrapped(2), Missing}

\* The address of the receiver may be a name, which its constructor refuses.
TextValues == {Text("host"), Number(1), Missing}

Lists ==
  { Missing, Number(1), List(<<>>), List(<<Missing>>),
    \* the same LRAD twice, and between them another
    List(<<Entry(Number(1), Number(9000)), Entry(Number(2), Number(9000)),
           Entry(Number(1), Number(9001))>>) }

AckSections == {Missing, Number(1), [Shipped.ack EXCEPT !.ip = Text("a2")]}

MCDocuments ==
  {Shipped} \cup
  {[Shipped EXCEPT !.udp.multicast_port = v] : v \in PortValues} \cup
  {[Shipped EXCEPT !.tcp.default_target_port = v] : v \in PortValues} \cup
  {[Shipped EXCEPT !.ack.port = v] : v \in PortValues} \cup
  {[Shipped EXCEPT !.lrad_destinations.elements[2].port = v] : v \in PortValues} \cup
  {[Shipped EXCEPT !.lrad_destinations.elements[2].id = v] : v \in IdValues} \cup
  {[Shipped EXCEPT !.udp.listen_ip = v] : v \in TextValues} \cup
  {[Shipped EXCEPT !.tcp.default_target_ip = v] : v \in TextValues} \cup
  {[Shipped EXCEPT !.lrad_destinations = v] : v \in Lists} \cup
  {[Shipped EXCEPT !.ack_multicast = a, !.ack = b] :
     a \in AckSections, b \in AckSections \cup {Shipped.ack}}

=============================================================================
