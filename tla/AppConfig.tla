------------------------------- MODULE AppConfig -------------------------------
(***************************************************************************)
(* loadAppConfig: what it tests of the JSON document of the configuration  *)
(* file, and what it makes of each part.  It keeps no state; the order in  *)
(* which it goes through the document is in ProxyLifecycle.                *)
(*                                                                         *)
(* A JSON value is its kind and, where the kind has one, its content.  A   *)
(* number is turns * 2^32 + rest, where rest is what an int keeps of it.   *)
(* A section is its kind, which is "object" if it can be read, and the     *)
(* values of its keys; a key that is not there has the value Missing.      *)
(* nlohmann reads a boolean as 0 or 1 where an int is asked for, and cuts  *)
(* the fraction of a number: both are written here as the number they      *)
(* yield.                                                                  *)
(***************************************************************************)
EXTENDS Integers, Sequences

Missing == [kind |-> "missing"]

MaxPort == 65535
MaxId == 65535

----------------------------------------------------------------------------
(* read_required and read_port: whether the value is accepted, and what it *)
(* is read as.                                                             *)

is_text(v) == v.kind = "string"

is_int(v) == v.kind \in {"number", "boolean"}

\* get<int>() narrows without a check.
int_of(v) == v.rest

is_port(v) == is_int(v) /\ int_of(v) \in 1..MaxPort

is_id(v) == is_int(v) /\ int_of(v) \in 0..MaxId

----------------------------------------------------------------------------
(* loadAppConfig.                                                          *)

\* "ack", and for compatibility "ack_multicast" where "ack" is no object.
ack_section(doc) == IF doc.ack.kind = "object" THEN doc.ack ELSE doc.ack_multicast

udp_valid(udp) ==
  /\ udp.kind = "object"
  /\ is_text(udp.listen_ip)
  /\ is_text(udp.multicast_group)
  /\ is_port(udp.multicast_port)

tcp_valid(tcp) ==
  /\ tcp.kind = "object"
  /\ is_text(tcp.default_target_ip)
  /\ is_port(tcp.default_target_port)
  /\ is_text(tcp.unicast_target_ip)

ack_valid(ack) ==
  /\ ack.kind = "object"
  /\ is_text(ack.ip)
  /\ is_port(ack.port)

destination_valid(entry) ==
  /\ entry.kind = "object"
  /\ is_id(entry.id)
  /\ is_text(entry.ip)
  /\ is_port(entry.port)

\* What is tested before the loop over the LRADs.  An exception anywhere is the
\* same exception to main.
sections_valid(doc) ==
  /\ doc.kind = "object"
  /\ udp_valid(doc.udp)
  /\ tcp_valid(doc.tcp)
  /\ ack_valid(ack_section(doc))
  /\ doc.lrad_destinations.kind = "array"

\* The configuration after the sections, with no LRAD yet.
read_sections(doc) ==
  [ udp_listen_ip           |-> doc.udp.listen_ip.text,
    udp_multicast_group     |-> doc.udp.multicast_group.text,
    udp_multicast_port      |-> int_of(doc.udp.multicast_port),
    tcp_default_target_ip   |-> doc.tcp.default_target_ip.text,
    tcp_default_target_port |-> int_of(doc.tcp.default_target_port),
    tcp_unicast_target_ip   |-> doc.tcp.unicast_target_ip.text,
    ack_target_ip           |-> ack_section(doc).ip.text,
    ack_target_port         |-> int_of(ack_section(doc).port),
    lrad_destinations       |-> <<>> ]

read_destination(entry) == [ip_address |-> entry.ip.text, port |-> int_of(entry.port)]

\* Mutant: an entry does not replace the one before it.
insert_lrad(table, entry) ==
  [ id \in DOMAIN table \cup {int_of(entry.id)} |->
      IF id \in DOMAIN table THEN table[id] ELSE read_destination(entry) ]

\* cfg.lrad_destinations[id] = lrad: the later entry replaces the earlier.
assign_lrad(table, entry) ==
  [ id \in DOMAIN table \cup {int_of(entry.id)} |->
      IF id = int_of(entry.id) THEN read_destination(entry) ELSE table[id] ]

=============================================================================
