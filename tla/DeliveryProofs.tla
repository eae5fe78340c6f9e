---------------------------- MODULE DeliveryProofs ----------------------------
(***************************************************************************)
(* What the reports say is true, and every command is written to the LRAD  *)
(* its order names: for any configuration, any datagrams and any number of *)
(* network faults.                                                         *)
(***************************************************************************)
EXTENDS ReportProofs

\* The send in progress was accepted and is not reported yet.
Accepted == call.at = "done" /\ call.result.success

\* Every command that was written was reported, or is about to be.
DeliveredInv ==
  /\ \A o \in delivered : o \in reported \/ (Accepted /\ o = <<taken, index>>)
  /\ Accepted => <<taken, index>> \in delivered

RoutedInv ==
  \A i \in DOMAIN written :
    LET lrad == message(written[i].order).destinationLradId IN
    /\ lrad \in DOMAIN LradConfig
    /\ written[i].to \in Addresses[LradConfig[lrad]]

OrderedWrites ==
  \A i, j \in DOMAIN written :
    i < j => precedes(written[i].order, written[j].order)

DeliveryInv == DeliveredInv /\ RoutedInv /\ OrderedWrites /\ AcksAreTruthful

BaseInv == TypeInv /\ ReportInv

\* Orders already delivered or reported belong to datagrams already taken, and
\* the command they stand for does not change.
LEMMA OldOrders ==
  ASSUME BaseInv, DeliveredInv,
         \A n \in 1..taken : received'[n] = received[n],
         NEW o \in reported \cup delivered
  PROVE  received'[o[1]] = received[o[1]] /\ message(o)' = message(o)
<1>1. CASE o \in reported
  BY <1>1, ReportedOrders DEF BaseInv, ReportInv, message
<1>2. CASE Accepted /\ o = <<taken, index>>
  <2>1. pc = "loop"
    BY <1>2 DEF Accepted, BaseInv, TypeInv, EngineTypeOK, InLoop
  <2>2. taken \in 1..taken
    BY <2>1, Positions DEF BaseInv, PositionFacts
  <2>3. o[1] = taken
    BY <1>2
  <2> QED
    BY <2>2, <2>3 DEF message
<1> QED
  BY <1>1, <1>2 DEF DeliveredInv

\* The order the loop is at has not been reported.
LEMMA LoopOrderPending ==
  ASSUME BaseInv, pc = "loop"
  PROVE  /\ <<taken, index>> \notin reported
         /\ \A o \in reported : precedes(o, <<taken, index>>)
<1>1. /\ taken \in Nat /\ index \in Nat \ {0} /\ taken \in 1..taken
  BY Positions DEF BaseInv, PositionFacts
<1>2. due(taken) = index - 1
  <2>1. DueFacts(taken)
    BY <1>1, DueOf DEF BaseInv
  <2> QED
    BY <2>1 DEF DueFacts
<1>3. \A o \in reported : o \in Nat \X Nat /\ o[1] \in 1..taken /\ o[2] \in 1..due(o[1])
  BY ReportedOrders DEF BaseInv, ReportInv
<1>4. <<taken, index>> \notin reported
  BY <1>1, <1>2 DEF BaseInv, ReportInv, ReportedInv
<1>5. ASSUME NEW o \in reported PROVE precedes(o, <<taken, index>>)
  <2>1. CASE o[1] = taken
    BY <1>1, <1>2, <1>3, <1>5, <2>1 DEF precedes
  <2>2. CASE o[1] # taken
    BY <1>1, <1>3, <1>5, <2>2 DEF precedes
  <2> QED
    BY <2>1, <2>2
<1> QED
  BY <1>4, <1>5

\* Steps that neither write nor report.
LEMMA QuietDeliveryInv ==
  ASSUME BaseInv, DeliveryInv, UNCHANGED <<acks, written>>,
         \A n \in 1..taken : received'[n] = received[n],
         Accepted' <=> Accepted,
         Accepted => UNCHANGED <<taken, index>>
  PROVE  DeliveryInv'
<1>1. reported' = reported /\ delivered' = delivered
  BY DEF reported, delivered
<1>2. DeliveredInv'
  BY <1>1 DEF DeliveryInv, DeliveredInv
<1>3. \A o \in reported \cup delivered :
        received'[o[1]] = received[o[1]] /\ message(o)' = message(o)
  BY OldOrders DEF DeliveryInv
<1>4. RoutedInv'
  <2>1. \A i \in DOMAIN written : written[i].order \in delivered
    BY DEF delivered
  <2> QED
    BY <1>3, <2>1 DEF DeliveryInv, RoutedInv
<1>5. OrderedWrites'
  BY DEF DeliveryInv, OrderedWrites
<1>6. AcksAreTruthful'
  <2>1. \A i \in DOMAIN acks : acks[i].order \in reported
    BY DEF reported
  <2> QED
    BY <1>1, <1>3, <2>1 DEF DeliveryInv, AcksAreTruthful
<1> QED
  BY <1>2, <1>4, <1>5, <1>6 DEF DeliveryInv

Writes == [order : Nat \X Nat, to : Endpoints]

\* The socket accepts the command of the order the loop is at.
LEMMA AcceptDeliveryInv ==
  ASSUME BaseInv, DeliveryInv, Sending, call'.at = "done", call'.result.success
  PROVE  DeliveryInv'
<1> DEFINE x == <<taken, index>>
           w == [order |-> x, to |-> socket.remote]
<1>1. /\ Write /\ socket.remote \in Endpoints
  BY OnlyWriteSucceeds DEF Sending, BaseInv, TypeInv
<1>2. /\ ~Accepted /\ Accepted'
      /\ UNCHANGED <<received, taken, index, acks>>
      /\ written' = Append(written, w)
  BY <1>1 DEF Accepted, Write, Sending, receiverVars, loopVars
<1>3. /\ pc = "loop" /\ destination \in DOMAIN LradConfig
      /\ call.target = LradConfig[destination]
      /\ taken \in Nat /\ index \in Nat
  <2>1. call.at # "none"
    BY <1>1 DEF Write
  <2> QED
    BY <2>1, Positions DEF BaseInv, TypeInv, EngineTypeOK, InLoop, PositionFacts
<1>4. w.to \in Addresses[LradConfig[destination]] /\ w.order = x
  BY <1>1, <1>3 DEF Write, BaseInv, TypeInv, TcpInv, CacheInv, SocketInv, TcpTypeOK, resolved
<1>5. /\ DOMAIN written = 1..Len(written) /\ Len(written) \in Nat
      /\ DOMAIN written' = 1..(Len(written) + 1)
      /\ \A i \in 1..Len(written) : written'[i] = written[i]
      /\ written'[Len(written) + 1] = w
  <2>1. w \in Writes /\ written \in Seq(Writes)
    BY <1>1, <1>3 DEF BaseInv, TypeInv, EngineTypeOK, Writes
  <2> HIDE DEF w
  <2> QED
    BY <1>2, <2>1, AppendProperties
<1>6. reported' = reported /\ x \notin reported /\ delivered \subseteq reported
  BY <1>2, <1>3, LoopOrderPending DEF reported, DeliveryInv, DeliveredInv
<1> HIDE DEF w
<1>7. delivered' = delivered \cup {x}
  <2> HIDE DEF x
  <2>1. \A i \in 1..Len(written) : written'[i].order = written[i].order
    BY <1>5
  <2>2. written'[Len(written) + 1].order = x
    BY <1>4, <1>5
  <2>3. delivered' = {written'[i].order : i \in 1..(Len(written) + 1)}
    BY <1>5 DEF delivered
  <2>4. delivered = {written[i].order : i \in 1..Len(written)}
    BY <1>5 DEF delivered
  <2> QED
    BY <1>5, <2>1, <2>2, <2>3, <2>4
<1>8. DeliveredInv'
  BY <1>2, <1>6, <1>7 DEF DeliveryInv, DeliveredInv
<1>9. \A o \in reported : received'[o[1]] = received[o[1]] /\ message(o)' = message(o)
  BY <1>2 DEF message
<1>10. RoutedInv'
  <2>1. ASSUME NEW i \in 1..(Len(written) + 1)
        PROVE  LET lrad == message(written'[i].order).destinationLradId
               IN  /\ lrad \in DOMAIN LradConfig
                   /\ written'[i].to \in Addresses[LradConfig[lrad]]
    <3>1. CASE i \in 1..Len(written)
      BY <1>5, <3>1 DEF DeliveryInv, RoutedInv
    <3>2. CASE i = Len(written) + 1
      <4>1. written'[i].order = x /\ written'[i].to = w.to
        BY <1>4, <1>5, <3>2
      <4>2. message(x).destinationLradId = destination
        BY DEF message, current, destination
      <4> HIDE DEF x
      <4> QED
        BY <1>3, <1>4, <4>1, <4>2
    <3> QED
      BY <3>1, <3>2
  <2> QED
    BY <1>2, <1>5, <2>1 DEF RoutedInv, message
<1>11. OrderedWrites'
  <2>1. \A i \in 1..Len(written) : precedes(written[i].order, x)
    <3>1. \A i \in 1..Len(written) : written[i].order \in delivered
      BY <1>5 DEF delivered
    <3> QED
      BY <1>3, <1>6, <3>1, LoopOrderPending
  <2> HIDE DEF x
  <2>2. ASSUME NEW i \in 1..(Len(written) + 1), NEW j \in 1..(Len(written) + 1), i < j
        PROVE  precedes(written'[i].order, written'[j].order)
    <3>1. i \in 1..Len(written)
      BY <1>5, <2>2
    <3>2. CASE j \in 1..Len(written)
      BY <1>5, <2>2, <3>1, <3>2 DEF DeliveryInv, OrderedWrites
    <3>3. CASE j = Len(written) + 1
      BY <1>4, <1>5, <2>1, <3>1, <3>3
    <3> QED
      BY <1>5, <3>2, <3>3
  <2> QED
    BY <1>5, <2>2 DEF OrderedWrites
<1>12. AcksAreTruthful'
  <2>1. \A i \in DOMAIN acks : acks[i].order \in reported
    BY DEF reported
  <2>2. \A o \in reported : o \in delivered' <=> o \in delivered
    BY <1>6, <1>7
  <2> QED
    BY <1>2, <1>9, <2>1, <2>2 DEF DeliveryInv, AcksAreTruthful
<1> QED
  BY <1>8, <1>10, <1>11, <1>12 DEF DeliveryInv

\* What a report appended by a step must satisfy.
LEMMA ReportedDeliveryInv ==
  ASSUME BaseInv, DeliveryInv, NEW a \in Reports, acks' = Append(acks, a),
         UNCHANGED <<received, written>>,
         ~Accepted',
         Accepted => a.order = <<taken, index>>,
         ~ack_only(received[a.order[1]]) =>
           /\ a.packet.ack_nack = AckAccepted <=> a.order \in delivered
           /\ message(a.order).destinationLradId \notin DOMAIN LradConfig =>
                a.packet.ack_nack = NackNotExecuted /\ a.packet.nack_reason = 2
  PROVE  DeliveryInv'
<1>1. /\ DOMAIN acks = 1..Len(acks) /\ Len(acks) \in Nat
      /\ DOMAIN acks' = 1..(Len(acks) + 1)
      /\ \A i \in 1..Len(acks) : acks'[i] = acks[i]
      /\ acks'[Len(acks) + 1] = a
  <2>1. acks \in Seq(Reports)
    BY DEF BaseInv, TypeInv, EngineTypeOK, Reports
  <2> QED
    BY <2>1, AppendProperties
<1>2. reported' = reported \cup {a.order} /\ delivered' = delivered
  BY <1>1 DEF reported, delivered
<1>3. DeliveredInv'
  BY <1>2 DEF DeliveryInv, DeliveredInv
<1>4. \A o : message(o)' = message(o)
  BY DEF message
<1>5. RoutedInv' /\ OrderedWrites'
  BY <1>4 DEF DeliveryInv, RoutedInv, OrderedWrites
<1>6. AcksAreTruthful'
  <2>1. ASSUME NEW i \in 1..(Len(acks) + 1)
        PROVE  ~ack_only(received[acks'[i].order[1]]) =>
                 /\ acks'[i].packet.ack_nack = AckAccepted <=> acks'[i].order \in delivered
                 /\ message(acks'[i].order).destinationLradId \notin DOMAIN LradConfig =>
                      /\ acks'[i].packet.ack_nack = NackNotExecuted
                      /\ acks'[i].packet.nack_reason = 2
    <3>1. CASE i \in 1..Len(acks)
      BY <1>1, <3>1 DEF DeliveryInv, AcksAreTruthful
    <3>2. CASE i = Len(acks) + 1
      BY <1>1, <3>2
    <3> QED
      BY <1>1, <3>1, <3>2
  <2> QED
    BY <1>1, <1>2, <1>4, <2>1 DEF AcksAreTruthful
<1> QED
  BY <1>3, <1>5, <1>6 DEF DeliveryInv

\* A cancellation is reported and not written.
LEMMA AckOnlyDeliveryInv ==
  ASSUME BaseInv, DeliveryInv, NEW d \in Datagrams, AckOnly(d)
  PROVE  DeliveryInv'
<1> DEFINE a == Report(<<taken + 1, 1>>, d, 0, Success)
<1>1. /\ acks' = Append(acks, a) /\ UNCHANGED <<received, written, call>>
      /\ d = received[taken + 1] /\ ack_only(d) /\ pc = "idle"
  BY DEF AckOnly, Takes, receiverVars, tcpVars
<1>2. ~Accepted /\ ~Accepted'
  BY <1>1 DEF Accepted, BaseInv, TypeInv, EngineTypeOK, InLoop
<1>3. a \in Reports /\ a.order[1] = taken + 1
  <2>1. build_ack_packet(0, d.messageId, Success) \in AckPacket
    BY AckPacketTyped, ResultsTyped, DatagramTyped
  <2>2. <<taken + 1, 1>> \in Nat \X Nat
    BY Positions DEF BaseInv, PositionFacts
  <2> QED
    BY <2>1, <2>2 DEF Report, Reports
<1> HIDE DEF a
<1> QED
  BY <1>1, <1>2, <1>3, ReportedDeliveryInv

\* The report at the end of an iteration says what happened to the send.
LEMMA LoopDeliveryInv ==
  ASSUME BaseInv, DeliveryInv, Unrouted \/ SendReturns
  PROVE  DeliveryInv'
<1> DEFINE x == <<taken, index>>
           action == extract_action_id_from_payload(packets(current)[index])
           a(r) == Report(x, current, action, r)
<1>1. /\ pc = "loop" /\ taken > 0 /\ taken \in Nat /\ index \in Nat
      /\ index <= Len(packets(current)) /\ index > 0
      /\ current \in Datagrams
  BY CurrentTyped, Positions DEF Unrouted, SendReturns, InLoop, BaseInv, TypeInv,
    PositionFacts
<1>2. Len(packets(current)) \in Nat /\ index \in 1..Len(packets(current))
  BY <1>1, PacketCount
<1>3. action \in Nat
  <2>1. packets(current)[index] \in Messages
    BY <1>1, <1>2, PacketsTyped, ElementOfSeq
  <2> QED
    BY <2>1 DEF extract_action_id_from_payload, Messages
<1>4. ASSUME NEW r \in SendResult
      PROVE  /\ a(r) \in Reports /\ a(r).order = x
             /\ a(r).packet.ack_nack = AckAccepted <=> r.success
             /\ a(r).packet.ack_nack =
                  IF r.success THEN AckAccepted ELSE NackNotExecuted
             /\ a(r).packet.nack_reason = map_nack_reason(r)
  <2>1. a(r) \in Reports
    BY <1>1, <1>2, ReportTyped DEF Reports
  <2>2. build_ack_packet(action, current.messageId, r).ack_nack = AckAccepted <=> r.success
    BY <1>1, <1>3, AckPacketTyped, DatagramTyped
  <2>3. a(r).order = x /\ a(r).packet = build_ack_packet(action, current.messageId, r)
    BY DEF Report
  <2> QED
    BY <2>1, <2>2, <2>3 DEF build_ack_packet
<1>5. message(x).destinationLradId = destination
  BY DEF message, current, destination
<1>6. x \notin reported
  BY <1>1, LoopOrderPending
<1> HIDE DEF a
<1>7. CASE Unrouted
  <2> DEFINE r == Failure("invalid_argument", "engine")
  <2>1. r \in SendResult /\ ~r.success /\ map_nack_reason(r) = 2
    BY UnroutedResult
  <2>2. /\ acks' = Append(acks, a(r)) /\ UNCHANGED <<received, written, call>>
        /\ call.at = "none"
    BY <1>7 DEF Unrouted, ReportResult, receiverVars, tcpVars, a
  <2>3. ~Accepted /\ ~Accepted' /\ x \notin delivered
    BY <1>6, <2>2 DEF Accepted, DeliveryInv, DeliveredInv
  <2>4. ~(a(r).packet.ack_nack = AckAccepted) /\ a(r).order = x /\ a(r) \in Reports
        /\ a(r).packet.ack_nack = NackNotExecuted /\ a(r).packet.nack_reason = 2
    BY <1>4, <2>1
  <2> HIDE DEF r, x
  <2> QED
    BY <2>2, <2>3, <2>4, ReportedDeliveryInv
<1>8. CASE SendReturns
  <2> DEFINE r == call.result
  <2>1. r \in SendResult
    BY DEF BaseInv, TypeInv, TcpInv, TcpTypeOK
  <2>2. /\ acks' = Append(acks, a(r)) /\ UNCHANGED <<received, written>>
        /\ call.at = "done" /\ call'.at = "none"
    BY <1>8 DEF SendReturns, ReportResult, Return, NoCall, receiverVars, a
  <2>3. (Accepted <=> r.success) /\ ~Accepted' /\ (x \in delivered <=> Accepted)
    BY <1>6, <2>2 DEF Accepted, DeliveryInv, DeliveredInv
  <2>4. destination \in DOMAIN LradConfig
    BY <2>2 DEF BaseInv, TypeInv, EngineTypeOK
  <2>5. (a(r).packet.ack_nack = AckAccepted <=> r.success) /\ a(r).order = x
        /\ a(r) \in Reports
    BY <1>4, <2>1
  <2>6. Accepted => a(r).order = <<taken, index>>
    BY <2>5
  <2>7. message(a(r).order).destinationLradId \in DOMAIN LradConfig
    BY <1>5, <2>4, <2>5
  <2> HIDE DEF r, x
  <2> QED
    BY <2>2, <2>3, <2>5, <2>6, <2>7, ReportedDeliveryInv
<1> QED
  BY <1>7, <1>8

\* DeliveryInv is inductive over every step of the two threads and the network.
LEMMA NextDeliveryInv ==
  ASSUME BaseInv, DeliveryInv, [EngineNext]_engineVars
  PROVE  DeliveryInv'
<1>1. ASSUME NEW d \in Datagrams, Receive(d) PROVE DeliveryInv'
  <2>1. \A n \in 1..taken : received'[n] = received[n]
    BY <1>1, ReceivedStays, Positions DEF BaseInv, PositionFacts
  <2> QED
    BY <1>1, <2>1, QuietDeliveryInv DEF Receive, loopVars, tcpVars, Accepted
<1>2. CASE ReceiveError \/ StopDelivery \/ HandlerTerminates \/ Network \/ UNCHANGED engineVars
  <2>1. UNCHANGED <<taken, index, acks, written, received, call>>
    BY <1>2, NetworkKeepsCall
      DEF ReceiveError, StopDelivery, HandlerTerminates, Network, engineVars,
          loopVars, receiverVars, tcpVars
  <2> QED
    BY <2>1, QuietDeliveryInv DEF Accepted
<1>3. ASSUME NEW d \in Datagrams, Ignore(d) \/ ConvertThrows(d) \/ BeginCommands(d)
      PROVE  DeliveryInv'
  <2>1. pc = "idle" /\ UNCHANGED <<acks, written, received, call>>
    BY <1>3 DEF Ignore, ConvertThrows, BeginCommands, Takes, receiverVars, tcpVars
  <2>2. ~Accepted /\ ~Accepted'
    BY <2>1 DEF Accepted, BaseInv, TypeInv, EngineTypeOK, InLoop
  <2> QED
    BY <2>1, <2>2, QuietDeliveryInv
<1>4. CASE StartSend
  <2>1. UNCHANGED <<acks, written, received>> /\ call.at = "none" /\ call'.at = "resolve"
    BY <1>4 DEF StartSend, send, NoCall, receiverVars
  <2> QED
    BY <2>1, QuietDeliveryInv DEF Accepted
<1>5. CASE Sending
  <2>1. CASE call'.at = "done" /\ call'.result.success
    BY <1>5, <2>1, AcceptDeliveryInv
  <2>2. CASE ~(call'.at = "done" /\ call'.result.success)
    <3>1. UNCHANGED <<acks, written, received>>
      BY <1>5, <2>2 DEF Sending, receiverVars
    <3>2. ~Accepted /\ ~Accepted'
      BY <1>5, <2>2, SendStepFrame DEF Sending, Accepted, BaseInv, TypeInv
    <3> QED
      BY <3>1, <3>2, QuietDeliveryInv
  <2> QED
    BY <2>1, <2>2
<1>6. CASE Finish
  <2>1. UNCHANGED <<acks, written, received, call, taken, index>>
    BY <1>6 DEF Finish, receiverVars, tcpVars
  <2> QED
    BY <2>1, QuietDeliveryInv DEF Accepted
<1> QED
  BY <1>1, <1>2, <1>3, <1>4, <1>5, <1>6, AckOnlyDeliveryInv, LoopDeliveryInv
    DEF EngineNext, processPacket

\* Nothing is reported or written before the first datagram.
LEMMA InitDeliveryInv == EngineInit => DeliveryInv
<1> SUFFICES ASSUME EngineInit PROVE DeliveryInv
  OBVIOUS
<1>1. DOMAIN acks = {} /\ DOMAIN written = {} /\ delivered = {}
  BY DEF EngineInit, delivered
<1>2. ~Accepted
  BY DEF EngineInit, TcpInit, NoCall, Accepted
<1> QED
  BY <1>1, <1>2 DEF DeliveryInv, DeliveredInv, RoutedInv, OrderedWrites, AcksAreTruthful

\* The invariant that the next two theorems rest on: what is written, what is
\* reported and where the loop is agree at every step.
THEOREM DeliveryInvariant == EngineSpec => [](BaseInv /\ DeliveryInv)
<1>1. EngineInit => BaseInv /\ DeliveryInv
  BY InitTypeInv, InitReportInv, InitDeliveryInv DEF BaseInv
<1>2. BaseInv /\ DeliveryInv /\ [EngineNext]_engineVars => (BaseInv /\ DeliveryInv)'
  BY NextTypeInv, NextReportInv, NextDeliveryInv DEF BaseInv
<1> QED
  BY <1>1, <1>2, PTL DEF EngineSpec

\* An ACK means that the socket accepted the command, a NACK that it did not.
THEOREM ReportsAreTrue == EngineSpec => []AcksAreTruthful
<1>1. DeliveryInv => AcksAreTruthful
  BY DEF DeliveryInv
<1> QED
  BY <1>1, DeliveryInvariant, PTL

\* Every command goes to the LRAD its order names, once and in order.
THEOREM CommandsAreRouted == EngineSpec => []RoutedToConfiguredLrad
<1>1. DeliveryInv => RoutedToConfiguredLrad
  BY DEF DeliveryInv, RoutedInv, OrderedWrites, RoutedToConfiguredLrad
<1> QED
  BY <1>1, DeliveryInvariant, PTL

-----------------------------------------------------------------------------
(* One address per target.                                                 *)

\* A command was written to the address that the cache has for its target.
AddressInv ==
  \A i \in DOMAIN written : written[i].to = endpoint_cache[target(written[i].order)]

CacheStays ==
  \A t \in Targets : endpoint_cache[t] # NoEndpoint => endpoint_cache'[t] = endpoint_cache[t]

\* The cache only grows: an address that was resolved is never resolved again.
LEMMA NextCacheStays ==
  ASSUME TcpInv, [EngineNext]_engineVars
  PROVE  CacheStays
<1>1. CASE SendStep
  <2>1. ASSUME NEW e \in Endpoints, resolve_target_endpoint(e) PROVE CacheStays
    BY <2>1 DEF resolve_target_endpoint, TcpInv, TcpTypeOK, CacheStays
  <2>2. CASE UNCHANGED endpoint_cache
    BY <2>2 DEF CacheStays
  <2> QED
    BY <1>1, <2>1, <2>2
      DEF SendStep, CacheHit, ResolveFails, KeepConnection, DropConnection,
          Connect, ConnectFails, Write, WriteFails
<1>2. CASE NetworkStep
  BY <1>2 DEF NetworkStep, ListenerDown, ListenerUp, PeerCloses, PeerStalls,
    PeerDrains, ResetArrives, LinkStep, senderVars, CacheStays
<1>3. CASE UNCHANGED endpoint_cache
  BY <1>3 DEF CacheStays
<1>4. ASSUME NEW t \in Targets, send(t) PROVE CacheStays
  BY <1>3, <1>4 DEF send
<1>5. CASE Return
  BY <1>3, <1>5 DEF Return
<1> QED
  BY <1>1, <1>2, <1>3, <1>4, <1>5, EngineStepsAreTcpSteps DEF TcpNext, tcpVars

\* AddressInv is kept with the cache by every step.
LEMMA NextAddressInv ==
  ASSUME BaseInv, DeliveryInv, AddressInv, [EngineNext]_engineVars
  PROVE  AddressInv'
<1>1. CacheStays
  BY NextCacheStays DEF BaseInv, TypeInv
<1>2. ASSUME NEW i \in DOMAIN written
      PROVE  /\ target(written[i].order) \in Targets
             /\ endpoint_cache[target(written[i].order)] # NoEndpoint
             /\ written[i].order \in delivered
  <2>1. written[i].to \in Endpoints
    <3>1. written \in Seq(Writes)
      BY DEF BaseInv, TypeInv, EngineTypeOK, Writes
    <3>2. written[i] \in Writes
      BY <3>1, ElementOfSeq
    <3> QED
      BY <3>2 DEF Writes
  <2>2. target(written[i].order) \in Targets
    BY EngineConstants DEF DeliveryInv, RoutedInv, target
  <2> QED
    BY <2>1, <2>2, TcpConstants DEF AddressInv, delivered
<1>3. \A n \in 1..taken : received'[n] = received[n]
  <2>1. CASE \E d \in Datagrams : Receive(d)
    <3>1. PICK d \in Datagrams : Receive(d)
      BY <2>1
    <3> QED
      BY <3>1, ReceivedStays, Positions DEF BaseInv, PositionFacts
  <2>2. CASE UNCHANGED received
    BY <2>2
  <2> QED
    BY <2>1, <2>2 DEF EngineNext, processPacket, ReceiveError, StopDelivery,
      Ignore, ConvertThrows, AckOnly, BeginCommands, Unrouted, StartSend,
      Sending, SendReturns, ReportResult, Finish, HandlerTerminates, Network,
      receiverVars, engineVars
<1> DEFINE T(r, o) == LradConfig[packets(r[o[1]])[o[2]].destinationLradId]
<1>4. AddressInv' <=> \A i \in DOMAIN written' :
                        written'[i].to = endpoint_cache'[T(received', written'[i].order)]
  BY DEF AddressInv, target, message
<1>5. ASSUME NEW i \in DOMAIN written
      PROVE  written[i].to = endpoint_cache'[T(received', written[i].order)]
  <2> DEFINE o == written[i].order
           t == T(received, o)
  <2>1. target(o) = t
    BY DEF target, message
  <2>2. o \in delivered /\ t \in Targets /\ endpoint_cache[t] # NoEndpoint
    BY <1>2, <2>1
  <2>3. written[i].to = endpoint_cache[t]
    BY <2>1 DEF AddressInv
  <2>4. \A x \in delivered : received'[x[1]] = received[x[1]]
    BY <1>3, OldOrders DEF DeliveryInv
  <2>5. T(received', o) = t
    BY <2>2, <2>4
  <2> HIDE DEF T, t
  <2> QED
    BY <1>1, <2>2, <2>3, <2>5 DEF CacheStays
<1>6. CASE UNCHANGED written
  BY <1>4, <1>5, <1>6
<1>7. CASE Sending /\ call'.at = "done" /\ call'.result.success
  <2> DEFINE w == [order |-> <<taken, index>>, to |-> socket.remote]
  <2>1. /\ Write /\ socket.remote \in Endpoints
    BY <1>7, OnlyWriteSucceeds DEF Sending, BaseInv, TypeInv
  <2>2. /\ call.target = LradConfig[destination]
        /\ taken \in Nat /\ index \in Nat
        /\ UNCHANGED <<received, taken, index, endpoint_cache>>
        /\ written' = Append(written, w)
    BY <1>7, <2>1, Positions
      DEF Write, Sending, receiverVars, loopVars, BaseInv, TypeInv, EngineTypeOK, PositionFacts
  <2>3. w.to = endpoint_cache[call.target] /\ w.order = <<taken, index>>
    BY <2>1 DEF Write, BaseInv, TypeInv, TcpInv, CacheInv, SocketInv, resolved
  <2>4. T(received', w.order) = call.target
    BY <2>2, <2>3 DEF destination, current
  <2>5. /\ DOMAIN written = 1..Len(written) /\ Len(written) \in Nat
        /\ DOMAIN written' = 1..(Len(written) + 1)
        /\ \A i \in 1..Len(written) : written'[i] = written[i]
        /\ written'[Len(written) + 1] = w
    <3>1. w \in Writes /\ written \in Seq(Writes)
      BY <2>1, <2>2 DEF BaseInv, TypeInv, EngineTypeOK, Writes
    <3> HIDE DEF w
    <3> QED
      BY <2>2, <3>1, AppendProperties
  <2> HIDE DEF w, T
  <2>6. ASSUME NEW i \in 1..(Len(written) + 1)
        PROVE  written'[i].to = endpoint_cache'[T(received', written'[i].order)]
    <3>1. CASE i \in 1..Len(written)
      BY <1>5, <2>5, <3>1
    <3>2. CASE i = Len(written) + 1
      BY <2>2, <2>3, <2>4, <2>5, <3>2
    <3> QED
      BY <3>1, <3>2
  <2> QED
    BY <1>4, <2>5, <2>6
<1>8. UNCHANGED written \/ (Sending /\ call'.at = "done" /\ call'.result.success)
  BY DEF EngineNext, processPacket, Receive, ReceiveError, StopDelivery, Ignore,
    ConvertThrows, AckOnly, BeginCommands, Unrouted, StartSend, Sending,
    SendReturns, ReportResult, Finish, HandlerTerminates, Network, engineVars
<1> QED
  BY <1>6, <1>7, <1>8

\* However often a connection is lost, a target refuses or another LRAD is
\* served in between, all commands for a target go to one address.
THEOREM TargetsKeepTheirAddress == EngineSpec => []OneAddressPerTarget
<1>1. EngineInit => AddressInv
  BY DEF EngineInit, AddressInv
<1>2. BaseInv /\ DeliveryInv /\ AddressInv /\ [EngineNext]_engineVars => AddressInv'
  BY NextAddressInv
<1>3. AddressInv => OneAddressPerTarget
  BY DEF AddressInv, OneAddressPerTarget
<1> QED
  BY <1>1, <1>2, <1>3, DeliveryInvariant, PTL DEF EngineSpec

=============================================================================
