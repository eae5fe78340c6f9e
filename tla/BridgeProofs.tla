----------------------------- MODULE BridgeProofs -----------------------------
(***************************************************************************)
(* What the combat system can rely on, for any configuration, any          *)
(* datagrams and any number of network faults: the engine implements       *)
(* OrderBridge, every step of it being a step of the bridge or none, and   *)
(* the packets that leave are evidence of what happened to the orders.     *)
(***************************************************************************)
EXTENDS CommitProofs, Reporting

EngineInv == BaseInv /\ DeliveryInv /\ CommitInv

\* The engine starts as the bridge does.
LEMMA BridgeStarts == EngineInit => Bridge!BridgeInit
<1> SUFFICES ASSUME EngineInit PROVE Bridge!BridgeInit
  OBVIOUS
<1>1. DOMAIN acks = {} /\ DOMAIN written = {}
  BY DEF EngineInit
<1>2. settled_delivered = {} /\ settled_acked = {} /\ settled_nacked = {}
  BY <1>1 DEF settled_delivered, settled_acked, settled_nacked, settled, reported_as,
    delivered
<1> QED
  BY <1>2 DEF EngineInit, Bridge!BridgeInit, finished

\* What is settled, as the three sets that the bridge sees.
settledVars == <<settled_delivered, settled_acked, settled_nacked>>

\* Steps that settle nothing and move nothing the bridge sees.
LEMMA QuietBridge ==
  ASSUME UNCHANGED <<receiving, delivery, received, finished, pc, systemState>>,
         UNCHANGED settledVars
  PROVE  UNCHANGED Bridge!bridgeVars
BY DEF Bridge!bridgeVars, settledVars

\* Nothing is settled while nothing is reported, written or finished.
LEMMA SettledStays ==
  ASSUME UNCHANGED <<acks, written, finished>>
  PROVE  UNCHANGED settledVars
BY DEF settledVars, settled_delivered, settled_acked, settled_nacked, settled,
  reported_as, delivered

\* The main thread: what arrives and what ends.
LEMMA MainBridge ==
  ASSUME EngineInv,
         \/ \E d \in Datagrams : Receive(d)
         \/ ReceiveError \/ StopDelivery \/ HandlerTerminates
  PROVE  Bridge!BridgeNext
<1>1. UNCHANGED <<taken, pc, acks, written, systemState>>
  BY DEF Receive, ReceiveError, StopDelivery, HandlerTerminates, loopVars
<1>2. finished' = finished /\ UNCHANGED settledVars
  BY <1>1, SettledStays DEF finished
<1> USE <1>1, <1>2 DEF settledVars
<1>3. ASSUME NEW d \in Datagrams, Receive(d) PROVE Bridge!Accept(d)
  BY <1>3 DEF Receive, Bridge!Accept
<1>4. CASE ReceiveError
  BY <1>4 DEF ReceiveError, Bridge!CeaseReceiving, Bridge!BridgeNext
<1>5. CASE StopDelivery
  BY <1>5 DEF StopDelivery, receiverVars, Bridge!CeaseService, Bridge!BridgeNext
<1>6. CASE HandlerTerminates
  BY <1>6 DEF HandlerTerminates, receiverVars, Bridge!Abandon, Bridge!BridgeNext
<1> QED
  BY <1>3, <1>4, <1>5, <1>6 DEF Bridge!BridgeNext

\* A finished datagram is one that was taken; an order that was reported or
\* delivered belongs to a datagram that was taken, and is one of its orders.
LEMMA OrdersTaken ==
  ASSUME EngineInv
  PROVE  /\ finished \in Nat /\ taken \in Nat
         /\ \A v : reported_as(v) \subseteq reported
         /\ \A o \in reported \cup delivered :
              o \in Nat \X Nat /\ o = <<o[1], o[2]>> /\ o[1] \in 1..taken
<1>1. finished \in Nat /\ taken \in Nat
  BY FinishedTyped DEF EngineInv, BaseInv
<1>2. \A v : reported_as(v) \subseteq reported
  BY DEF reported_as, reported
<1>3. \A o \in reported : o \in Nat \X Nat /\ o = <<o[1], o[2]>> /\ o[1] \in 1..taken
  BY ReportedOrders DEF EngineInv, BaseInv, ReportInv
<1>4. Accepted => <<taken, index>> \in Nat \X Nat /\ taken \in 1..taken
  BY <1>1, Positions
     DEF Accepted, EngineInv, BaseInv, TypeInv, EngineTypeOK, InLoop, PositionFacts
<1>5. \A o \in delivered : o \in reported \/ (Accepted /\ o = <<taken, index>>)
  BY DEF EngineInv, DeliveryInv, DeliveredInv
<1>6. ASSUME NEW o \in delivered
      PROVE  o \in Nat \X Nat /\ o = <<o[1], o[2]>> /\ o[1] \in 1..taken
  BY <1>3, <1>4, <1>5
<1> QED
  BY <1>1, <1>2, <1>3, <1>6

\* An appended report joins the orders reported with its verdict.
LEMMA VerdictAppended ==
  ASSUME acks \in Seq(Reports), NEW a \in Reports, acks' = Append(acks, a), NEW v
  PROVE  reported_as(v)' =
           reported_as(v) \cup (IF a.packet.ack_nack = v THEN {a.order} ELSE {})
<1>1. /\ DOMAIN acks = 1..Len(acks) /\ Len(acks) \in Nat
      /\ DOMAIN acks' = (1..Len(acks)) \cup {Len(acks) + 1}
      /\ \A i \in 1..Len(acks) : acks'[i] = acks[i]
      /\ acks'[Len(acks) + 1] = a
  BY AppendProperties
<1> DEFINE J == {j \in DOMAIN acks : acks[j].packet.ack_nack = v}
           K == {j \in DOMAIN acks' : acks'[j].packet.ack_nack = v}
<1>2. K = J \cup (IF a.packet.ack_nack = v THEN {Len(acks) + 1} ELSE {})
  BY <1>1
<1>3. reported_as(v) = {acks[i].order : i \in J}
  BY DEF reported_as
<1>4. reported_as(v)' = {acks'[i].order : i \in K}
  BY DEF reported_as
<1>5. J \subseteq 1..Len(acks)
  BY <1>1
<1> HIDE DEF J, K
<1> QED
  BY <1>1, <1>2, <1>3, <1>4, <1>5

\* A datagram is taken: the bridge discards it, crashes on it or begins it.
LEMMA TakeBridge ==
  ASSUME EngineInv, NEW d \in Datagrams, delivery # "terminated",
         Ignore(d) \/ ConvertThrows(d) \/ BeginCommands(d)
  PROVE  Bridge!BridgeNext
<1>1. /\ pc = "idle" /\ delivery = "running" /\ taken < Len(received)
      /\ d = received[taken + 1] /\ taken' = taken + 1
      /\ UNCHANGED <<received, acks, written, systemState>>
  BY DEF Ignore, ConvertThrows, BeginCommands, Takes, receiverVars
<1>2. finished = taken /\ taken \in Nat /\ ~(pc = "loop")
  BY <1>1, OrdersTaken DEF finished
<1>3. Bridge!Next(d)
  BY <1>1, <1>2 DEF Bridge!Next
<1>4. UNCHANGED settledVars
  <2>1. finished' \in Nat /\ finished' >= taken
    BY <1>1, <1>2, EngineConstants
       DEF finished, Ignore, ConvertThrows, BeginCommands, loopVars
  <2>2. \A o \in reported \cup delivered : o[1] <= taken /\ o[1] <= finished'
    BY <1>2, <2>1, OrdersTaken
  <2>3. reported_as(AckAccepted) \subseteq reported /\ reported_as(NackNotExecuted) \subseteq reported
    BY OrdersTaken
  <2>4. /\ reported_as(AckAccepted)' = reported_as(AckAccepted)
        /\ reported_as(NackNotExecuted)' = reported_as(NackNotExecuted)
        /\ delivered' = delivered
    BY <1>1 DEF reported_as, delivered
  <2> QED
    BY <1>2, <2>2, <2>3, <2>4
       DEF settledVars, settled_delivered, settled_acked, settled_nacked, settled
<1>5. CASE Ignore(d)
  <2>1. discarded(d) /\ UNCHANGED <<receiving, delivery, pc>> /\ finished' = finished + 1
    BY <1>1, <1>2, <1>5 DEF Ignore, discarded, receiverVars, loopVars, finished
  <2>2. Bridge!Discard(d)
    BY <1>1, <1>3, <1>4, <2>1 DEF Bridge!Discard, settledVars
  <2> QED
    BY <2>2 DEF Bridge!BridgeNext
<1>6. CASE ConvertThrows(d)
  <2>1. /\ dump_throws(d) /\ delivery' = "terminated" /\ receiving' = FALSE
        /\ pc' = pc /\ finished' = finished + 1
    BY <1>1, <1>2, <1>6 DEF ConvertThrows, loopVars, finished
  <2>2. Bridge!Crash(d)
    BY <1>1, <1>3, <1>4, <2>1 DEF Bridge!Crash, settledVars
  <2> QED
    BY <2>2 DEF Bridge!BridgeNext
<1>7. CASE BeginCommands(d)
  <2>1. /\ ~discarded(d) /\ ~ack_only(d) /\ ~dump_throws(d)
        /\ UNCHANGED <<receiving, delivery>> /\ pc' = "loop" /\ finished' = finished
    BY <1>1, <1>2, <1>7 DEF BeginCommands, discarded, receiverVars, finished
  <2>2. Bridge!Begin(d)
    BY <1>1, <1>3, <1>4, <2>1 DEF Bridge!Begin, settledVars
  <2> QED
    BY <2>2 DEF Bridge!BridgeNext
<1> QED
  BY <1>5, <1>6, <1>7

\* A cancellation is confirmed: its one order is ACKed, and not delivered.
LEMMA ConfirmBridge ==
  ASSUME EngineInv, NEW d \in Datagrams, AckOnly(d)
  PROVE  Bridge!BridgeNext
<1> DEFINE a == Report(<<taken + 1, 1>>, d, 0, Success)
<1>1. /\ pc = "idle" /\ delivery = "running" /\ taken < Len(received)
      /\ d = received[taken + 1] /\ taken' = taken + 1 /\ acks' = Append(acks, a)
      /\ UNCHANGED <<receiving, delivery, received, written, systemState, pc>>
      /\ packets(d) # <<>> /\ ack_only(d)
  BY DEF AckOnly, Takes, receiverVars, loopVars
<1>2. /\ finished = taken /\ taken \in Nat /\ ~(pc = "loop") /\ finished' = finished + 1
  BY <1>1, OrdersTaken DEF finished
<1>3. Bridge!Next(d)
  BY <1>1, <1>2 DEF Bridge!Next
<1>4. order_places(d) = {1}
  <2>1. Len(packets(d)) = 1
    BY <1>1, AckOnlyHasOneOrder
  <2>2. 1..1 = {1}
    OBVIOUS
  <2> QED
    BY <2>1, <2>2, Zenon DEF order_places
<1>5. a \in Reports /\ a.order = <<taken + 1, 1>> /\ a.packet.ack_nack = AckAccepted
  <2>1. /\ build_ack_packet(0, d.messageId, Success) \in AckPacket
        /\ build_ack_packet(0, d.messageId, Success).ack_nack = AckAccepted
    <3>1. Success \in SendResult /\ Success.success
      BY ResultsTyped DEF Success, DefaultResult
    <3> QED
      BY <3>1, AckPacketTyped, DatagramTyped
  <2> QED
    BY <1>2, <2>1 DEF Report, Reports
<1> HIDE DEF a
<1>6. acks \in Seq(Reports)
  BY DEF EngineInv, BaseInv, TypeInv, EngineTypeOK, Reports
<1>7. /\ reported_as(AckAccepted)' = reported_as(AckAccepted) \cup {<<taken + 1, 1>>}
      /\ reported_as(NackNotExecuted)' = reported_as(NackNotExecuted)
      /\ delivered' = delivered
  <2>1. AckAccepted # NackNotExecuted
    BY DEF AckAccepted, NackNotExecuted
  <2> QED
    BY <1>1, <1>5, <1>6, <2>1, VerdictAppended DEF delivered
<1>8. \A o \in delivered \cup reported_as(AckAccepted) \cup reported_as(NackNotExecuted) :
        o[1] <= finished /\ o[1] <= finished'
  BY <1>2, OrdersTaken
<1>9. /\ settled_delivered' = settled_delivered
      /\ settled_acked' = settled_acked \cup {<<taken + 1, 1>>}
      /\ settled_nacked' = settled_nacked
  BY <1>2, <1>7, <1>8 DEF settled_delivered, settled_acked, settled_nacked, settled
<1>10. settled_acked' = settled_acked \cup ({finished + 1} \X order_places(d))
  BY <1>2, <1>4, <1>9
<1>11. Bridge!Confirm(d)
  BY <1>1, <1>2, <1>3, <1>9, <1>10 DEF Bridge!Confirm
<1> QED
  BY <1>11 DEF Bridge!BridgeNext

\* Inside the loop the bridge sees nothing: what is written or reported there
\* belongs to a datagram that is not settled yet.
LEMMA LoopBridge ==
  ASSUME EngineInv, Unrouted \/ StartSend \/ Sending \/ SendReturns
  PROVE  UNCHANGED Bridge!bridgeVars
<1>1. /\ pc = "loop" /\ pc' = "loop" /\ taken' = taken
      /\ UNCHANGED <<receiving, delivery, received, systemState>>
  BY DEF Unrouted, StartSend, Sending, SendReturns, ReportResult, InLoop, receiverVars, loopVars
<1>2. finished' = finished /\ taken \in Nat /\ finished = taken - 1
  BY <1>1, OrdersTaken DEF finished
<1>3. CASE UNCHANGED <<acks, written>>
  BY <1>1, <1>2, <1>3, SettledStays, QuietBridge
<1>4. CASE Sending /\ written' # written
  <2> DEFINE w == [order |-> <<taken, index>>, to |-> socket.remote]
  <2>1. written' = Append(written, w) /\ acks' = acks
    BY <1>4 DEF Sending
  <2>2. w \in Writes
    <3>1. Write /\ socket.remote \in Endpoints
      BY <1>4, OnlyWriteSucceeds DEF Sending, EngineInv, BaseInv, TypeInv
    <3>2. index \in Nat
      BY Positions DEF EngineInv, BaseInv, PositionFacts
    <3> QED
      BY <1>2, <3>1, <3>2 DEF Writes
  <2>3. written \in Seq(Writes)
    BY DEF EngineInv, BaseInv, TypeInv, EngineTypeOK, Writes
  <2>4. w.order = <<taken, index>>
    OBVIOUS
  <2> HIDE DEF w
  <2>5. /\ DOMAIN written = 1..Len(written) /\ Len(written) \in Nat
        /\ DOMAIN written' = (1..Len(written)) \cup {Len(written) + 1}
        /\ \A i \in 1..Len(written) : written'[i] = written[i]
        /\ written'[Len(written) + 1] = w
    BY <2>1, <2>2, <2>3, AppendProperties
  <2>6. delivered' = delivered \cup {<<taken, index>>}
    BY <2>4, <2>5 DEF delivered
  <2>7. settled_delivered' = settled_delivered
    BY <1>2, <2>6 DEF settled_delivered, settled
  <2>8. settled_acked' = settled_acked /\ settled_nacked' = settled_nacked
    BY <1>2, <2>1 DEF settled_acked, settled_nacked, settled, reported_as
  <2> QED
    BY <1>1, <1>2, <2>7, <2>8, QuietBridge DEF settledVars
<1>5. ASSUME NEW r \in SendResult, ReportResult(r), written' = written, InLoop
      PROVE  UNCHANGED Bridge!bridgeVars
  <2> DEFINE action == extract_action_id_from_payload(packets(current)[index])
             a == Report(<<taken, index>>, current, action, r)
  <2>1. acks' = Append(acks, a)
    BY <1>5 DEF ReportResult
  <2>2. a \in Reports /\ a.order = <<taken, index>>
    <3>1. current \in Datagrams /\ index \in 1..Len(packets(current))
      BY <1>1, <1>5, CurrentTyped, PacketCount
         DEF InLoop, EngineInv, BaseInv, TypeInv, EngineTypeOK
    <3> QED
      BY <1>2, <3>1, ReportTyped DEF Reports, Report
  <2> HIDE DEF a
  <2>3. acks \in Seq(Reports)
    BY DEF EngineInv, BaseInv, TypeInv, EngineTypeOK, Reports
  <2>4. ASSUME NEW v PROVE settled(reported_as(v))' = settled(reported_as(v))
    <3>1. reported_as(v)' \subseteq reported_as(v) \cup {<<taken, index>>}
          /\ reported_as(v) \subseteq reported_as(v)'
      BY <2>1, <2>2, <2>3, VerdictAppended
    <3> QED
      BY <1>2, <3>1 DEF settled
  <2>5. settled_delivered' = settled_delivered
    BY <1>2, <1>5 DEF settled_delivered, settled, delivered
  <2>6. settled_acked' = settled_acked /\ settled_nacked' = settled_nacked
    BY <2>4 DEF settled_acked, settled_nacked, AckAccepted, NackNotExecuted
  <2> QED
    BY <1>1, <1>2, <2>5, <2>6, QuietBridge DEF settledVars
<1>6. CASE Unrouted
  BY <1>5, <1>6, UnroutedResult DEF Unrouted, ReportResult
<1>7. CASE SendReturns
  <2>1. call.result \in SendResult
    BY DEF EngineInv, BaseInv, TypeInv, TcpInv, TcpTypeOK
  <2> QED
    BY <1>5, <1>7, <2>1 DEF SendReturns, ReportResult
<1>8. CASE StartSend
  BY <1>3, <1>8 DEF StartSend
<1>9. CASE Sending /\ written' = written
  BY <1>3, <1>9 DEF Sending
<1> QED
  BY <1>4, <1>6, <1>7, <1>8, <1>9

\* At the end of the loop every order of the datagram has its verdict: an ACK
\* if it was delivered, and else a NACK.
LEMMA Verdicts ==
  ASSUME EngineInv, pc = "loop", index > Len(packets(current))
  PROVE  /\ \A i \in order_places(current) :
              /\ <<taken, i>> \in reported_as(AckAccepted) <=> <<taken, i>> \in delivered
              /\ <<taken, i>> \in reported_as(NackNotExecuted) <=> <<taken, i>> \notin delivered
         /\ \A o \in reported \cup delivered :
              o[1] = taken => o[2] \in order_places(current)
         /\ allSendsSucceeded <=>
              \A i \in order_places(current) : <<taken, i>> \in delivered
<1>1. /\ taken \in Nat /\ taken \in 1..taken /\ index = Len(packets(current)) + 1
      /\ Len(packets(current)) \in Nat /\ current \in Datagrams
  <2>1. current \in Datagrams
    BY CurrentTyped DEF EngineInv, BaseInv, TypeInv, EngineTypeOK
  <2>2. Len(packets(current)) \in Nat
    BY <2>1, PacketCount
  <2> QED
    BY <2>1, <2>2, Positions DEF EngineInv, BaseInv, PositionFacts
<1>2. due(taken) = Len(packets(current))
  <2>1. DueFacts(taken)
    BY <1>1, DueOf DEF EngineInv, BaseInv
  <2> QED
    BY <1>1, <2>1 DEF DueFacts
<1>3. \A i \in order_places(current) : <<taken, i>> \in reported
  BY <1>1, <1>2 DEF order_places, EngineInv, BaseInv, ReportInv, ReportedInv
<1>4. ~Accepted
  BY <1>1 DEF Accepted, EngineInv, BaseInv, TypeInv, EngineTypeOK, InLoop
<1>5. delivered \subseteq reported
  BY <1>4 DEF EngineInv, DeliveryInv, DeliveredInv
<1>6. \A o \in reported \cup delivered : o[1] = taken => o[2] \in order_places(current)
  <2>1. \A o \in reported : o[2] \in 1..due(o[1])
    BY ReportedOrders DEF EngineInv, BaseInv, ReportInv
  <2> QED
    BY <1>2, <1>5, <2>1 DEF order_places
<1>7. ASSUME NEW j \in DOMAIN acks, acks[j].order[1] = taken
      PROVE  /\ acks[j].packet.ack_nack = AckAccepted <=> acks[j].order \in delivered
             /\ acks[j].packet.ack_nack \in {AckAccepted, NackNotExecuted}
  <2>1. ~ack_only(received[taken])
    BY DEF EngineInv, BaseInv, TypeInv, LoopInv, current
  <2>2. acks[j].packet \in AckPacket
    <3>1. acks \in Seq(Reports)
      BY DEF EngineInv, BaseInv, TypeInv, EngineTypeOK, Reports
    <3>2. acks[j] \in Reports
      BY <3>1, ElementOfSeq
    <3> QED
      BY <3>2 DEF Reports
  <2> QED
    BY <1>7, <2>1, <2>2 DEF EngineInv, DeliveryInv, AcksAreTruthful, AckPacket
<1>8. ASSUME NEW i \in order_places(current)
      PROVE  /\ <<taken, i>> \in reported_as(AckAccepted) <=> <<taken, i>> \in delivered
             /\ <<taken, i>> \in reported_as(NackNotExecuted) <=> <<taken, i>> \notin delivered
  <2>1. PICK j \in DOMAIN acks : acks[j].order = <<taken, i>>
    BY <1>3 DEF reported
  <2>2. acks[j].order[1] = taken
    BY <2>1
  <2>3. AckAccepted # NackNotExecuted
    BY DEF AckAccepted, NackNotExecuted
  <2>4. \A k \in DOMAIN acks : acks[k].order = <<taken, i>> => acks[k].order[1] = taken
    OBVIOUS
  <2> QED
    BY <1>7, <2>1, <2>2, <2>3, <2>4 DEF reported_as
<1>9. AllAcked(taken) <=> \A i \in order_places(current) : <<taken, i>> \in delivered
  <2>1. ASSUME AllAcked(taken), NEW i \in order_places(current)
        PROVE  <<taken, i>> \in delivered
    <3>1. PICK j \in DOMAIN acks : acks[j].order = <<taken, i>>
      BY <1>3 DEF reported
    <3>2. acks[j].order[1] = taken
      BY <3>1
    <3> QED
      BY <1>7, <2>1, <3>1, <3>2 DEF AllAcked
  <2>2. ASSUME \A i \in order_places(current) : <<taken, i>> \in delivered,
               NEW j \in DOMAIN acks, acks[j].order[1] = taken
        PROVE  acks[j].packet.ack_nack = AckAccepted
    <3>1. acks[j].order \in reported
      BY DEF reported
    <3>2. acks[j].order = <<taken, acks[j].order[2]>> /\ acks[j].order[2] \in order_places(current)
      BY <1>6, <2>2, <3>1, OrdersTaken
    <3> QED
      BY <1>7, <2>2, <3>2
  <2> QED
    BY <2>1, <2>2 DEF AllAcked
<1>10. allSendsSucceeded <=> AllAcked(taken)
  BY DEF EngineInv, CommitInv, FlagInv
<1> QED
  BY <1>6, <1>8, <1>9, <1>10

\* The orders with some outcome, when the datagram in the loop is settled too.
LEMMA SettledNext ==
  ASSUME EngineInv, pc = "loop", pc' = "idle", UNCHANGED <<taken, received>>,
         NEW S, NEW ok \in SUBSET order_places(current),
         S \subseteq reported \cup delivered,
         \A o \in S : o[1] = taken => o[2] \in order_places(current),
         \A i \in order_places(current) : <<taken, i>> \in S <=> i \in ok
  PROVE  {o \in S : o[1] <= finished'} =
           {o \in S : o[1] <= finished} \cup ({finished + 1} \X ok)
<1>1. taken \in Nat /\ finished = taken - 1 /\ finished' = taken /\ finished + 1 = taken
  BY OrdersTaken DEF finished
<1>2. \A o \in S : o = <<o[1], o[2]>> /\ o[1] \in Nat
  BY OrdersTaken
<1>3. \A o \in S : o[1] = taken => o \in {taken} \X ok
  BY <1>2
<1>4. \A o \in {taken} \X ok : o \in S /\ o[1] = taken
  OBVIOUS
<1> QED
  BY <1>1, <1>2, <1>3, <1>4

\* The end of the loop settles the datagram as a whole.
LEMMA FinishBridge ==
  ASSUME EngineInv, Finish, delivery # "terminated"
  PROVE  Bridge!BridgeNext
<1> DEFINE ok == {i \in order_places(current) : <<taken, i>> \in delivered}
<1>1. /\ pc = "loop" /\ pc' = "idle" /\ index > Len(packets(current))
      /\ UNCHANGED <<receiving, delivery, received, taken, acks, written>>
      /\ systemState' = IF allSendsSucceeded
                          THEN applyBatch(systemState, state_updates(current))
                          ELSE systemState
  BY DEF Finish, receiverVars
<1>2. /\ taken \in Nat /\ finished = taken - 1 /\ finished' = finished + 1
      /\ finished + 1 = taken /\ current = received[finished + 1]
  BY <1>1, OrdersTaken DEF finished, current
<1>3. /\ \A i \in order_places(current) :
           /\ <<taken, i>> \in reported_as(AckAccepted) <=> i \in ok
           /\ <<taken, i>> \in reported_as(NackNotExecuted) <=> i \in order_places(current) \ ok
           /\ <<taken, i>> \in delivered <=> i \in ok
      /\ \A o \in reported \cup delivered :
           o[1] = taken => o[2] \in order_places(current)
      /\ allSendsSucceeded <=> ok = order_places(current)
  BY <1>1, Verdicts
<1>4. \A i \in ok : routed(received[finished + 1], i)
  <2>1. ASSUME NEW i \in ok PROVE routed(current, i)
    <3>1. PICK j \in DOMAIN written : written[j].order = <<taken, i>>
      BY DEF delivered
    <3>2. message(<<taken, i>>).destinationLradId \in DOMAIN LradConfig
      BY <3>1 DEF EngineInv, DeliveryInv, RoutedInv
    <3> QED
      BY <3>2 DEF routed, message, current
  <2> QED
    BY <1>2, <2>1
<1>5. ok \in SUBSET order_places(current)
  OBVIOUS
<1> HIDE DEF ok
<1>6. settled_delivered' = settled_delivered \cup ({finished + 1} \X ok)
  <2>1. delivered' = delivered
    BY <1>1 DEF delivered
  <2>2. {o \in delivered : o[1] <= finished'} = settled_delivered \cup ({finished + 1} \X ok)
    BY <1>1, <1>3, <1>5, SettledNext DEF settled_delivered, settled
  <2> QED
    BY <2>1, <2>2 DEF settled_delivered, settled
<1>7. settled_acked' = settled_acked \cup ({finished + 1} \X ok)
  <2>1. reported_as(AckAccepted)' = reported_as(AckAccepted)
    BY <1>1 DEF reported_as
  <2>2. reported_as(AckAccepted) \subseteq reported
    BY OrdersTaken
  <2>3. {o \in reported_as(AckAccepted) : o[1] <= finished'} =
          settled_acked \cup ({finished + 1} \X ok)
    BY <1>1, <1>3, <1>5, <2>2, SettledNext DEF settled_acked, settled
  <2> QED
    BY <2>1, <2>3 DEF settled_acked, settled
<1>8. settled_nacked' = settled_nacked \cup ({finished + 1} \X (order_places(current) \ ok))
  <2>1. reported_as(NackNotExecuted)' = reported_as(NackNotExecuted)
    BY <1>1 DEF reported_as
  <2>2. reported_as(NackNotExecuted) \subseteq reported
    BY OrdersTaken
  <2>3. {o \in reported_as(NackNotExecuted) : o[1] <= finished'} =
          settled_nacked \cup ({finished + 1} \X (order_places(current) \ ok))
    BY <1>1, <1>3, <1>5, <2>2, SettledNext DEF settled_nacked, settled
  <2> QED
    BY <2>1, <2>3 DEF settled_nacked, settled
<1>9. systemState' = IF ok = order_places(received[finished + 1])
                       THEN updated(systemState, received[finished + 1]) ELSE systemState
  BY <1>1, <1>2, <1>3 DEF updated
<1>10. Bridge!Settle(ok)
  BY <1>1, <1>2, <1>4, <1>6, <1>7, <1>8, <1>9 DEF Bridge!Settle
<1>11. ok \in SUBSET order_places(received[finished + 1])
  BY <1>2, <1>5
<1> QED
  BY <1>1, <1>10, <1>11 DEF Bridge!BridgeNext

\* Every step of the engine is a step of the bridge, or leaves it alone.
LEMMA NextBridge ==
  ASSUME EngineInv, [EngineNext]_engineVars
  PROVE  [Bridge!BridgeNext]_(Bridge!bridgeVars)
<1>1. CASE (\E d \in Datagrams : Receive(d)) \/ ReceiveError \/ StopDelivery \/ HandlerTerminates
  BY <1>1, MainBridge
<1>2. CASE processPacket
  BY <1>2, TakeBridge, ConfirmBridge, LoopBridge, FinishBridge DEF processPacket
<1>3. CASE Network \/ UNCHANGED engineVars
  <2>1. UNCHANGED <<receiving, received, delivery, taken, pc, systemState, acks, written>>
    BY <1>3 DEF Network, engineVars, receiverVars, loopVars
  <2>2. finished' = finished
    BY <2>1 DEF finished
  <2> QED
    BY <2>1, <2>2, SettledStays, QuietBridge
<1> QED
  BY <1>1, <1>2, <1>3 DEF EngineNext

\* The proxy keeps its promise to the combat system: for any datagrams, any
\* configuration and any faults, the steps of the two threads and the network
\* amount to datagrams that are settled one at a time and as a whole.
THEOREM EngineImplementsBridge == EngineSpec => ImplementsBridge
<1>1. EngineInit => EngineInv
  BY InitTypeInv, InitReportInv, InitDeliveryInv, InitCommitInv DEF EngineInv, BaseInv
<1>2. EngineInv /\ [EngineNext]_engineVars => EngineInv'
  BY NextTypeInv, NextReportInv, NextDeliveryInv, NextCommitInv DEF EngineInv, BaseInv
<1>3. EngineInit => Bridge!BridgeInit
  BY BridgeStarts
<1>4. EngineInv /\ [EngineNext]_engineVars => [Bridge!BridgeNext]_(Bridge!bridgeVars)
  BY NextBridge
<1> QED
  BY <1>1, <1>2, <1>3, <1>4, PTL DEF EngineSpec, ImplementsBridge, Bridge!BridgeSpec

----------------------------------------------------------------------------
(* The packets that leave.                                                 *)

\* A report carries the numbers of its own order, and an order that is not sent
\* is ACKed.
Describes(a) ==
  LET d == received[a.order[1]] IN
  /\ a.packet.source_message_id = d.messageId
  /\ a.packet.action_id =
       IF ack_only(d) THEN 0 ELSE extract_action_id_from_payload(message(a.order))
  /\ ack_only(d) => a.packet.ack_nack = AckAccepted

DescribedInv == \A i \in DOMAIN acks : Describes(acks[i])

\* What left is what was reported.
LeftInv == \A p \in ack_network : \E i \in DOMAIN acks : p = acks[i].packet

PacketInv == DescribedInv /\ LeftInv

\* A step that reports nothing sends nothing, and the orders of old reports stay.
LEMMA SilentPacketInv ==
  ASSUME EngineInv, PacketInv, acks' = acks, UNCHANGED ackVars,
         \A n \in 1..taken : received'[n] = received[n]
  PROVE  PacketInv'
<1>1. ASSUME NEW i \in DOMAIN acks PROVE Describes(acks[i])'
  <2> DEFINE o == acks[i].order
  <2>1. o \in reported \cup delivered
    BY DEF reported
  <2>2. received'[o[1]] = received[o[1]] /\ message(o)' = message(o)
    BY <2>1, OldOrders DEF EngineInv, DeliveryInv
  <2>3. Describes(acks[i])
    BY DEF PacketInv, DescribedInv
  <2> QED
    BY <2>2, <2>3 DEF Describes
<1>2. DescribedInv'
  BY <1>1 DEF DescribedInv
<1>3. LeftInv'
  BY DEF PacketInv, LeftInv, ackVars
<1> QED
  BY <1>2, <1>3 DEF PacketInv

\* A step that reports an order sends that report or nothing.
LEMMA ReportedPacketInv ==
  ASSUME EngineInv, PacketInv, NEW a \in Reports, acks' = Append(acks, a),
         received' = received, Describes(a), Handed
  PROVE  PacketInv'
<1>1. /\ DOMAIN acks = 1..Len(acks) /\ Len(acks) \in Nat
      /\ DOMAIN acks' = 1..(Len(acks) + 1) /\ Len(acks') = Len(acks) + 1
      /\ \A i \in 1..Len(acks) : acks'[i] = acks[i]
      /\ acks'[Len(acks) + 1] = a
  <2>1. acks \in Seq(Reports)
    BY DEF EngineInv, BaseInv, TypeInv, EngineTypeOK, Reports
  <2> QED
    BY <2>1, AppendProperties
<1>2. \A b : Describes(b)' <=> Describes(b)
  BY DEF Describes, message
<1>3. ASSUME NEW i \in 1..(Len(acks) + 1) PROVE Describes(acks'[i])
  <2>1. CASE i \in 1..Len(acks)
    BY <1>1, <2>1 DEF PacketInv, DescribedInv
  <2>2. CASE i = Len(acks) + 1
    BY <1>1, <2>2
  <2> QED
    BY <1>1, <2>1, <2>2
<1>4. DescribedInv'
  BY <1>1, <1>2, <1>3 DEF DescribedInv
<1>5. ack_network' \subseteq ack_network \cup {a.packet}
  BY <1>1 DEF Handed, send_ack, Leaves, Dropped
<1>6. LeftInv'
  BY <1>1, <1>5 DEF PacketInv, LeftInv
<1> QED
  BY <1>4, <1>6 DEF PacketInv

\* A cancellation is reported with action id 0, and ACKed.
LEMMA AckOnlyPacketInv ==
  ASSUME EngineInv, PacketInv, NEW d \in Datagrams, AckOnly(d), Handed
  PROVE  PacketInv'
<1> DEFINE a == Report(<<taken + 1, 1>>, d, 0, Success)
<1>1. /\ acks' = Append(acks, a) /\ received' = received
      /\ d = received[taken + 1] /\ ack_only(d)
  BY DEF AckOnly, Takes, receiverVars
<1>2. /\ build_ack_packet(0, d.messageId, Success) \in AckPacket
      /\ build_ack_packet(0, d.messageId, Success).ack_nack = AckAccepted
  <2>1. Success \in SendResult /\ Success.success
    BY ResultsTyped DEF Success, DefaultResult
  <2> QED
    BY <2>1, AckPacketTyped, DatagramTyped
<1>3. a \in Reports
  <2>1. <<taken + 1, 1>> \in Nat \X Nat
    BY OrdersTaken
  <2> QED
    BY <1>2, <2>1 DEF Report, Reports
<1>4. Describes(a)
  BY <1>1, <1>2 DEF Describes, Report, build_ack_packet
<1> HIDE DEF a
<1> QED
  BY <1>1, <1>3, <1>4, ReportedPacketInv

\* The end of an iteration reports the order that the loop is at.
LEMMA LoopPacketInv ==
  ASSUME EngineInv, PacketInv, Unrouted \/ SendReturns, Handed
  PROVE  PacketInv'
<1> DEFINE action == extract_action_id_from_payload(packets(current)[index])
           a(r) == Report(<<taken, index>>, current, action, r)
<1>1. /\ pc = "loop" /\ taken > 0 /\ taken \in Nat /\ index \in Nat \ {0}
      /\ index <= Len(packets(current)) /\ current \in Datagrams
  BY CurrentTyped, Positions
     DEF Unrouted, SendReturns, InLoop, EngineInv, BaseInv, TypeInv, PositionFacts
<1>2. PICK r \in SendResult : acks' = Append(acks, a(r)) /\ received' = received
  <2>1. CASE Unrouted
    BY <2>1, UnroutedResult DEF Unrouted, ReportResult, receiverVars
  <2>2. CASE SendReturns
    <3>1. call.result \in SendResult
      BY DEF EngineInv, BaseInv, TypeInv, TcpInv, TcpTypeOK
    <3> QED
      BY <2>2, <3>1 DEF SendReturns, ReportResult, receiverVars
  <2> QED
    BY <2>1, <2>2
<1>3. a(r) \in Reports
  <2>1. Len(packets(current)) \in Nat /\ index \in 1..Len(packets(current))
    BY <1>1, PacketCount
  <2> QED
    BY <1>1, <2>1, ReportTyped DEF Reports
<1>4. Describes(a(r))
  <2>1. ~ack_only(current)
    BY <1>1 DEF EngineInv, BaseInv, TypeInv, LoopInv
  <2>2. /\ a(r).order = <<taken, index>>
        /\ a(r).packet = build_ack_packet(action, current.messageId, r)
    BY DEF Report
  <2>3. message(<<taken, index>>) = packets(current)[index] /\ received[taken] = current
    BY DEF message, current
  <2> QED
    BY <2>1, <2>2, <2>3 DEF Describes, build_ack_packet
<1> HIDE DEF a
<1> QED
  BY <1>2, <1>3, <1>4, ReportedPacketInv

\* PacketInv is inductive over the steps of the engine and its ACK sender.
LEMMA NextPacketInv ==
  ASSUME EngineInv, PacketInv, [ReportingNext]_reportingVars
  PROVE  PacketInv'
<1>1. CASE UNCHANGED reportingVars
  <2>1. acks' = acks /\ UNCHANGED ackVars /\ received' = received
    BY <1>1 DEF reportingVars, engineVars, receiverVars
  <2> QED
    BY <2>1, SilentPacketInv
<1>2. CASE ReportingNext /\ acks' = acks
  <2>1. UNCHANGED ackVars /\ EngineNext
    BY <1>2 DEF ReportingNext, Handed
  <2>2. \A n \in 1..taken : received'[n] = received[n]
    <3>1. ASSUME NEW d \in Datagrams, Receive(d)
          PROVE  \A n \in 1..taken : received'[n] = received[n]
      BY <3>1, ReceivedStays, Positions DEF EngineInv, BaseInv, PositionFacts
    <3>2. CASE ~ \E d \in Datagrams : Receive(d)
      BY <2>1, <3>2
         DEF EngineNext, ReceiveError, StopDelivery, processPacket, HandlerTerminates,
             Network, Ignore, ConvertThrows, AckOnly, BeginCommands, Unrouted,
             StartSend, Sending, SendReturns, Finish, ReportResult, receiverVars
    <3> QED
      BY <3>1, <3>2
  <2> QED
    BY <1>2, <2>1, <2>2, SilentPacketInv
<1>3. CASE ReportingNext /\ acks' # acks
  <2>1. Handed /\ EngineNext
    BY <1>3 DEF ReportingNext
  <2>2. (\E d \in Datagrams : AckOnly(d)) \/ Unrouted \/ SendReturns
    BY <1>3, <2>1
       DEF EngineNext, Receive, ReceiveError, StopDelivery, processPacket,
           HandlerTerminates, Network, Ignore, ConvertThrows, BeginCommands,
           StartSend, Sending, Finish
  <2> QED
    BY <2>1, <2>2, AckOnlyPacketInv, LoopPacketInv
<1> QED
  BY <1>1, <1>2, <1>3

\* The invariants amount to the property.
LEMMA PacketsFollow ==
  ASSUME OneReportPerOrder, AcksAreTruthful, PacketInv
  PROVE  PacketsAreEvidence
<1> SUFFICES ASSUME NEW p \in ack_network
             PROVE  \E order \in candidates(p) :
                      IF p.ack_nack = AckAccepted
                        THEN order \in delivered \/ ack_only(received[order[1]])
                        ELSE order \notin delivered
  BY DEF PacketsAreEvidence
<1>1. PICK i \in DOMAIN acks : p = acks[i].packet
  BY DEF PacketInv, LeftInv
<1> DEFINE o == acks[i].order
<1>2. Describes(acks[i])
  BY DEF PacketInv, DescribedInv
<1>3. o \in UNION { {n} \X (1..due(n)) : n \in 1..taken }
  BY DEF OneReportPerOrder, reported
<1>4. o \in candidates(p)
  BY <1>1, <1>2, <1>3 DEF candidates, Describes
<1>5. ~ack_only(received[o[1]]) => (p.ack_nack = AckAccepted <=> o \in delivered)
  BY <1>1 DEF AcksAreTruthful
<1>6. ack_only(received[o[1]]) => p.ack_nack = AckAccepted
  BY <1>1, <1>2 DEF Describes
<1> QED
  BY <1>4, <1>5, <1>6

\* What the combat system receives is true of one of its orders, whatever was
\* lost, repeated or overtaken on the way.
THEOREM PacketsTellTheTruth == ReportingSpec => []PacketsAreEvidence
<1>1. ReportingInit => EngineInit /\ PacketInv
  <2> SUFFICES ASSUME ReportingInit PROVE EngineInit /\ PacketInv
    OBVIOUS
  <2>1. EngineInit /\ DOMAIN acks = {} /\ ack_network = {}
    BY DEF ReportingInit, EngineInit, AckSenderInit
  <2> QED
    BY <2>1 DEF PacketInv, DescribedInv, LeftInv
<1>2. [ReportingNext]_reportingVars => [EngineNext]_engineVars
  BY DEF ReportingNext, reportingVars
<1>3. EngineInit => EngineInv
  BY InitTypeInv, InitReportInv, InitDeliveryInv, InitCommitInv DEF EngineInv, BaseInv
<1>4. EngineInv /\ [EngineNext]_engineVars => EngineInv'
  BY NextTypeInv, NextReportInv, NextDeliveryInv, NextCommitInv DEF EngineInv, BaseInv
<1>5. EngineInv /\ PacketInv /\ [ReportingNext]_reportingVars => PacketInv'
  BY NextPacketInv
<1>6. ReportingSpec => EngineSpec /\ [](EngineInv /\ PacketInv)
  BY <1>1, <1>2, <1>3, <1>4, <1>5, PTL DEF ReportingSpec, EngineSpec
<1>7. EngineInv /\ PacketInv /\ OneReportPerOrder => PacketsAreEvidence
  BY PacketsFollow DEF EngineInv, DeliveryInv
<1> QED
  BY <1>6, <1>7, OneReportForEachOrder, PTL

-----------------------------------------------------------------------------
(* The engine as the handlers of the delivery context.                     *)

\* Datagrams are accepted only while the delivery thread serves.
ServiceInv == receiving => delivery = "running"

ContextInv == TypeInv /\ ServiceInv

LEMMA ContextCounts ==
  ASSUME TypeInv
  PROVE  /\ taken \in Nat /\ Len(received) \in Nat /\ taken <= Len(received)
         /\ delivery \in {"running", "stopped", "terminated"}
         /\ receiving \in BOOLEAN
         /\ pc \in {"idle", "loop"}
BY DEF TypeInv, EngineTypeOK

\* What keeps the queue and the loop is no step of the context.
LEMMA ContextStutters ==
  ASSUME UNCHANGED <<receiverVars, delivery, taken, pc>>
  PROVE  UNCHANGED Context!contextVars
BY DEF Context!contextVars, receiverVars

\* main's thread: a datagram is posted, the loop ends, the context is stopped.
LEMMA ReceiverKeepsContext ==
  ASSUME ContextInv, (\E d \in Datagrams : Receive(d)) \/ ReceiveError \/ StopDelivery
  PROVE  ServiceInv' /\ Context!ContextNext
<1> USE ContextCounts DEF ContextInv, ServiceInv, loopVars
<1>1. ASSUME NEW d \in Datagrams, Receive(d)
      PROVE  ServiceInv' /\ Context!PostHandler
  <2>1. Len(received') = Len(received) + 1
    BY <1>1, ReceivedStays DEF TypeInv, EngineTypeOK
  <2> QED
    BY <1>1, <2>1 DEF Receive, Context!PostHandler
<1>2. CASE ReceiveError
  BY <1>2 DEF ReceiveError, Context!CeasePosting, Context!ContextNext
<1>3. CASE StopDelivery
  BY <1>3 DEF StopDelivery, receiverVars, Context!StopContext, Context!ContextNext
<1> QED
  BY <1>1, <1>2, <1>3 DEF Context!ContextNext

\* The delivery thread takes a datagram.
LEMMA TakingKeepsContext ==
  ASSUME ContextInv, NEW d \in Datagrams,
         Ignore(d) \/ ConvertThrows(d) \/ AckOnly(d) \/ BeginCommands(d)
  PROVE  ServiceInv' /\ Context!ContextNext
<1> USE ContextCounts DEF ContextInv, ServiceInv, loopVars, receiverVars
<1>1. Takes(d)
  BY DEF Ignore, ConvertThrows, AckOnly, BeginCommands
<1>2. Context!Ready
  BY <1>1 DEF Takes, Context!Ready
<1>3. CASE Ignore(d) \/ AckOnly(d)
  <2>1. taken' = taken + 1 /\ UNCHANGED <<receiving, received, delivery, pc>>
    BY <1>3 DEF Ignore, AckOnly, Takes
  <2> QED
    BY <1>1, <1>2, <2>1 DEF Takes, Context!BriefHandler, Context!ContextNext
<1>4. CASE ConvertThrows(d)
  BY <1>1, <1>2, <1>4 DEF ConvertThrows, Context!DieInHandler, Context!ContextNext
<1>5. CASE BeginCommands(d)
  BY <1>1, <1>2, <1>5 DEF BeginCommands, Takes, Context!BeginHandler, Context!ContextNext
<1> QED
  BY <1>3, <1>4, <1>5

\* Every step of the engine is one of the context, or none.
LEMMA NextKeepsContext ==
  ASSUME ContextInv, [EngineNext]_engineVars
  PROVE  ServiceInv' /\ [Context!ContextNext]_(Context!contextVars)
<1>1. CASE (\E d \in Datagrams : Receive(d)) \/ ReceiveError \/ StopDelivery
  BY <1>1, ReceiverKeepsContext
<1>2. ASSUME NEW d \in Datagrams,
             Ignore(d) \/ ConvertThrows(d) \/ AckOnly(d) \/ BeginCommands(d)
      PROVE  ServiceInv' /\ Context!ContextNext
  BY <1>2, TakingKeepsContext
<1>3. CASE Unrouted \/ StartSend \/ Sending \/ SendReturns \/ Network \/ UNCHANGED engineVars
  <2>1. UNCHANGED <<receiverVars, delivery, taken, pc>>
    BY <1>3 DEF Unrouted, StartSend, Sending, SendReturns, ReportResult, Network,
      loopVars, engineVars
  <2> QED
    BY <2>1, ContextStutters DEF ContextInv, ServiceInv, receiverVars
<1>4. CASE Finish /\ delivery # "terminated"
  BY <1>4 DEF Finish, ContextInv, ServiceInv, receiverVars, Context!EndHandler,
    Context!ContextNext
<1>5. CASE HandlerTerminates
  BY <1>5 DEF HandlerTerminates, ContextInv, ServiceInv, receiverVars, loopVars,
    Context!DieInHandler, Context!ContextNext
<1> QED
  BY <1>1, <1>2, <1>3, <1>4, <1>5 DEF EngineNext, processPacket

\* The engine keeps the contract of the delivery context: what main assumes of
\* its delivery thread holds of the thread that the engine describes.
THEOREM EngineRunsInContext == EngineSpec => EngineKeepsContext
<1>1. EngineInit => ContextInv /\ Context!ContextInit
  <2> SUFFICES ASSUME EngineInit PROVE ContextInv /\ Context!ContextInit
    OBVIOUS
  <2>1. receiving = TRUE /\ delivery = "running" /\ received = <<>> /\ taken = 0
        /\ pc = "idle"
    BY DEF EngineInit
  <2>2. Len(received) - taken = 0
    BY <2>1
  <2> QED
    BY <2>1, <2>2, InitTypeInv DEF ContextInv, ServiceInv, Context!ContextInit
<1>2. ContextInv /\ [EngineNext]_engineVars =>
        ContextInv' /\ [Context!ContextNext]_(Context!contextVars)
  BY NextTypeInv, NextKeepsContext DEF ContextInv
<1> QED
  BY <1>1, <1>2, PTL DEF EngineSpec, EngineKeepsContext, Context!ContextSpec

=============================================================================
