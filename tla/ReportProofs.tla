----------------------------- MODULE ReportProofs -----------------------------
(***************************************************************************)
(* Every order is reported once, in order, with what happened to it, and   *)
(* every command is written to the LRAD its order names: for any           *)
(* configuration, any datagrams and any number of network faults.          *)
(***************************************************************************)
EXTENDS ProxyEngineProofs

\* OneReportPerOrder, one order at a time.
ReportedInv ==
  \A n, i \in Nat :
    <<n, i>> \in reported <=> n \in 1..taken /\ i \in 1..due(n)

OrderedAcks ==
  \A i, j \in DOMAIN acks : i < j => precedes(acks[i].order, acks[j].order)

ReportInv == ReportedInv /\ OrderedAcks

\* The reports that a datagram is due, once the handler has reached it.
DueFacts(n) ==
  /\ due(n) \in Nat
  /\ pc = "loop" /\ n = taken => due(n) = index - 1
  /\ ~(pc = "loop" /\ n = taken) /\ dump_throws(received[n]) => due(n) = 0
  /\ ~(pc = "loop" /\ n = taken) /\ ~dump_throws(received[n]) =>
       due(n) = Len(packets(received[n]))

\* What a datagram is due depends only on where the loop is.
LEMMA DueOf == TypeInv => \A n \in 1..taken : DueFacts(n)
<1> SUFFICES ASSUME TypeInv, NEW n \in 1..taken PROVE DueFacts(n)
  OBVIOUS
<1>1. received[n] \in Datagrams /\ index \in Nat \ {0} /\ taken \in Nat
  BY DEF TypeInv, EngineTypeOK
<1>2. Len(packets(received[n])) \in Nat
  BY <1>1, PacketCount
<1>3. n > finished <=> pc = "loop" /\ n = taken
  BY <1>1 DEF finished, TypeInv, EngineTypeOK
<1>4. CASE n > finished
  BY <1>1, <1>3, <1>4 DEF due, DueFacts
<1>5. CASE ~(n > finished) /\ dump_throws(received[n])
  BY <1>3, <1>5 DEF due, DueFacts
<1>6. CASE ~(n > finished) /\ ~dump_throws(received[n])
  BY <1>2, <1>3, <1>6 DEF due, DueFacts
<1> QED
  BY <1>4, <1>5, <1>6

\* The same in the state after a step.
LEMMA DueNext == TypeInv' => \A n \in 1..taken' : DueFacts(n)'
<1> DEFINE P == \A n \in 1..taken : DueFacts(n)
<1>1. TypeInv => P
  BY DueOf
<1> HIDE DEF P
<1>2. TypeInv' => P'
  BY <1>1, PTL
<1> QED
  BY <1>2 DEF P

\* The facts of the type invariant that these proofs use.
PositionFacts ==
  /\ received \in Seq(Datagrams)
  /\ taken \in Nat
  /\ taken <= Len(received)
  /\ index \in Nat \ {0}
  /\ pc \in {"idle", "loop"}
  /\ pc = "loop" => taken > 0 /\ index <= Len(packets(current)) + 1

\* They follow from the type invariant.
LEMMA Positions == TypeInv => PositionFacts
BY DEF TypeInv, EngineTypeOK, PositionFacts

\* A datagram keeps what it is due while its bytes stay and the handler is no
\* further with it.
LEMMA DueStays ==
  ASSUME TypeInv, TypeInv', NEW n \in 1..taken, n \in 1..taken',
         received'[n] = received[n],
         (pc' = "loop" /\ n = taken') <=> (pc = "loop" /\ n = taken),
         pc' = "loop" /\ n = taken' => index' = index
  PROVE  due(n)' = due(n)
<1>1. DueFacts(n) /\ DueFacts(n)'
  BY DueOf, DueNext
<1> QED
  BY <1>1 DEF DueFacts

Reports == [order : Nat \X Nat, packet : AckPacket]

\* A report that is later than all the others keeps them in order.
LEMMA AckAppended ==
  ASSUME acks \in Seq(Reports), NEW a \in Reports, acks' = Append(acks, a)
  PROVE  /\ reported' = reported \cup {a.order}
         /\ OrderedAcks /\ (\A o \in reported : precedes(o, a.order)) => OrderedAcks'
<1>1. /\ DOMAIN acks = 1..Len(acks) /\ Len(acks) \in Nat
      /\ DOMAIN acks' = 1..(Len(acks) + 1)
      /\ \A i \in 1..Len(acks) : acks'[i] = acks[i]
      /\ acks'[Len(acks) + 1] = a
  BY AppendProperties
<1>2. reported' = reported \cup {a.order}
  BY <1>1 DEF reported
<1>3. ASSUME OrderedAcks, \A o \in reported : precedes(o, a.order),
             NEW i \in DOMAIN acks', NEW j \in DOMAIN acks', i < j
      PROVE  precedes(acks'[i].order, acks'[j].order)
  <2>1. i \in 1..Len(acks)
    BY <1>1, <1>3
  <2>2. CASE j \in 1..Len(acks)
    BY <1>1, <1>3, <2>1, <2>2 DEF OrderedAcks
  <2>3. CASE j = Len(acks) + 1
    <3>1. acks[i].order \in reported
      BY <1>1, <2>1 DEF reported
    <3> QED
      BY <1>1, <1>3, <2>1, <2>3, <3>1
  <2> QED
    BY <1>1, <2>2, <2>3
<1> QED
  BY <1>2, <1>3 DEF OrderedAcks

\* An order that was reported is one that was due.
LEMMA ReportedOrders ==
  ASSUME TypeInv, ReportedInv
  PROVE  \A o \in reported :
           /\ o \in Nat \X Nat /\ o = <<o[1], o[2]>>
           /\ o[1] \in 1..taken
           /\ o[2] \in 1..due(o[1])
<1>1. acks \in Seq(Reports)
  BY DEF TypeInv, EngineTypeOK, Reports
<1>2. ASSUME NEW i \in 1..Len(acks) PROVE acks[i].order \in Nat \X Nat
  <2>1. acks[i] \in Reports
    BY <1>1, ElementOfSeq
  <2> QED
    BY <2>1 DEF Reports
<1>3. reported \subseteq Nat \X Nat
  BY <1>1, <1>2 DEF reported
<1> QED
  BY <1>3 DEF ReportedInv

\* Steps that neither report nor move the handler.
LEMMA QuietReportInv ==
  ASSUME TypeInv, TypeInv', ReportInv,
         UNCHANGED <<taken, pc, index, acks>>,
         \A n \in 1..taken : received'[n] = received[n]
  PROVE  ReportInv'
<1>1. \A n \in 1..taken : due(n)' = due(n)
  BY DueStays
<1>2. reported' = reported /\ OrderedAcks'
  BY DEF reported, OrderedAcks, ReportInv
<1> QED
  BY <1>1, <1>2 DEF ReportInv, ReportedInv

\* The orders of the datagrams taken before the step keep their reports, when
\* the handler is idle and takes the next one.
LEMMA TakeDue ==
  ASSUME TypeInv, TypeInv', pc = "idle", taken' = taken + 1, received' = received
  PROVE  \A n \in 1..taken : due(n)' = due(n)
<1> SUFFICES ASSUME NEW n \in 1..taken PROVE due(n)' = due(n)
  OBVIOUS
<1>1. taken \in Nat /\ n \in 1..taken' /\ n # taken'
  BY Positions DEF PositionFacts
<1> QED
  BY <1>1, DueStays

\* A datagram that is not acknowledged yet, or never will be.
LEMMA SilentTakeReportInv ==
  ASSUME TypeInv, TypeInv', ReportInv, NEW d \in Datagrams,
         Ignore(d) \/ ConvertThrows(d) \/ BeginCommands(d)
  PROVE  ReportInv'
<1>0. PICK m \in Nat : m = taken + 1
  BY Positions DEF PositionFacts
<1>1. /\ pc = "idle" /\ taken' = m /\ d = received'[m]
      /\ UNCHANGED <<received, acks>>
  BY <1>0 DEF Ignore, ConvertThrows, BeginCommands, Takes, receiverVars
<1>2. taken \in Nat /\ m \in 1..taken' /\ 1..taken' = (1..taken) \cup {m}
  BY <1>0, <1>1, Positions DEF PositionFacts
<1>3. due(m)' = 0
  <2>1. DueFacts(m)'
    BY <1>2, DueNext
  <2>2. CASE Ignore(d)
    <3>1. pc' = "idle" /\ packets(received'[m]) = <<>>
      BY <1>1, <2>2 DEF Ignore, loopVars
    <3> QED
      BY <2>1, <3>1 DEF DueFacts
  <2>3. CASE ConvertThrows(d)
    <3>1. pc' = "idle" /\ dump_throws(received'[m])
      BY <1>1, <2>3 DEF ConvertThrows, loopVars
    <3> QED
      BY <2>1, <3>1 DEF DueFacts
  <2>4. CASE BeginCommands(d)
    <3>1. pc' = "loop" /\ index' = 1
      BY <2>4 DEF BeginCommands
    <3> QED
      BY <1>1, <2>1, <3>1 DEF DueFacts
  <2> QED
    BY <2>2, <2>3, <2>4
<1>4. \A n \in 1..taken : due(n)' = due(n)
  BY <1>0, <1>1, TakeDue
<1>5. reported' = reported /\ OrderedAcks'
  BY <1>1 DEF reported, OrderedAcks, ReportInv
<1> QED
  BY <1>2, <1>3, <1>4, <1>5 DEF ReportInv, ReportedInv

\* A cancellation is acknowledged at once.
LEMMA AckOnlyReportInv ==
  ASSUME TypeInv, TypeInv', ReportInv, NEW d \in Datagrams, AckOnly(d)
  PROVE  ReportInv'
<1> DEFINE a == Report(<<taken + 1, 1>>, d, 0, Success)
<1>0. PICK m \in Nat : m = taken + 1
  BY Positions DEF PositionFacts
<1>1. /\ pc = "idle" /\ pc' = "idle" /\ taken' = m /\ d = received'[m]
      /\ received' = received /\ acks' = Append(acks, a)
  BY <1>0 DEF AckOnly, Takes, receiverVars, loopVars
<1>2. taken \in Nat /\ m \in 1..taken' /\ 1..taken' = (1..taken) \cup {m}
  BY <1>0, <1>1, Positions DEF PositionFacts
<1>3. due(m)' = 1
  <2>1. DueFacts(m)'
    BY <1>2, DueNext
  <2>2. Len(packets(received'[m])) = 1 /\ ~dump_throws(received'[m])
    BY <1>1, AckOnlyHasOneOrder DEF AckOnly
  <2> QED
    BY <1>1, <2>1, <2>2 DEF DueFacts
<1>4. \A n \in 1..taken : due(n)' = due(n)
  BY <1>0, <1>1, TakeDue
<1>5. a \in Reports /\ a.order = <<m, 1>>
  <2>1. build_ack_packet(0, d.messageId, Success) \in AckPacket
    BY AckPacketTyped, ResultsTyped, DatagramTyped
  <2>2. <<taken + 1, 1>> \in Nat \X Nat
    BY <1>2
  <2> QED
    BY <1>0, <2>1, <2>2 DEF Report, Reports
<1>6. \A o \in reported : precedes(o, a.order)
  <2>2. \A o \in reported : o[1] \in 1..taken
    BY ReportedOrders DEF ReportInv
  <2> QED
    BY <1>0, <1>2, <1>5, <2>2 DEF precedes
<1>7. reported' = reported \cup {<<m, 1>>} /\ OrderedAcks'
  <2>1. acks \in Seq(Reports)
    BY DEF TypeInv, EngineTypeOK, Reports
  <2> HIDE DEF a
  <2> QED
    BY <1>1, <1>5, <1>6, <2>1, AckAppended DEF ReportInv
<1> QED
  BY <1>2, <1>3, <1>4, <1>7 DEF ReportInv, ReportedInv

\* The end of an iteration reports the order the loop is at.
LEMMA LoopReportInv ==
  ASSUME TypeInv, TypeInv', ReportInv, Unrouted \/ SendReturns
  PROVE  ReportInv'
<1>1. PICK r \in SendResult : ReportResult(r)
  <2>1. CASE Unrouted
    BY <2>1, UnroutedResult DEF Unrouted
  <2>2. CASE SendReturns
    BY <2>2 DEF SendReturns, TypeInv, TcpInv, TcpTypeOK
  <2> QED
    BY <2>1, <2>2
<1> DEFINE a == Report(<<taken, index>>, current,
                  extract_action_id_from_payload(packets(current)[index]), r)
<1>2. /\ pc = "loop" /\ pc' = "loop" /\ taken' = taken /\ received' = received
      /\ index <= Len(packets(current)) /\ index' = index + 1
      /\ acks' = Append(acks, a)
  BY <1>1 DEF ReportResult, Unrouted, SendReturns, InLoop, receiverVars
<1>3. PICK n \in Nat : n = taken /\ n \in 1..taken /\ n \in 1..taken'
  BY <1>2, Positions DEF PositionFacts
<1>4. index \in Nat \ {0} /\ current \in Datagrams
  BY <1>2, <1>3, Positions, CurrentTyped DEF PositionFacts, TypeInv
<1>5. due(n) = index - 1 /\ due(n)' = index
  <2>1. DueFacts(n) /\ DueFacts(n)'
    BY <1>3, DueOf, DueNext
  <2> QED
    BY <1>2, <1>3, <1>4, <2>1 DEF DueFacts
<1>6. ASSUME NEW k \in 1..taken, k # n PROVE due(k)' = due(k)
  BY <1>2, <1>3, <1>6, DueStays
<1>7. a \in Reports /\ a.order = <<n, index>>
  <2>1. a \in Reports
    <3>1. Len(packets(current)) \in Nat
      BY <1>4, PacketCount
    <3> QED
      BY <1>2, <1>3, <1>4, <3>1, ReportTyped DEF Reports
  <2> QED
    BY <1>3, <2>1 DEF Report
<1>8. \A o \in reported : precedes(o, a.order)
  <2>1. \A o \in reported : o \in Nat \X Nat /\ o[1] \in 1..taken /\ o[2] \in 1..due(o[1])
    BY ReportedOrders DEF ReportInv
  <2> QED
    BY <1>3, <1>4, <1>5, <1>7, <2>1 DEF precedes
<1>9. reported' = reported \cup {<<n, index>>} /\ OrderedAcks'
  <2>1. acks \in Seq(Reports)
    BY DEF TypeInv, EngineTypeOK, Reports
  <2> HIDE DEF a
  <2> QED
    BY <1>2, <1>7, <1>8, <2>1, AckAppended DEF ReportInv
<1>10. ReportedInv'
  <2> SUFFICES ASSUME NEW k \in Nat, NEW i \in Nat
               PROVE  <<k, i>> \in reported' <=> k \in 1..taken' /\ i \in 1..due(k)'
    BY DEF ReportedInv
  <2>1. <<k, i>> \in reported <=> k \in 1..taken /\ i \in 1..due(k)
    BY DEF ReportInv, ReportedInv
  <2>2. CASE k = n
    BY <1>2, <1>3, <1>4, <1>5, <1>9, <2>1, <2>2
  <2>3. CASE k # n
    BY <1>2, <1>6, <1>9, <2>1, <2>3
  <2> QED
    BY <2>2, <2>3
<1> QED
  BY <1>9, <1>10 DEF ReportInv

\* When the loop ends, every command was reported.
LEMMA FinishReportInv ==
  ASSUME TypeInv, TypeInv', ReportInv, Finish
  PROVE  ReportInv'
<1>1. /\ pc = "loop" /\ pc' = "idle" /\ index > Len(packets(current))
      /\ UNCHANGED <<taken, received, index, acks>>
  BY DEF Finish, receiverVars
<1>2. PICK n \in Nat : n = taken /\ n \in 1..taken
  BY <1>1, Positions DEF PositionFacts
<1>3. Len(packets(current)) \in Nat /\ current = received[n]
  BY <1>2, CurrentTyped, PacketCount DEF TypeInv, current
<1>4. due(n)' = due(n)
  <2>1. DueFacts(n) /\ DueFacts(n)'
    BY <1>1, <1>2, DueOf, DueNext
  <2>2. ~dump_throws(received[n])
    BY <1>1, <1>3 DEF TypeInv, LoopInv
  <2>3. index = Len(packets(current)) + 1
    BY <1>1, <1>3, Positions DEF PositionFacts
  <2> QED
    BY <1>1, <1>2, <1>3, <2>1, <2>2, <2>3 DEF DueFacts
<1>5. ASSUME NEW k \in 1..taken, k # n PROVE due(k)' = due(k)
  BY <1>1, <1>2, <1>5, DueStays
<1>6. reported' = reported /\ OrderedAcks'
  BY <1>1 DEF reported, OrderedAcks, ReportInv
<1> QED
  BY <1>1, <1>4, <1>5, <1>6 DEF ReportInv, ReportedInv

\* ReportInv is inductive over every step of the two threads and the network.
LEMMA NextReportInv ==
  ASSUME TypeInv, TypeInv', ReportInv, [EngineNext]_engineVars
  PROVE  ReportInv'
<1>1. ASSUME NEW d \in Datagrams, Receive(d) PROVE ReportInv'
  <2>1. \A n \in 1..taken : received'[n] = received[n]
    BY <1>1, ReceivedStays, Positions DEF PositionFacts
  <2> QED
    BY <1>1, <2>1, QuietReportInv DEF Receive, loopVars
<1>2. CASE ReceiveError \/ StopDelivery \/ HandlerTerminates \/ Network \/ StartSend \/ Sending \/
           UNCHANGED engineVars
  <2>1. UNCHANGED <<taken, pc, index, acks, received>>
    BY <1>2
      DEF ReceiveError, StopDelivery, HandlerTerminates, Network, StartSend, Sending, engineVars,
          loopVars, receiverVars
  <2> QED
    BY <2>1, QuietReportInv
<1> QED
  BY <1>1, <1>2, SilentTakeReportInv, AckOnlyReportInv, LoopReportInv,
    FinishReportInv DEF EngineNext, processPacket

\* Nothing is reported before the first datagram.
LEMMA InitReportInv == EngineInit => ReportInv
<1> SUFFICES ASSUME EngineInit PROVE ReportInv
  OBVIOUS
<1>1. acks = <<>> /\ taken = 0
  BY DEF EngineInit
<1>2. reported = {} /\ DOMAIN acks = {}
  BY <1>1 DEF reported
<1> QED
  BY <1>1, <1>2 DEF ReportInv, ReportedInv, OrderedAcks

\* Every order is reported exactly once and in the order of arrival.
THEOREM OneReportForEachOrder == EngineSpec => []OneReportPerOrder
<1>1. EngineInit => TypeInv /\ ReportInv
  BY InitTypeInv, InitReportInv
<1>2. TypeInv /\ ReportInv /\ [EngineNext]_engineVars => (TypeInv /\ ReportInv)'
  BY NextTypeInv, NextReportInv
<1>3. TypeInv /\ ReportInv => OneReportPerOrder
  <2> SUFFICES ASSUME TypeInv, ReportInv PROVE OneReportPerOrder
    OBVIOUS
  <2> DEFINE Due == UNION { {n} \X (1..due(n)) : n \in 1..taken }
  <2>1. ASSUME NEW o \in reported PROVE o \in Due
    BY ReportedOrders DEF ReportInv
  <2>2. ASSUME NEW n \in 1..taken, NEW i \in 1..due(n) PROVE <<n, i>> \in reported
    <3>1. n \in Nat /\ i \in Nat
      <4>1. DueFacts(n)
        BY DueOf
      <4> QED
        BY <4>1, Positions DEF DueFacts, PositionFacts
    <3> QED
      BY <3>1 DEF ReportInv, ReportedInv
  <2>3. reported = Due
    BY <2>1, <2>2
  <2> QED
    BY <2>3 DEF OneReportPerOrder, ReportInv, OrderedAcks
<1> QED
  BY <1>1, <1>2, <1>3, PTL DEF EngineSpec

=============================================================================
