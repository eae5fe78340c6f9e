----------------------------- MODULE CommitProofs -----------------------------
(***************************************************************************)
(* The system state is what the reports say it is: for any configuration,  *)
(* any datagrams and any number of network faults.                         *)
(***************************************************************************)
EXTENDS DeliveryProofs

\* All that was reported of datagram n so far was an ACK.
AllAcked(n) ==
  \A i \in DOMAIN acks :
    acks[i].order[1] = n => acks[i].packet.ack_nack = AckAccepted

names(n, l) == updates_for(state_updates(received[n]), l) # {}

naming(l) == {n \in committed : names(n, l)}

last(S) == CHOOSE n \in S : \A m \in S : m <= n

\* The state of l that the reports amount to; CommitsMatchAcks, one LRAD at a
\* time.
expected(l) ==
  IF naming(l) = {} THEN "absent"
  ELSE last_update(state_updates(received[last(naming(l))]), l)

StateMatches == \A l \in Lrads : systemState.lradStates[l] = expected(l)

\* The flag of the loop tells whether the reports so far were ACKs.
FlagInv == pc = "loop" => (allSendsSucceeded <=> AllAcked(taken))

CommitInv == StateMatches /\ FlagInv

\* The two forms of the property agree.
LEMMA StateMatchesDef == StateMatches <=> CommitsMatchAcks
BY DEF StateMatches, CommitsMatchAcks, expected, naming, names, last

\* Where the loop is, and how many datagrams are finished.
LEMMA FinishedTyped ==
  ASSUME TypeInv
  PROVE  /\ taken \in Nat /\ finished \in Nat /\ finished <= taken
         /\ pc = "idle" => finished = taken
         /\ pc = "loop" => finished = taken - 1 /\ taken > 0
BY Positions DEF PositionFacts, finished

\* The last of a set of positions is in it and after all of them.
LEMMA LastOf ==
  ASSUME NEW n \in Nat, NEW S \in SUBSET (1..n), S # {}
  PROVE  /\ last(S) \in S
         /\ \A m \in S : (\A k \in S : k <= m) => last(S) = m
<1>1. \E m \in S : \A k \in S : k <= m
  BY LastPosition
<1>2. last(S) \in S /\ \A k \in S : k <= last(S)
  BY <1>1 DEF last
<1>3. ASSUME NEW m \in S, \A k \in S : k <= m PROVE last(S) = m
  <2> DEFINE x == last(S)
  <2>1. x \in S /\ m \in S /\ x <= m /\ m <= x
    BY <1>2, <1>3
  <2> HIDE DEF x
  <2>2. x \in 1..n /\ m \in 1..n
    BY <2>1
  <2>3. x = m
    BY <2>1, <2>2
  <2> QED
    BY <2>3 DEF x
<1> QED
  BY <1>2, <1>3

\* What is expected of an LRAD stays while the datagrams that name it do.
LEMMA ExpectedStays ==
  ASSUME TypeInv, NEW l \in Lrads, naming(l)' = naming(l),
         \A n \in 1..taken : received'[n] = received[n]
  PROVE  expected(l)' = expected(l)
<1>1. naming(l) \in SUBSET (1..taken) /\ taken \in Nat
  BY FinishedTyped DEF naming, committed
<1>2. CASE naming(l) = {}
  BY <1>2 DEF expected
<1>3. CASE naming(l) # {}
  <2>1. last(naming(l)) \in 1..taken
    BY <1>1, <1>3, LastOf
  <2>2. last(naming(l))' = last(naming(l))
    BY DEF last
  <2>3. received'[last(naming(l))] = received[last(naming(l))]
    BY <2>1
  <2> QED
    BY <1>3, <2>2, <2>3 DEF expected
<1> QED
  BY <1>2, <1>3

\* Nothing of the state changes while no datagram that names an LRAD is
\* committed.
LEMMA StateStays ==
  ASSUME TypeInv, StateMatches, systemState' = systemState,
         \A n \in 1..taken : received'[n] = received[n],
         \A l \in Lrads : naming(l)' = naming(l)
  PROVE  StateMatches'
BY ExpectedStays DEF StateMatches

\* Steps that neither report nor move the handler.
LEMMA QuietCommitInv ==
  ASSUME TypeInv, CommitInv,
         UNCHANGED <<taken, pc, acks, allSendsSucceeded, systemState>>,
         \A n \in 1..taken : received'[n] = received[n]
  PROVE  CommitInv'
<1>1. finished' = finished /\ finished <= taken /\ finished \in Nat /\ taken \in Nat
  BY FinishedTyped DEF finished
<1>2. committed' = committed /\ committed \subseteq 1..taken
  BY <1>1 DEF committed
<1>3. \A l \in Lrads : naming(l)' = naming(l)
  BY <1>2 DEF naming, names
<1>4. StateMatches'
  BY <1>3, StateStays DEF CommitInv
<1> QED
  BY <1>4 DEF CommitInv, FlagInv, AllAcked

\* A datagram without updates commits nothing, whatever becomes of it.
LEMMA NoUpdatesNoNames ==
  ASSUME NEW d \in Datagrams, packets(d) = <<>> \/ dump_throws(d) \/ ack_only(d)
  PROVE  \A l \in Lrads : updates_for(state_updates(d), l) = {}
<1>1. state_updates(d) = <<>>
  BY UpdatesTyped
<1> QED
  BY <1>1 DEF updates_for

\* An idle handler takes a datagram that carries no update and ends with it.
LEMMA PassedOver ==
  ASSUME TypeInv, StateMatches, NEW d \in Datagrams, pc = "idle", pc' = "idle",
         taken' = taken + 1, received' = received, d = received[taken + 1],
         systemState' = systemState,
         packets(d) = <<>> \/ dump_throws(d) \/ ack_only(d),
         \A n \in 1..taken : AllAcked(n)' <=> AllAcked(n)
  PROVE  CommitInv'
<1>1. finished = taken /\ finished' = taken + 1 /\ taken \in Nat
  BY FinishedTyped DEF finished
<1>2. PICK k \in Nat : k = taken + 1
  BY <1>1
<1>3. ASSUME NEW l \in Lrads PROVE naming(l)' = naming(l)
  <2>1. ~names(k, l)'
    BY <1>2, NoUpdatesNoNames DEF names
  <2>2. \A n : names(n, l)' <=> names(n, l)
    BY DEF names
  <2>3. committed' = {n \in 1..k : AllAcked(n)'} /\ committed = {n \in 1..taken : AllAcked(n)}
    BY <1>1, <1>2 DEF committed, AllAcked
  <2>4. 1..k = (1..taken) \cup {k}
    BY <1>1, <1>2
  <2>5. \A n \in committed : n \in committed'
    BY <2>3, <2>4
  <2>6. \A n \in committed' : n \in committed \/ n = k
    BY <2>3, <2>4
  <2> QED
    BY <2>1, <2>2, <2>5, <2>6 DEF naming
<1>4. StateMatches'
  BY <1>3, StateStays
<1> QED
  BY <1>4 DEF CommitInv, FlagInv

\* The reports of the datagrams taken before stay what they were when one more
\* is appended.
LEMMA AckedStays ==
  ASSUME acks \in Seq(Reports), NEW a \in Reports, acks' = Append(acks, a)
  PROVE  /\ \A n : n # a.order[1] => (AllAcked(n)' <=> AllAcked(n))
         /\ AllAcked(a.order[1])' <=>
              AllAcked(a.order[1]) /\ a.packet.ack_nack = AckAccepted
<1>1. /\ DOMAIN acks = 1..Len(acks) /\ Len(acks) \in Nat
      /\ DOMAIN acks' = (1..Len(acks)) \cup {Len(acks) + 1}
      /\ \A i \in 1..Len(acks) : acks'[i] = acks[i]
      /\ acks'[Len(acks) + 1] = a
  BY AppendProperties
<1> QED
  BY <1>1 DEF AllAcked

\* A datagram is discarded, or its conversion throws.
LEMMA DiscardCommitInv ==
  ASSUME TypeInv, CommitInv, NEW d \in Datagrams, Ignore(d) \/ ConvertThrows(d)
  PROVE  CommitInv'
<1>1. /\ pc = "idle" /\ pc' = "idle" /\ taken' = taken + 1
      /\ d = received[taken + 1] /\ UNCHANGED <<received, systemState, acks>>
      /\ packets(d) = <<>> \/ dump_throws(d)
  BY DEF Ignore, ConvertThrows, Takes, receiverVars, loopVars
<1>2. \A n \in 1..taken : AllAcked(n)' <=> AllAcked(n)
  BY <1>1 DEF AllAcked
<1> QED
  BY <1>1, <1>2, PassedOver DEF CommitInv

\* A cancellation is acknowledged.
LEMMA AckOnlyCommitInv ==
  ASSUME TypeInv, CommitInv, NEW d \in Datagrams, AckOnly(d)
  PROVE  CommitInv'
<1> DEFINE a == Report(<<taken + 1, 1>>, d, 0, Success)
<1>1. /\ pc = "idle" /\ pc' = "idle" /\ taken' = taken + 1
      /\ d = received[taken + 1] /\ UNCHANGED <<received, systemState>>
      /\ acks' = Append(acks, a) /\ ack_only(d)
  BY DEF AckOnly, Takes, receiverVars, loopVars
<1>2. taken \in Nat
  BY FinishedTyped
<1>3. a \in Reports /\ a.order[1] = taken + 1
  <2>1. build_ack_packet(0, d.messageId, Success) \in AckPacket
    BY AckPacketTyped, ResultsTyped, DatagramTyped
  <2> QED
    BY <1>2, <2>1 DEF Report, Reports
<1> HIDE DEF a
<1>4. \A n \in 1..taken : AllAcked(n)' <=> AllAcked(n)
  <2>1. acks \in Seq(Reports)
    BY DEF TypeInv, EngineTypeOK, Reports
  <2>2. \A n \in 1..taken : n # a.order[1]
    BY <1>2, <1>3
  <2> QED
    BY <1>1, <1>3, <2>1, <2>2, AckedStays
<1> QED
  BY <1>1, <1>4, PassedOver DEF CommitInv

\* The loop starts with its flag set, and nothing reported of the datagram.
LEMMA BeginCommitInv ==
  ASSUME BaseInv, CommitInv, NEW d \in Datagrams, BeginCommands(d)
  PROVE  CommitInv'
<1>1. /\ pc = "idle" /\ pc' = "loop" /\ taken' = taken + 1 /\ allSendsSucceeded' = TRUE
      /\ UNCHANGED <<received, systemState, acks>>
  BY DEF BeginCommands, Takes, receiverVars
<1>2. finished' = finished /\ taken \in Nat
  BY <1>1, FinishedTyped DEF finished, BaseInv
<1>3. StateMatches'
  <2>1. committed' = committed
    BY <1>1, <1>2 DEF committed
  <2>2. \A l \in Lrads : naming(l)' = naming(l)
    BY <1>1, <2>1 DEF naming, names
  <2> QED
    BY <1>1, <2>2, StateStays DEF CommitInv, BaseInv
<1>4. AllAcked(taken)'
  <2>1. ASSUME NEW i \in DOMAIN acks PROVE acks[i].order[1] # taken + 1
    <3>1. acks[i].order \in reported
      BY DEF reported
    <3>2. acks[i].order[1] \in 1..taken
      BY <3>1, ReportedOrders DEF BaseInv, ReportInv
    <3> QED
      BY <1>2, <3>2
  <2> QED
    BY <1>1, <2>1 DEF AllAcked
<1> QED
  BY <1>1, <1>3, <1>4 DEF CommitInv, FlagInv

\* A report belongs to the datagram in the loop, and moves its flag with it.
LEMMA LoopCommitInv ==
  ASSUME TypeInv, CommitInv, Unrouted \/ SendReturns
  PROVE  CommitInv'
<1>1. PICK r \in SendResult : ReportResult(r)
  <2>1. CASE Unrouted
    BY <2>1, UnroutedResult DEF Unrouted
  <2>2. CASE SendReturns
    BY <2>2 DEF SendReturns, TypeInv, TcpInv, TcpTypeOK
  <2> QED
    BY <2>1, <2>2
<1> DEFINE action == extract_action_id_from_payload(packets(current)[index])
           a == Report(<<taken, index>>, current, action, r)
<1>2. /\ pc = "loop" /\ pc' = "loop" /\ index <= Len(packets(current))
      /\ UNCHANGED <<taken, received, systemState>>
      /\ acks' = Append(acks, a)
      /\ allSendsSucceeded' = (allSendsSucceeded /\ r.success)
  BY <1>1 DEF ReportResult, Unrouted, SendReturns, InLoop, receiverVars
<1>3. /\ taken \in Nat /\ finished = taken - 1 /\ finished' = finished
      /\ current \in Datagrams /\ index \in Nat \ {0}
  BY <1>2, FinishedTyped, CurrentTyped DEF TypeInv, EngineTypeOK, finished
<1>4. a \in Reports /\ a.order[1] = taken /\ (a.packet.ack_nack = AckAccepted <=> r.success)
  <2>1. index \in 1..Len(packets(current))
    BY <1>2, <1>3, PacketCount
  <2>2. action \in Nat
    <3>1. packets(current)[index] \in Messages
      BY <1>3, <2>1, PacketsTyped, ElementOfSeq
    <3> QED
      BY <3>1 DEF extract_action_id_from_payload, Messages
  <2>3. a \in Reports
    BY <1>3, <2>1, ReportTyped DEF Reports
  <2>4. build_ack_packet(action, current.messageId, r).ack_nack = AckAccepted <=> r.success
    BY <1>3, <2>2, AckPacketTyped, DatagramTyped
  <2> QED
    BY <2>3, <2>4 DEF Report
<1> HIDE DEF a
<1>5. /\ \A n : n # taken => (AllAcked(n)' <=> AllAcked(n))
      /\ AllAcked(taken)' <=> AllAcked(taken) /\ r.success
  <2>1. acks \in Seq(Reports)
    BY DEF TypeInv, EngineTypeOK, Reports
  <2>2. PICK n : n = taken
    OBVIOUS
  <2>3. AllAcked(n)' <=> AllAcked(n) /\ r.success
    BY <1>2, <1>4, <2>1, <2>2, AckedStays
  <2>4. AllAcked(taken)' <=> AllAcked(n)'
    BY <1>2, <2>2 DEF AllAcked
  <2> QED
    BY <1>2, <1>4, <2>1, <2>2, <2>3, <2>4, AckedStays
<1>6. StateMatches'
  <2>1. committed' = committed
    <3>1. committed' = {n \in 1..finished : AllAcked(n)'}
      BY <1>3 DEF committed, AllAcked
    <3>2. committed = {n \in 1..finished : AllAcked(n)}
      BY DEF committed, AllAcked
    <3>3. \A n \in 1..finished : n # taken
      BY <1>3
    <3> QED
      BY <1>5, <3>1, <3>2, <3>3
  <2>2. \A l \in Lrads : naming(l)' = naming(l)
    BY <1>2, <2>1 DEF naming, names
  <2> QED
    BY <1>2, <2>2, StateStays DEF CommitInv
<1> QED
  BY <1>2, <1>5, <1>6 DEF CommitInv, FlagInv

\* A batch gives each LRAD that it names its last update, and leaves the others.
LEMMA BatchApplied ==
  ASSUME NEW s \in SystemStates, NEW u, NEW l \in Lrads
  PROVE  /\ updates_for(u, l) = {} => applyBatch(s, u).lradStates[l] = s.lradStates[l]
         /\ updates_for(u, l) # {} =>
              applyBatch(s, u).lradStates[l] = last_update(u, l)
<1>1. u = <<>> => updates_for(u, l) = {}
  BY DEF updates_for
<1> QED
  BY <1>1 DEF applyBatch

\* The end of the loop: all ACKs and all updates, or a NACK and none.
LEMMA FinishCommitInv ==
  ASSUME TypeInv, CommitInv, Finish
  PROVE  CommitInv'
<1> DEFINE u == state_updates(current)
<1>1. /\ pc = "loop" /\ pc' = "idle" /\ UNCHANGED <<taken, received, acks>>
      /\ systemState' = IF allSendsSucceeded THEN applyBatch(systemState, u)
                                             ELSE systemState
  BY DEF Finish, receiverVars
<1>2. PICK k \in Nat : k = taken
  BY FinishedTyped
<1>3. finished = k - 1 /\ finished' = k /\ k > 0 /\ u = state_updates(received[k])
  BY <1>1, <1>2, FinishedTyped DEF finished, current
<1>4. /\ committed' = {n \in 1..k : AllAcked(n)}
      /\ committed = {n \in 1..(k - 1) : AllAcked(n)}
  BY <1>1, <1>3 DEF committed, AllAcked
<1>5. 1..k = (1..(k - 1)) \cup {k} /\ k \notin 1..(k - 1)
  BY <1>3
<1>6. allSendsSucceeded <=> AllAcked(k)
  BY <1>1, <1>2 DEF CommitInv, FlagInv
<1> HIDE DEF u
<1>7. CASE ~AllAcked(k)
  <2>1. committed' = committed
    BY <1>4, <1>5, <1>7
  <2>2. \A l \in Lrads : naming(l)' = naming(l)
    BY <1>1, <2>1 DEF naming, names
  <2>3. StateMatches'
    BY <1>1, <1>6, <1>7, <2>2, StateStays DEF CommitInv
  <2> QED
    BY <1>1, <2>3 DEF CommitInv, FlagInv
<1>8. CASE AllAcked(k)
  <2>1. committed' = committed \cup {k}
    BY <1>4, <1>5, <1>8
  <2>2. systemState' = applyBatch(systemState, u) /\ systemState \in SystemStates
    BY <1>1, <1>6, <1>8 DEF TypeInv, EngineTypeOK
  <2>3. ASSUME NEW l \in Lrads PROVE systemState'.lradStates[l] = expected(l)'
    <3>1. CASE updates_for(u, l) = {}
      <4>1. naming(l)' = naming(l)
        BY <1>1, <1>3, <2>1, <3>1 DEF naming, names
      <4>2. expected(l)' = expected(l)
        BY <1>1, <4>1, ExpectedStays
      <4> QED
        BY <2>2, <3>1, <4>2, BatchApplied DEF CommitInv, StateMatches
    <3>2. CASE updates_for(u, l) # {}
      <4> DEFINE S == naming(l)'
      <4>1. S = naming(l) \cup {k}
        BY <1>1, <1>3, <2>1, <3>2 DEF naming, names
      <4>2. S \in SUBSET (1..k) /\ k \in S /\ \A j \in S : j <= k
        BY <1>4, <4>1 DEF naming
      <4> HIDE DEF S
      <4>3. last(S) = k
        BY <4>2, LastOf
      <4>4. S # {}
        BY <4>2
      <4>5. expected(l)' = last_update(state_updates(received'[last(S)]), l)
        BY <4>4 DEF expected, last, S
      <4>6. expected(l)' = last_update(u, l)
        BY <1>1, <1>3, <4>3, <4>5
      <4> QED
        BY <2>2, <3>2, <4>6, BatchApplied
    <3> QED
      BY <3>1, <3>2
  <2>4. StateMatches'
    BY <2>3 DEF StateMatches
  <2> QED
    BY <1>1, <2>4 DEF CommitInv, FlagInv
<1> QED
  BY <1>7, <1>8

\* CommitInv is inductive over every step of the two threads and the network.
LEMMA NextCommitInv ==
  ASSUME BaseInv, CommitInv, [EngineNext]_engineVars
  PROVE  CommitInv'
<1>1. ASSUME NEW d \in Datagrams, Receive(d) PROVE CommitInv'
  <2>1. \A n \in 1..taken : received'[n] = received[n]
    BY <1>1, ReceivedStays, Positions DEF BaseInv, PositionFacts
  <2> QED
    BY <1>1, <2>1, QuietCommitInv DEF Receive, loopVars, BaseInv
<1>2. CASE ReceiveError \/ StopDelivery \/ HandlerTerminates \/ Network \/ StartSend \/ Sending \/
           UNCHANGED engineVars
  <2>1. UNCHANGED <<taken, pc, acks, allSendsSucceeded, systemState, received>>
    BY <1>2
      DEF ReceiveError, StopDelivery, HandlerTerminates, Network, StartSend, Sending, engineVars,
          loopVars, receiverVars
  <2> QED
    BY <2>1, QuietCommitInv DEF BaseInv
<1> QED
  BY <1>1, <1>2, DiscardCommitInv, AckOnlyCommitInv, BeginCommitInv, LoopCommitInv,
    FinishCommitInv DEF EngineNext, processPacket, BaseInv

\* At first no datagram is committed, and no LRAD is known.
LEMMA InitCommitInv == EngineInit => CommitInv
<1> SUFFICES ASSUME EngineInit PROVE CommitInv
  OBVIOUS
<1>1. committed = {}
  BY DEF EngineInit, committed, finished
<1>2. \A l \in Lrads : systemState.lradStates[l] = "absent"
  BY DEF EngineInit, InitialState
<1> QED
  BY <1>1, <1>2 DEF EngineInit, CommitInv, FlagInv, StateMatches, expected, naming

\* The system state is that of the last configuration datagram that named each
\* LRAD and had every order ACKed, for any traffic and any faults.
THEOREM StateFollowsAcks == EngineSpec => []CommitsMatchAcks
<1>1. EngineInit => BaseInv /\ CommitInv
  BY InitTypeInv, InitReportInv, InitCommitInv DEF BaseInv
<1>2. BaseInv /\ CommitInv /\ [EngineNext]_engineVars => (BaseInv /\ CommitInv)'
  BY NextTypeInv, NextReportInv, NextCommitInv DEF BaseInv
<1>3. CommitInv => CommitsMatchAcks
  BY StateMatchesDef DEF CommitInv
<1> QED
  BY <1>1, <1>2, <1>3, PTL DEF EngineSpec

=============================================================================
