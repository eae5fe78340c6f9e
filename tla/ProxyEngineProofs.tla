-------------------------- MODULE ProxyEngineProofs --------------------------
(***************************************************************************)
(* The safety properties of ProxyEngine hold for every configuration, any  *)
(* set of datagrams, any number of them and any number of network faults.  *)
(***************************************************************************)
EXTENDS ProxyEngine, TcpSenderProofs, SequenceTheorems,
  FiniteSetTheorems, WellFoundedInduction

Headers == {"MASTER", "TRCK", "MOVE or DELTA", "EMISS"}

Messages ==
  [ header : Headers, destinationLradId : Lrads,
    action_id : Nat, param_action_id : BOOLEAN ]

\* One command is a sequence of commands.
LEMMA SingletonSeq ==
  ASSUME NEW S, NEW x \in S
  PROVE  <<x>> \in Seq(S)
OBVIOUS

\* A handler's command is a command: it carries an LRAD id and an action id.
LEMMA MessageTyped ==
  ASSUME NEW h \in Headers, NEW b \in Block
  PROVE  Message(h, b, FALSE) \in Messages /\ Message(h, b, TRUE) \in Messages
<1>1. b.lrad \in Lrads /\ b.actionId \in Nat
  BY DEF Block
<1> QED
  BY <1>1 DEF Message, Messages

\* The fields of a datagram that the handlers read.
LEMMA DatagramTyped ==
  ASSUME NEW d \in Datagrams
  PROVE  /\ d.messageId \in MessageIds
         /\ d.messageLength \in Nat
         /\ d.size \in Nat
         /\ d.blocks \in Seq(Block)
         /\ d.messageId = "change_configuration_order" =>
              BlockCount(d) <= Len(d.blocks)
         /\ d.size >= 22 => d.blocks[1] \in Block
<1>1. d \in Datagram
  BY DatagramsAreBytes
<1>2. d.blocks \in Seq(Block)
  BY <1>1 DEF Datagram
<1>3. d.messageLength \in Nat /\ d.size \in Nat /\ d.messageId \in MessageIds
  BY <1>1 DEF Datagram, BufferSize
<1>4. d.size >= 22 => d.blocks # <<>>
  BY DatagramsAreBytes
<1>5. d.blocks # <<>> => d.blocks[1] \in Block
  BY <1>2
<1>6. d.messageId = "change_configuration_order" => BlockCount(d) <= Len(d.blocks)
  BY DatagramsAreBytes
<1> QED
  BY <1>2, <1>3, <1>4, <1>5, <1>6

\* convert() yields a sequence of commands, and it fills it for a datagram
\* that is dispatched whenever the state updates are filled.
LEMMA PacketsTyped ==
  ASSUME NEW d \in Datagrams
  PROVE  packets(d) \in Seq(Messages)
<1>1. CASE ~dispatched(d)
  BY <1>1 DEF packets
<1>2. CASE dispatched(d) /\ d.messageId = "change_configuration_order"
  <2>1. BlockCount(d) \in Nat /\ BlockCount(d) <= Len(d.blocks)
    BY <1>2, DatagramTyped DEF dispatched, parseHeader, BlockCount, HeaderSize,
      BlockSize
  <2>2. ASSUME NEW i \in 1..BlockCount(d)
        PROVE  Message("MASTER", d.blocks[i], FALSE) \in Messages
    <3>1. d.blocks \in Seq(Block) /\ i \in 1..Len(d.blocks)
      BY <2>1, DatagramTyped
    <3>2. d.blocks[i] \in Block
      BY <3>1
    <3> QED
      BY <3>2, MessageTyped DEF Headers
  <2>3. change_configuration_order(d) \in [1..BlockCount(d) -> Messages]
    BY <2>2 DEF change_configuration_order
  <2>4. change_configuration_order(d) \in Seq(Messages)
    BY <2>1, <2>3, SeqDef
  <2> QED
    BY <1>2, <2>4 DEF packets, handler
<1>3. CASE dispatched(d) /\ d.messageId = "cueing_order_cancellation"
  <2>1. packets(d) = cueing_order_cancellation(d)
    BY <1>3 DEF packets, handler
  <2>2. CASE d.size < HeaderSize + 6
    BY <2>1, <2>2 DEF cueing_order_cancellation
  <2>3. CASE ~(d.size < HeaderSize + 6)
    <3>1. d.blocks[1] \in Block
      BY <2>3, DatagramTyped DEF HeaderSize
    <3>2. Message("TRCK", d.blocks[1], FALSE) \in Messages
      BY <3>1, MessageTyped DEF Headers
    <3>3. packets(d) = <<Message("TRCK", d.blocks[1], FALSE)>>
      BY <2>1, <2>3 DEF cueing_order_cancellation
    <3> QED
      BY <3>2, <3>3, SingletonSeq
  <2> QED
    BY <2>2, <2>3
<1>4. CASE dispatched(d) /\ d.messageId = "cueing_order"
  <2>1. packets(d) = cueing_order(d)
    BY <1>4 DEF packets, handler
  <2>2. CASE d.size < HeaderSize + 22
    BY <2>1, <2>2 DEF cueing_order
  <2>3. CASE ~(d.size < HeaderSize + 22)
    <3>1. d.blocks[1] \in Block
      BY <2>3, DatagramTyped DEF HeaderSize
    <3>2. Message("MOVE or DELTA", d.blocks[1], FALSE) \in Messages
      BY <3>1, MessageTyped DEF Headers
    <3>3. packets(d) = <<Message("MOVE or DELTA", d.blocks[1], FALSE)>>
      BY <2>1, <2>3 DEF cueing_order
    <3> QED
      BY <3>2, <3>3, SingletonSeq
  <2> QED
    BY <2>2, <2>3
<1>5. CASE dispatched(d) /\ d.messageId = "emission_control"
  <2>1. packets(d) = emission_control(d)
    BY <1>5 DEF packets, handler
  <2>2. CASE d.size < 838
    BY <2>1, <2>2 DEF emission_control
  <2>3. CASE ~(d.size < 838)
    <3>1. d.blocks[1] \in Block
      BY <2>3, DatagramTyped DEF HeaderSize
    <3>2. Message("EMISS", d.blocks[1], TRUE) \in Messages
      BY <3>1, MessageTyped DEF Headers
    <3>3. packets(d) = <<Message("EMISS", d.blocks[1], TRUE)>>
      BY <2>1, <2>3 DEF emission_control
    <3> QED
      BY <3>2, <3>3, SingletonSeq
  <2> QED
    BY <2>2, <2>3
<1> QED
  BY <1>1, <1>2, <1>3, <1>4, <1>5 DEF dispatched, DispatchTable

\* Only a configuration order updates the state; it has one update for each
\* command, and its commands are neither ack-only nor able to throw.
LEMMA UpdatesTyped ==
  ASSUME NEW d \in Datagrams
  PROVE  /\ state_updates(d) \in Seq([lradId : Lrads, engaged : Engagement])
         /\ packets(d) = <<>> => state_updates(d) = <<>>
         /\ dump_throws(d) \/ ack_only(d) => state_updates(d) = <<>>
<1>1. CASE ~(dispatched(d) /\ d.messageId = "change_configuration_order")
  BY <1>1 DEF state_updates, dump_throws, ack_only, packets
<1>2. CASE dispatched(d) /\ d.messageId = "change_configuration_order"
  <2>1. BlockCount(d) \in Nat /\ BlockCount(d) <= Len(d.blocks)
    BY <1>2, DatagramTyped DEF dispatched, parseHeader, BlockCount, HeaderSize,
      BlockSize
  <2>2. ASSUME NEW i \in 1..BlockCount(d)
        PROVE  d.blocks[i].lrad \in Lrads
    <3>1. d.blocks \in Seq(Block) /\ i \in 1..Len(d.blocks)
      BY <2>1, DatagramTyped
    <3>2. d.blocks[i] \in Block
      BY <3>1
    <3> QED
      BY <3>2 DEF Block
  <2>3. configuration_updates(d) \in
          [1..BlockCount(d) -> [lradId : Lrads, engaged : Engagement]]
    BY <2>2 DEF configuration_updates, Engagement
  <2>7. configuration_updates(d) \in Seq([lradId : Lrads, engaged : Engagement])
    BY <2>1, <2>3, SeqDef
  <2>4. packets(d) = change_configuration_order(d)
    BY <1>2 DEF packets, handler
  <2>5. packets(d) = <<>> => BlockCount(d) = 0
    BY <2>1, <2>4 DEF change_configuration_order
  <2>6. BlockCount(d) = 0 => configuration_updates(d) = <<>>
    BY DEF configuration_updates
  <2> QED
    BY <1>2, <2>7, <2>5, <2>6 DEF state_updates, dump_throws, ack_only
<1> QED
  BY <1>1, <1>2

\* An ack-only datagram that is not ignored has one order.
LEMMA AckOnlyHasOneOrder ==
  ASSUME NEW d \in Datagrams, packets(d) # <<>>, ack_only(d)
  PROVE  Len(packets(d)) = 1 /\ ~dump_throws(d)
BY DEF packets, ack_only, handler, cueing_order_cancellation, dump_throws

\* build_ack_packet builds an ACK if and only if the send succeeded.
LEMMA AckPacketTyped ==
  ASSUME NEW action_id \in Nat, NEW id \in MessageIds, NEW r \in SendResult
  PROVE  /\ build_ack_packet(action_id, id, r) \in AckPacket
         /\ build_ack_packet(action_id, id, r).ack_nack = AckAccepted <=> r.success
<1>1. map_nack_reason(r) \in {0, 2, 3, 4, 5}
  BY DEF map_nack_reason
<1> QED
  BY <1>1 DEF build_ack_packet, AckPacket, AckAccepted, NackNotExecuted, SendResult

\* The result reported for an LRAD that is not configured.
LEMMA UnroutedResult ==
  LET r == Failure("invalid_argument", "engine") IN
  r \in SendResult /\ ~r.success /\ map_nack_reason(r) = 2
BY DEF Failure, SendResult, SystemErrors, Categories, map_nack_reason, system_error

----------------------------------------------------------------------------
(* The engine uses the sender as its specification allows.                 *)

\* A call succeeds only by a write, and then on a connection.
LEMMA OnlyWriteSucceeds ==
  ASSUME TcpInv, SendStep, call'.at = "done", call'.result.success
  PROVE  Write /\ socket.remote \in Endpoints
<1>1. ~ResolveFails
  BY ResolveFailureTyped DEF ResolveFails, ReturnWith, TcpInv, TcpTypeOK
<1>2. ASSUME NEW e \in SystemErrors, ReturnWith(Failure(e, "system")) PROVE FALSE
  BY <1>2, TransportFailureTyped DEF ReturnWith, TcpInv, TcpTypeOK
<1>3. ~ConnectFails
  <2> SUFFICES ASSUME ConnectFails PROVE FALSE
    OBVIOUS
  <2>1. PICK e \in ConnectErrors : ReturnWith(Failure(e, "system"))
    BY DEF ConnectFails
  <2> QED
    BY <1>2, <2>1, TcpConstants
<1>4. ~WriteFails
  <2> SUFFICES ASSUME WriteFails PROVE FALSE
    OBVIOUS
  <2>1. PICK e \in WriteErrors : ReturnWith(Failure(e, "system"))
    BY DEF WriteFails
  <2> QED
    BY <1>2, <2>1, TcpConstants
<1>5. \A e : /\ [call EXCEPT !.at = "check", !.endpoint = e].at # "done"
            /\ [call EXCEPT !.at = "write"].at # "done"
            /\ [call EXCEPT !.at = "connect"].at # "done"
  BY DEF TcpInv, TcpTypeOK
<1>6. ~CacheHit /\ ~KeepConnection /\ ~DropConnection /\ ~Connect
  BY <1>5 DEF CacheHit, KeepConnection, DropConnection, Connect
<1>7. ~\E e \in Endpoints : resolve_target_endpoint(e)
  BY <1>5 DEF resolve_target_endpoint
<1>8. Write
  BY <1>1, <1>3, <1>4, <1>6, <1>7 DEF SendStep
<1> QED
  BY <1>8 DEF Write, TcpInv, TcpTypeOK

\* The steps of a call neither start it nor end it, nor change its target.
LEMMA SendStepFrame ==
  ASSUME TcpInv, SendStep
  PROVE  /\ call.at \in {"resolve", "check", "connect", "write"}
         /\ call'.at \in {"check", "connect", "write", "done"}
         /\ call'.target = call.target
BY DEF SendStep, CacheHit, resolve_target_endpoint, ResolveFails, KeepConnection,
  DropConnection, Connect, ConnectFails, Write, WriteFails, ReturnWith, TcpInv,
  TcpTypeOK

\* Neither the peers nor the network touch a call.
LEMMA NetworkKeepsCall == NetworkStep => call' = call
BY DEF NetworkStep, ListenerDown, ListenerUp, PeerCloses, PeerStalls, PeerDrains,
  ResetArrives, LinkStep, senderVars

\* Every step of the engine is a step of the sender or leaves it alone.
LEMMA EngineStepsAreTcpSteps == [EngineNext]_engineVars => [TcpNext]_tcpVars
<1> SUFFICES ASSUME [EngineNext]_engineVars PROVE [TcpNext]_tcpVars
  OBVIOUS
<1>1. ASSUME NEW d \in Datagrams,
             Receive(d) \/ Ignore(d) \/ ConvertThrows(d) \/ AckOnly(d) \/ BeginCommands(d)
      PROVE  UNCHANGED tcpVars
  BY <1>1 DEF Receive, Ignore, ConvertThrows, AckOnly, BeginCommands
<1>2. CASE ReceiveError \/ StopDelivery \/ HandlerTerminates \/ Unrouted \/ Finish
  BY <1>2 DEF ReceiveError, StopDelivery, HandlerTerminates, Unrouted, Finish
<1>3. CASE StartSend
  <2>1. LradConfig[destination] \in Targets
    BY <1>3, EngineConstants DEF StartSend
  <2> QED
    BY <1>3, <2>1 DEF StartSend, TcpNext
<1>4. CASE Sending \/ SendReturns \/ Network
  BY <1>4 DEF Sending, SendReturns, Network, TcpNext
<1>5. CASE UNCHANGED engineVars
  BY <1>5 DEF engineVars
<1> QED
  BY <1>1, <1>2, <1>3, <1>4, <1>5 DEF EngineNext, processPacket

\* The sender inside the engine behaves as the sender on its own: what is
\* proved of TcpSpec holds in the engine.
THEOREM EngineUsesSender == EngineSpec => TcpSpec
<1>1. EngineInit => TcpInit
  BY DEF EngineInit
<1> QED
  BY <1>1, EngineStepsAreTcpSteps, PTL DEF EngineSpec, TcpSpec

----------------------------------------------------------------------------
(* Type correctness of the engine.                                         *)

\* A datagram in the loop has commands, was converted and is not ack-only.
LoopInv ==
  pc = "loop" => ~dump_throws(current) /\ ~ack_only(current) /\ packets(current) # <<>>

TypeInv == TcpInv /\ EngineTypeOK /\ LoopInv

\* A report is typed if the result it is made from is.
LEMMA ReportTyped ==
  ASSUME NEW d \in Datagrams, NEW i \in 1..Len(packets(d)), NEW n \in Nat,
         NEW r \in SendResult
  PROVE  LET a == extract_action_id_from_payload(packets(d)[i])
         IN Report(<<n, i>>, d, a, r) \in [order : Nat \X Nat, packet : AckPacket]
<1> DEFINE a == extract_action_id_from_payload(packets(d)[i])
<1>1. packets(d)[i] \in Messages
  BY PacketsTyped
<1>2. a \in Nat
  BY <1>1 DEF extract_action_id_from_payload, Messages
<1>3. build_ack_packet(a, d.messageId, r) \in AckPacket
  BY <1>2, AckPacketTyped, DatagramTyped
<1>4. i \in Nat
  BY PacketsTyped
<1> QED
  BY <1>3, <1>4 DEF Report

\* A set of positions has a last one: one with the fewest positions above it.
LEMMA LastPosition ==
  ASSUME NEW n \in Nat, NEW U \in SUBSET (1..n), U # {}
  PROVE  \E m \in U : \A j \in U : j <= m
<1> DEFINE S == 1..n
           Above(m) == {j \in U : j > m}
           T == {Above(m) : m \in U}
<1>1. T # {} /\ T \subseteq SUBSET S
  OBVIOUS
<1>2. FiniteSubsetsOf(S) = SUBSET S
  <2>1. IsFiniteSet(S)
    BY FS_Interval
  <2> HIDE DEF S
  <2> QED
    BY <2>1, FS_FiniteSubsetsOfFinite
<1>3. IsWellFoundedOn(StrictSubsetOrdering(S), SUBSET S)
  BY <1>2, FS_StrictSubsetOrderingWellFounded
<1>4. PICK A \in T : \A B \in T : ~(<<B, A>> \in StrictSubsetOrdering(S))
  <2> HIDE DEF T
  <2> QED
    BY <1>1, <1>3, WFMin
<1>5. PICK m \in U : A = Above(m)
  OBVIOUS
<1>6. ASSUME NEW j \in U, j > m PROVE FALSE
  <2>1. Above(j) \in T /\ Above(j) \in SUBSET S /\ A \in SUBSET S
    BY <1>1
  <2>4. U \subseteq Int
    OBVIOUS
  <2>2. Above(j) \subseteq A /\ j \in A /\ j \notin Above(j)
    <3>1. ASSUME NEW k \in U, k > j PROVE k > m
      BY <1>6, <2>4, <3>1
    <3>2. j \in A
      BY <1>5, <1>6
    <3>3. j \in Int /\ ~(j > j)
      BY <2>4
    <3> QED
      BY <1>5, <3>1, <3>2, <3>3
  <2>3. Above(j) # A
    BY <2>2
  <2> HIDE DEF Above, T
  <2> QED
    BY <1>4, <2>1, <2>2, <2>3 DEF StrictSubsetOrdering
<1>7. U \subseteq Int
  OBVIOUS
<1> QED
  BY <1>6, <1>7

\* applyBatch keeps the state typed.
LEMMA ApplyBatchTyped ==
  ASSUME NEW s \in SystemStates,
         NEW u \in Seq([lradId : Lrads, engaged : Engagement])
  PROVE  applyBatch(s, u) \in SystemStates
<1>1. ASSUME NEW l \in Lrads, updates_for(u, l) # {}
      PROVE  last_update(u, l) \in Engagement
  <2>1. updates_for(u, l) \in SUBSET (1..Len(u)) /\ Len(u) \in Nat
    BY DEF updates_for
  <2>2. \E m \in updates_for(u, l) : \A j \in updates_for(u, l) : j <= m
    <3> DEFINE U == updates_for(u, l)
    <3>1. U \in SUBSET (1..Len(u)) /\ U # {}
      BY <1>1, <2>1
    <3> HIDE DEF U
    <3>2. \E m \in U : \A j \in U : j <= m
      BY <2>1, <3>1, LastPosition
    <3> QED
      BY <3>2 DEF U
  <2> DEFINE m == CHOOSE i \in updates_for(u, l) :
                    \A j \in updates_for(u, l) : j <= i
  <2>3. m \in updates_for(u, l)
    BY <2>2
  <2>4. \A i \in 1..Len(u) : u[i].engaged \in Engagement
    <3>1. ASSUME NEW r \in [lradId : Lrads, engaged : Engagement]
          PROVE  r.engaged \in Engagement
      OBVIOUS
    <3>2. \A i \in 1..Len(u) : u[i] \in [lradId : Lrads, engaged : Engagement]
      BY ElementOfSeq
    <3> QED
      BY <3>1, <3>2
  <2>5. last_update(u, l) = u[m].engaged
    BY DEF last_update
  <2> HIDE DEF m
  <2> QED
    BY <2>1, <2>3, <2>4, <2>5
<1> QED
  BY <1>1 DEF applyBatch, SystemStates

\* The commands of a datagram, counted.
LEMMA PacketCount ==
  ASSUME NEW d \in Datagrams
  PROVE  /\ Len(packets(d)) \in Nat
         /\ packets(d) # <<>> => Len(packets(d)) > 0
BY PacketsTyped

\* What was received stays: a datagram posted later changes no earlier one.
LEMMA ReceivedStays ==
  ASSUME received \in Seq(Datagrams), NEW d \in Datagrams, Receive(d)
  PROVE  /\ received' \in Seq(Datagrams)
         /\ Len(received') = Len(received) + 1
         /\ \A n \in 1..Len(received) : received'[n] = received[n]
BY DEF Receive

\* The datagram in the loop.
LEMMA CurrentTyped ==
  ASSUME EngineTypeOK, taken > 0
  PROVE  current \in Datagrams /\ taken \in 1..Len(received)
BY DEF EngineTypeOK, current

\* The engine starts typed and idle.
LEMMA InitTypeInv == EngineInit => TypeInv
<1> SUFFICES ASSUME EngineInit PROVE TypeInv
  OBVIOUS
<1>1. TcpInv
  BY TcpInitInv DEF EngineInit
<1>2. call.at = "none"
  BY DEF EngineInit, TcpInit, NoCall
<1>3. InitialState \in SystemStates
  BY DEF InitialState, SystemStates, Engagement
<1>4. EngineTypeOK
  BY <1>1, <1>2, <1>3, EngineConstants DEF EngineInit, EngineTypeOK, TcpInv
<1> QED
  BY <1>1, <1>4 DEF TypeInv, LoopInv, EngineInit

\* The main thread: what is posted leaves the handler in progress alone.
LEMMA ReceiveTypeInv ==
  ASSUME TypeInv, NEW d \in Datagrams, Receive(d), TcpInv'
  PROVE  TypeInv'
<1> USE DEF TypeInv, EngineTypeOK
<1>1. /\ received' \in Seq(Datagrams)
      /\ Len(received') = Len(received) + 1
      /\ \A n \in 1..Len(received) : received'[n] = received[n]
  BY ReceivedStays
<1>2. pc = "loop" => current' = current
  BY <1>1, EngineConstants DEF Receive, current, loopVars
<1>3. call' = call
  BY DEF Receive, tcpVars
<1>4. EngineTypeOK'
  BY <1>1, <1>2, <1>3, EngineConstants
    DEF Receive, tcpVars, loopVars, TcpInv, InLoop, destination
<1> QED
  BY <1>2, <1>4 DEF LoopInv, Receive, loopVars

\* The main thread's other steps, and the network's, change nothing typed here
\* but the flags of the two threads.
LEMMA OutsideTypeInv ==
  ASSUME TypeInv, TcpInv',
         ReceiveError \/ StopDelivery \/ HandlerTerminates \/ Network \/
           UNCHANGED engineVars
  PROVE  TypeInv'
<1>1. call' = call
  BY NetworkKeepsCall DEF
     ReceiveError, StopDelivery, HandlerTerminates, Network, engineVars, tcpVars
<1>2. /\ UNCHANGED <<received, taken, loopVars, systemState, acks, written>>
      /\ receiving' \in BOOLEAN
      /\ delivery' \in {"running", "stopped", "terminated"}
  BY DEF
     ReceiveError, StopDelivery, HandlerTerminates, Network, engineVars, receiverVars, TypeInv,
    EngineTypeOK
<1> QED
  BY <1>1, <1>2 DEF TypeInv, EngineTypeOK, TcpInv, LoopInv, InLoop, destination,
    current, loopVars

\* The handler's first step.
LEMMA TakesTypeInv ==
  ASSUME TypeInv, NEW d \in Datagrams, TcpInv',
         Ignore(d) \/ ConvertThrows(d) \/ AckOnly(d) \/ BeginCommands(d)
  PROVE  TypeInv'
<1> USE DEF TypeInv, EngineTypeOK
<1>1. /\ Takes(d)
      /\ UNCHANGED <<tcpVars, received, systemState, written>>
  BY DEF Ignore, ConvertThrows, AckOnly, BeginCommands, receiverVars
<1>2. /\ taken' = taken + 1 /\ taken' \in 1..Len(received)
      /\ d = received[taken'] /\ pc = "idle" /\ call.at = "none"
  BY <1>1 DEF Takes, InLoop
<1>3. CASE Ignore(d)
  BY <1>1, <1>2, <1>3 DEF Ignore, loopVars, receiverVars, LoopInv, TcpInv, tcpVars
<1>4. CASE ConvertThrows(d)
  <2>1. receiving' \in BOOLEAN /\ delivery' \in {"running", "stopped", "terminated"}
    BY <1>4 DEF ConvertThrows
  <2>2. pc' = "idle" /\ call'.at = "none"
    BY <1>2, <1>4 DEF ConvertThrows, loopVars, tcpVars
  <2>3. UNCHANGED <<received, index, allSendsSucceeded, systemState, acks, written>>
    BY <1>4 DEF ConvertThrows, loopVars
  <2>4. EngineTypeOK'
    BY <1>2, <2>1, <2>2, <2>3 DEF TcpInv
  <2> QED
    BY <2>2, <2>4 DEF LoopInv
<1>5. CASE AckOnly(d)
  <2>1. Report(<<taken + 1, 1>>, d, 0, Success) \in [order : Nat \X Nat, packet : AckPacket]
    <3>1. build_ack_packet(0, d.messageId, Success) \in AckPacket
      BY AckPacketTyped, ResultsTyped, DatagramTyped
    <3>2. <<taken + 1, 1>> \in Nat \X Nat
      BY <1>2
    <3> QED
      BY <3>1, <3>2 DEF Report
  <2>2. acks' \in Seq([order : Nat \X Nat, packet : AckPacket])
    BY <1>5, <2>1, AppendProperties DEF AckOnly
  <2>3. pc' = "idle" /\ call'.at = "none"
    BY <1>2, <1>5 DEF AckOnly, loopVars, tcpVars
  <2>4. UNCHANGED <<receiving, delivery, received, index, allSendsSucceeded,
                    systemState, written>>
    BY <1>5 DEF AckOnly, loopVars, receiverVars
  <2>5. EngineTypeOK'
    BY <1>2, <2>2, <2>3, <2>4 DEF TcpInv
  <2> QED
    BY <2>3, <2>5 DEF LoopInv
<1>6. CASE BeginCommands(d)
  <2>1. current' = d
    BY <1>1, <1>2 DEF current
  <2>2. Len(packets(d)) \in Nat /\ Len(packets(d)) > 0
    BY <1>6, PacketCount DEF BeginCommands
  <2> QED
    BY <1>1, <1>2, <1>6, <2>1, <2>2
      DEF BeginCommands, receiverVars, LoopInv, TcpInv, tcpVars
<1> QED
  BY <1>3, <1>4, <1>5, <1>6

\* The end of an iteration of the loop.
LEMMA ReportTypeInv ==
  ASSUME TypeInv, Unrouted \/ SendReturns, TcpInv'
  PROVE  TypeInv'
<1> USE DEF TypeInv, EngineTypeOK
<1>1. PICK r \in SendResult : ReportResult(r)
  <2>1. CASE Unrouted
    BY <2>1, UnroutedResult DEF Unrouted
  <2>2. CASE SendReturns
    BY <2>2 DEF SendReturns, TcpInv, TcpTypeOK
  <2> QED
    BY <2>1, <2>2
<1>2. /\ pc = "loop" /\ taken > 0 /\ index <= Len(packets(current))
      /\ call'.at = "none"
  BY DEF Unrouted, SendReturns, InLoop, Return, NoCall, tcpVars
<1>3. current \in Datagrams /\ current' = current
  BY <1>1, <1>2, CurrentTyped DEF ReportResult, receiverVars, current
<1>4. Len(packets(current)) \in Nat
  BY <1>3, PacketCount
<1>5. Report(<<taken, index>>, current,
             extract_action_id_from_payload(packets(current)[index]), r)
        \in [order : Nat \X Nat, packet : AckPacket]
  BY <1>2, <1>3, <1>4, ReportTyped
<1>6. acks' \in Seq([order : Nat \X Nat, packet : AckPacket])
  BY <1>1, <1>5, AppendProperties DEF ReportResult
<1>7. allSendsSucceeded' \in BOOLEAN
  BY <1>1 DEF ReportResult, SendResult
<1> QED
  BY <1>1, <1>2, <1>3, <1>4, <1>6, <1>7
    DEF ReportResult, receiverVars, LoopInv, TcpInv

\* The call in progress.
LEMMA SendTypeInv ==
  ASSUME TypeInv, StartSend \/ Sending, TcpInv'
  PROVE  TypeInv'
<1> USE DEF TypeInv, EngineTypeOK
<1>1. /\ UNCHANGED <<receiverVars, delivery, taken, loopVars, systemState, acks>>
      /\ InLoop
  BY DEF StartSend, Sending
<1>2. current' = current /\ destination' = destination /\ InLoop'
  BY <1>1 DEF receiverVars, loopVars, current, destination, InLoop
<1>3. CASE StartSend
  BY <1>1, <1>2, <1>3
    DEF StartSend, send, NoCall, receiverVars, loopVars, LoopInv, TcpInv
<1>4. CASE Sending
  <2>1. written' \in Seq([order : Nat \X Nat, to : Endpoints])
    <3>1. CASE call'.at = "done" /\ call'.result.success
      <4>1. socket.remote \in Endpoints
        BY <1>4, <3>1, OnlyWriteSucceeds DEF Sending
      <4>2. [order |-> <<taken, index>>, to |-> socket.remote]
              \in [order : Nat \X Nat, to : Endpoints]
        BY <4>1
      <4> QED
        BY <1>4, <3>1, <4>2, AppendProperties DEF Sending
    <3>2. CASE ~(call'.at = "done" /\ call'.result.success)
      BY <1>4, <3>2 DEF Sending
    <3> QED
      BY <3>1, <3>2
  <2>2. call.at # "none" /\ call'.target = call.target
    BY <1>4, SendStepFrame DEF Sending
  <2> QED
    BY <1>1, <1>2, <2>1, <2>2 DEF receiverVars, loopVars, LoopInv, TcpInv
<1> QED
  BY <1>3, <1>4

\* The commit.
LEMMA FinishTypeInv ==
  ASSUME TypeInv, Finish, TcpInv'
  PROVE  TypeInv'
<1> USE DEF TypeInv, EngineTypeOK
<1>1. current \in Datagrams
  BY CurrentTyped DEF Finish
<1>2. systemState' \in SystemStates
  BY <1>1, UpdatesTyped, ApplyBatchTyped DEF Finish
<1>3. call.at = "none"
  BY <1>1, PacketCount DEF Finish, InLoop
<1> QED
  BY <1>2, <1>3 DEF Finish, receiverVars, LoopInv, TcpInv, tcpVars

\* TypeInv is inductive over every step of the two threads and the network.
LEMMA NextTypeInv == TypeInv /\ [EngineNext]_engineVars => TypeInv'
<1> SUFFICES ASSUME TypeInv, [EngineNext]_engineVars PROVE TypeInv'
  OBVIOUS
<1>1. TcpInv'
  BY EngineStepsAreTcpSteps, TcpNextInv DEF TypeInv
<1> QED
  BY <1>1, ReceiveTypeInv, OutsideTypeInv, TakesTypeInv, ReportTypeInv, SendTypeInv,
    FinishTypeInv DEF EngineNext, processPacket

\* Type correctness of the engine, for any datagrams and any number of them.
THEOREM EngineTypeCorrect == EngineSpec => []EngineTypeOK
<1>1. TypeInv => EngineTypeOK
  BY DEF TypeInv
<1> QED
  BY <1>1, InitTypeInv, NextTypeInv, PTL DEF EngineSpec

-----------------------------------------------------------------------------
(* The steps of a datagram.                                                *)

\* What is left of a datagram in progress is at least the end of its loop.
LeftFacts ==
  /\ pc = "idle" => left = 0
  /\ pc = "loop" => /\ left \in Nat \ {0}
                    /\ Len(packets(current)) \in Nat
                    /\ left = 6 * (Len(packets(current)) - index) + left_of_call[call.at] + 1
  /\ index \in Nat
  /\ left_of_call["none"] = 6 /\ left_of_call["resolve"] = 5
  /\ left_of_call["check"] = 4 /\ left_of_call["connect"] = 3
  /\ left_of_call["write"] = 2 /\ left_of_call["done"] = 1

\* At place i of n commands, c steps before the end of the one it is at.
LEMMA LeftBounds ==
  ASSUME NEW n \in Nat, NEW i \in Nat \ {0}, NEW c \in 1..6, i <= n + 1, i > n => c = 6
  PROVE  6 * (n - i) + c + 1 \in Nat \ {0}
OBVIOUS

LEMMA LeftLess ==
  ASSUME NEW n \in Nat, NEW i \in Nat, NEW c \in 1..6, NEW d \in 1..6, d < c
  PROVE  6 * (n - i) + d + 1 < 6 * (n - i) + c + 1
OBVIOUS

LEMMA LeftOf == TypeInv => LeftFacts
<1> SUFFICES ASSUME TypeInv PROVE LeftFacts
  OBVIOUS
<1>1. /\ left_of_call["none"] = 6 /\ left_of_call["resolve"] = 5
      /\ left_of_call["check"] = 4 /\ left_of_call["connect"] = 3
      /\ left_of_call["write"] = 2 /\ left_of_call["done"] = 1
  BY DEF left_of_call
<1>2. /\ call.at \in {"none", "resolve", "check", "connect", "write", "done"}
      /\ index \in Nat \ {0}
      /\ call.at # "none" => InLoop
      /\ pc = "loop" => taken > 0 /\ index <= Len(packets(current)) + 1
  BY DEF TypeInv, EngineTypeOK, TcpInv, TcpTypeOK
<1>3. pc = "loop" => Len(packets(current)) \in Nat
  BY <1>2, CurrentTyped, PacketCount DEF TypeInv
<1>4. left_of_call[call.at] \in 1..6
  BY <1>1, <1>2
<1>5. call.at # "none" => index <= Len(packets(current))
  BY <1>2 DEF InLoop
<1>6. pc = "loop" => left = 6 * (Len(packets(current)) - index) + left_of_call[call.at] + 1
  BY DEF left
<1>7. ASSUME pc = "loop" PROVE left \in Nat \ {0}
  <2>1. /\ Len(packets(current)) \in Nat /\ index <= Len(packets(current)) + 1
        /\ index > Len(packets(current)) => left_of_call[call.at] = 6
    BY <1>1, <1>2, <1>3, <1>5, <1>7
  <2> QED
    BY <1>2, <1>4, <1>6, <1>7, <2>1, LeftBounds
<1> QED
  BY <1>1, <1>2, <1>3, <1>6, <1>7 DEF LeftFacts, left

\* A step of a send has less to go.
LEMMA SendStepAdvances ==
  ASSUME TcpInv, SendStep
  PROVE  left_of_call[call'.at] < left_of_call[call.at]
<1>1. /\ left_of_call["resolve"] = 5 /\ left_of_call["check"] = 4
      /\ left_of_call["connect"] = 3 /\ left_of_call["write"] = 2
      /\ left_of_call["done"] = 1
  BY DEF left_of_call
<1>2. \/ call.at = "resolve" /\ call'.at \in {"check", "done"}
      \/ call.at = "check" /\ call'.at \in {"connect", "write"}
      \/ call.at = "connect" /\ call'.at \in {"write", "done"}
      \/ call.at = "write" /\ call'.at = "done"
  <2>1. CASE CacheHit
    BY <2>1 DEF CacheHit, TcpInv, TcpTypeOK
  <2>2. ASSUME NEW e \in Endpoints, resolve_target_endpoint(e)
        PROVE  call.at = "resolve" /\ call'.at = "check"
    BY <2>2 DEF resolve_target_endpoint, TcpInv, TcpTypeOK
  <2>3. CASE ResolveFails
    BY <2>3 DEF ResolveFails, ReturnWith, TcpInv, TcpTypeOK
  <2>4. CASE KeepConnection \/ DropConnection
    BY <2>4 DEF KeepConnection, DropConnection, TcpInv, TcpTypeOK
  <2>5. CASE Connect
    BY <2>5 DEF Connect, TcpInv, TcpTypeOK
  <2>6. CASE ConnectFails
    BY <2>6 DEF ConnectFails, ReturnWith, TcpInv, TcpTypeOK
  <2>7. CASE Write \/ WriteFails
    BY <2>7 DEF Write, WriteFails, ReturnWith, TcpInv, TcpTypeOK
  <2> QED
    BY <2>1, <2>2, <2>3, <2>4, <2>5, <2>6, <2>7, Zenon DEF SendStep
<1> QED
  BY <1>1, <1>2

\* A step on the datagram in progress leaves less of it.
LEMMA HandlerStepAdvances ==
  ASSUME TypeInv, TypeInv', pc = "loop",
         Unrouted \/ StartSend \/ Sending \/ SendReturns \/ Finish
  PROVE  0 <= left' /\ left' < left
<1>1. LeftFacts /\ LeftFacts'
  BY LeftOf, PTL
<1>2. call.at \in {"none", "resolve", "check", "connect", "write", "done"}
  BY DEF TypeInv, TcpInv, TcpTypeOK
<1> DEFINE n == Len(packets(current))
           c == left_of_call[call.at]
<1>3. packets(current)' = packets(current)
  <2>1. UNCHANGED <<received, taken>>
    BY DEF Unrouted, StartSend, Sending, SendReturns, ReportResult, Finish, receiverVars
  <2> QED
    BY <2>1 DEF current
<1>4. /\ n \in Nat /\ index \in Nat /\ left = 6 * (n - index) + c + 1 /\ left \in Nat \ {0}
      /\ pc' = "loop" => left' = 6 * (n - index') + c' + 1 /\ left' \in Nat
  BY <1>1, <1>3 DEF LeftFacts
<1>5. c \in 1..6
  BY <1>1, <1>2 DEF LeftFacts
<1>6. CASE Unrouted
  <2>1. pc' = "loop" /\ index' = index + 1 /\ c' = c
    BY <1>6 DEF Unrouted, ReportResult, InLoop, tcpVars
  <2> HIDE DEF n, c
  <2> QED
    BY <1>4, <1>5, <2>1
<1>7. CASE StartSend
  <2>1. pc' = "loop" /\ index' = index /\ c = 6 /\ c' = 5
    BY <1>1, <1>7 DEF StartSend, send, NoCall, InLoop, loopVars, LeftFacts
  <2> HIDE DEF n, c
  <2> QED
    BY <1>4, <2>1
<1>8. CASE Sending
  <2>1. pc' = "loop" /\ index' = index /\ c' < c
    BY <1>8, SendStepAdvances DEF Sending, InLoop, loopVars, TypeInv
  <2>2. c' \in 1..6
    <3>1. call'.at \in {"none", "resolve", "check", "connect", "write", "done"}
      BY DEF TypeInv, TcpInv, TcpTypeOK
    <3> QED
      BY <1>1, <3>1 DEF LeftFacts
  <2>3. left' = 6 * (n - index) + c' + 1 /\ left' \in Nat
    BY <1>4, <2>1
  <2> HIDE DEF n, c
  <2>4. 6 * (n - index) + c' + 1 < 6 * (n - index) + c + 1
    BY <1>4, <1>5, <2>1, <2>2, LeftLess
  <2> QED
    BY <1>4, <2>3, <2>4
<1>9. CASE SendReturns
  <2>1. pc' = "loop" /\ index' = index + 1 /\ c = 1 /\ c' = 6
    BY <1>1, <1>9 DEF SendReturns, ReportResult, Return, NoCall, InLoop, LeftFacts
  <2> HIDE DEF n, c
  <2> QED
    BY <1>4, <2>1
<1>10. CASE Finish
  <2>1. left' = 0
    BY <1>1, <1>10 DEF Finish, LeftFacts
  <2> QED
    BY <1>4, <2>1
<1> QED
  BY <1>6, <1>7, <1>8, <1>9, <1>10

\* Every datagram ends, unless a peer stalls its write for ever: nothing that the
\* delivery thread does for it is ever done a second time.
THEOREM HandlersAdvance == EngineSpec => EveryHandlerStepAdvances
<1> DEFINE Advances ==
      pc = "loop" /\ <<pc, index, call>>' # <<pc, index, call>>
        => 0 <= left' /\ left' < left
<1>1. ASSUME TypeInv, TypeInv', [EngineNext]_engineVars
      PROVE  [Advances]_engineVars
  <2>1. CASE pc = "loop" /\ <<pc, index, call>>' # <<pc, index, call>>
    <3>1. Unrouted \/ StartSend \/ Sending \/ SendReturns \/ Finish
      BY <1>1, <2>1, NetworkKeepsCall
         DEF EngineNext, Receive, ReceiveError, StopDelivery, processPacket,
             HandlerTerminates, Network, Ignore, ConvertThrows, AckOnly, BeginCommands,
             Takes, loopVars, tcpVars, engineVars
    <3> QED
      BY <1>1, <2>1, <3>1, HandlerStepAdvances
  <2> QED
    BY <2>1
<1>2. EngineSpec => []TypeInv
  BY InitTypeInv, NextTypeInv, PTL DEF EngineSpec
<1> QED
  BY <1>1, <1>2, PTL DEF EngineSpec, EveryHandlerStepAdvances

=============================================================================
