----------------------------- MODULE ProxyEngine -----------------------------
(***************************************************************************)
(* ProxyEngine: the receiver posts every datagram to the delivery context, *)
(* and the one delivery thread runs processPacket on each, in order: it    *)
(* converts the datagram, sends one command per order through the blocking *)
(* sender, reports each with an ACK or a NACK, and commits the updates of  *)
(* the system state if all the sends succeeded.                            *)
(*                                                                         *)
(* The module composes the sender (TcpSender, whose steps are the steps of *)
(* a send in progress), the converter and the system state.  The receiver  *)
(* runs on the main thread and interleaves with all of it.                 *)
(*                                                                         *)
(* An order is <<n, i>>: the i-th command of the n-th datagram.            *)
(***************************************************************************)
EXTENDS TcpSender, BinaryConverter

CONSTANTS
  LradConfig,    \* lrad_config_: the target of each configured LRAD
  MaxDatagrams   \* bound: how many datagrams arrive

ASSUME EngineConstants ==
  /\ LradConfig \in [DOMAIN LradConfig -> Targets]
  /\ DOMAIN LradConfig \subseteq Lrads
  /\ MaxDatagrams \in Nat

VARIABLES
  receiving,          \* the receive loop is armed
  delivery,           \* the delivery thread: running, stopped or terminated
  received,           \* what was posted; past "taken" it is the queue
  taken,              \* how many datagrams processPacket was started on
  pc,                 \* processPacket: idle, or in its loop over the commands
  index,              \* the command the loop is at
  allSendsSucceeded,
  systemState,
  acks,               \* what was handed to UdpAckSender, with the order
  written             \* external: what the socket accepted, and where

receiverVars == <<receiving, received>>
loopVars == <<pc, index, allSendsSucceeded>>
engineVars ==
  <<tcpVars, receiverVars, delivery, taken, loopVars, systemState, acks, written>>

EngineInit ==
  /\ TcpInit
  /\ receiving = TRUE
  /\ delivery = "running"
  /\ received = <<>>
  /\ taken = 0
  /\ pc = "idle"
  /\ index = 1
  /\ allSendsSucceeded = TRUE
  /\ systemState = InitialState
  /\ acks = <<>>
  /\ written = <<>>

----------------------------------------------------------------------------
(* The main thread: the receive loop, and the stop that follows it.        *)

Receive(d) ==
  /\ receiving
  /\ Len(received) < MaxDatagrams
  /\ received' = Append(received, d)
  /\ UNCHANGED <<tcpVars, receiving, delivery, taken, loopVars, systemState,
                 acks, written>>

\* Any error ends the loop: do_receive is not armed again.
ReceiveError ==
  /\ receiving
  /\ receiving' = FALSE
  /\ UNCHANGED <<tcpVars, received, delivery, taken, loopVars, systemState,
                 acks, written>>

\* With nothing left to run the receive context returns, and main stops the
\* delivery context: the handler that runs goes on, the queue is dropped.
StopDelivery ==
  /\ ~receiving
  /\ delivery = "running"
  /\ delivery' = "stopped"
  /\ UNCHANGED <<tcpVars, receiverVars, taken, loopVars, systemState, acks,
                 written>>

----------------------------------------------------------------------------
(* processPacket.                                                          *)

extract_action_id_from_payload(packet) ==
  IF packet.param_action_id THEN packet.action_id ELSE 0

current == received[taken]

Report(order, source, action_id, result) ==
  [ order  |-> order,
    packet |-> build_ack_packet(action_id, source.messageId, result) ]

\* Mutant: the queue is worked off after the stop.
TakesAfterStop(d) ==
  /\ pc = "idle"
  /\ delivery # "terminated"
  /\ taken < Len(received)
  /\ d = received[taken + 1]
  /\ taken' = taken + 1

Takes(d) ==
  /\ pc = "idle"
  /\ delivery = "running"
  /\ taken < Len(received)
  /\ d = received[taken + 1]
  /\ taken' = taken + 1

Ignore(d) ==
  /\ Takes(d)
  /\ packets(d) = <<>>
  /\ UNCHANGED <<tcpVars, receiverVars, delivery, loopVars, systemState, acks,
                 written>>

\* Mutant: the exception is caught and the datagram stays in the queue.
ConvertRetries(d) ==
  /\ pc = "idle"
  /\ delivery = "running"
  /\ taken < Len(received)
  /\ d = received[taken + 1]
  /\ dump_throws(d)
  /\ UNCHANGED engineVars

\* The exception leaves the function of the delivery thread: std::terminate.
ConvertThrows(d) ==
  /\ Takes(d)
  /\ dump_throws(d)
  /\ delivery' = "terminated"
  /\ receiving' = FALSE
  /\ UNCHANGED <<tcpVars, received, loopVars, systemState, acks, written>>

AckOnly(d) ==
  /\ Takes(d)
  /\ packets(d) # <<>>
  /\ ack_only(d)
  /\ acks' = Append(acks, Report(<<taken + 1, 1>>, d, 0, Success))
  /\ UNCHANGED <<tcpVars, receiverVars, delivery, loopVars, systemState, written>>

\* Mutant: the index of the datagram before is kept.
BeginKeepsIndex(d) ==
  /\ Takes(d)
  /\ packets(d) # <<>>
  /\ ~dump_throws(d)
  /\ ~ack_only(d)
  /\ pc' = "loop"
  /\ allSendsSucceeded' = TRUE
  /\ UNCHANGED <<tcpVars, receiverVars, delivery, index, systemState, acks, written>>

BeginCommands(d) ==
  /\ Takes(d)
  /\ packets(d) # <<>>
  /\ ~dump_throws(d)
  /\ ~ack_only(d)
  /\ pc' = "loop"
  /\ index' = 1
  /\ allSendsSucceeded' = TRUE
  /\ UNCHANGED <<tcpVars, receiverVars, delivery, systemState, acks, written>>

InLoop ==
  /\ pc = "loop"
  /\ index <= Len(packets(current))

destination == packets(current)[index].destinationLradId

\* Mutants: the report tells of the datagram so far, not of the order; the last
\* send alone decides about the commit.
ReportSoFar(result) ==
  /\ allSendsSucceeded' = (allSendsSucceeded /\ result.success)
  /\ acks' = Append(acks,
       Report(<<taken, index>>, current,
              extract_action_id_from_payload(packets(current)[index]),
              IF allSendsSucceeded THEN result ELSE DefaultResult))
  /\ index' = index + 1
  /\ UNCHANGED <<receiverVars, delivery, taken, pc, systemState, written>>

ReportLastDecides(result) ==
  /\ allSendsSucceeded' = result.success
  /\ acks' = Append(acks,
       Report(<<taken, index>>, current,
              extract_action_id_from_payload(packets(current)[index]), result))
  /\ index' = index + 1
  /\ UNCHANGED <<receiverVars, delivery, taken, pc, systemState, written>>

\* The end of an iteration: the outcome of the send is reported.
ReportResult(result) ==
  /\ allSendsSucceeded' = (allSendsSucceeded /\ result.success)
  /\ acks' = Append(acks,
       Report(<<taken, index>>, current,
              extract_action_id_from_payload(packets(current)[index]), result))
  /\ index' = index + 1
  /\ UNCHANGED <<receiverVars, delivery, taken, pc, systemState, written>>

\* Mutant: an order for an unknown LRAD is skipped without a report.
UnroutedSkips ==
  /\ InLoop
  /\ call.at = "none"
  /\ destination \notin DOMAIN LradConfig
  /\ allSendsSucceeded' = FALSE
  /\ index' = index + 1
  /\ UNCHANGED <<tcpVars, receiverVars, delivery, taken, pc, systemState, acks,
                 written>>

\* Mutant: and one that is reported as executed.
UnroutedAcks ==
  /\ InLoop
  /\ call.at = "none"
  /\ destination \notin DOMAIN LradConfig
  /\ ReportResult(Success)
  /\ UNCHANGED tcpVars

Unrouted ==
  /\ InLoop
  /\ call.at = "none"
  /\ destination \notin DOMAIN LradConfig
  /\ ReportResult(Failure("invalid_argument", "engine"))
  /\ UNCHANGED tcpVars

StartSend ==
  /\ InLoop
  /\ destination \in DOMAIN LradConfig
  /\ send(LradConfig[destination])
  /\ UNCHANGED <<receiverVars, delivery, taken, loopVars, systemState, acks,
                 written>>

\* A step of the send in progress; an accepted write is recorded.
Sending ==
  /\ InLoop
  /\ SendStep
  /\ written' =
       IF call'.at = "done" /\ call'.result.success
         THEN Append(written, [order |-> <<taken, index>>, to |-> socket.remote])
         ELSE written
  /\ UNCHANGED <<receiverVars, delivery, taken, loopVars, systemState, acks>>

SendReturns ==
  /\ InLoop
  /\ Return
  /\ ReportResult(call.result)

Finish ==
  /\ pc = "loop"
  /\ index > Len(packets(current))
  /\ pc' = "idle"
  /\ systemState' = IF allSendsSucceeded
                      THEN applyBatch(systemState, state_updates(current))
                      ELSE systemState
  /\ UNCHANGED <<tcpVars, receiverVars, delivery, taken, index,
                 allSendsSucceeded, acks, written>>

processPacket ==
  /\ delivery # "terminated"
  /\ \/ \E d \in Datagrams :
          Ignore(d) \/ ConvertThrows(d) \/ AckOnly(d) \/ BeginCommands(d)
     \/ Unrouted
     \/ StartSend
     \/ Sending
     \/ SendReturns
     \/ Finish

\* main destroys the engine and its components after the stop, and a handler
\* that still runs uses them: it may go on, or the process dies at any point.
HandlerTerminates ==
  /\ delivery = "stopped"
  /\ pc = "loop"
  /\ delivery' = "terminated"
  /\ UNCHANGED <<tcpVars, receiverVars, taken, loopVars, systemState, acks,
                 written>>

Network ==
  /\ NetworkStep
  /\ UNCHANGED <<receiverVars, delivery, taken, loopVars, systemState, acks,
                 written>>

EngineNext ==
  \/ \E d \in Datagrams : Receive(d)
  \/ ReceiveError
  \/ StopDelivery
  \/ processPacket
  \/ HandlerTerminates
  \/ Network

EngineSpec == EngineInit /\ [][EngineNext]_engineVars

\* Both threads keep running; of the network, see TcpSender.  Nobody owes a
\* datagram or a receive error.
EngineFairSpec ==
  /\ EngineSpec
  /\ WF_engineVars(StopDelivery)
  /\ WF_engineVars(processPacket)
  /\ NetworkFairness

----------------------------------------------------------------------------
(* Properties.                                                             *)

finished == IF pc = "idle" THEN taken ELSE taken - 1

\* How many commands of datagram n must have been reported by now.
due(n) ==
  IF n > finished THEN index - 1
  ELSE IF dump_throws(received[n]) THEN 0 ELSE Len(packets(received[n]))

message(order) == packets(received[order[1]])[order[2]]

precedes(a, b) == a[1] < b[1] \/ (a[1] = b[1] /\ a[2] < b[2])

reported == {acks[i].order : i \in DOMAIN acks}
delivered == {written[i].order : i \in DOMAIN written}

\* The type invariant.  The sender is idle unless the loop waits for it.
EngineTypeOK ==
  /\ TcpTypeOK
  /\ receiving \in BOOLEAN
  /\ delivery \in {"running", "stopped", "terminated"}
  /\ received \in Seq(Datagrams)
  /\ Len(received) <= MaxDatagrams
  /\ taken \in 0..Len(received)
  /\ pc \in {"idle", "loop"}
  /\ index \in Nat \ {0}
  /\ pc = "loop" => taken > 0 /\ index <= Len(packets(current)) + 1
  /\ call.at # "none" => /\ InLoop
                         /\ destination \in DOMAIN LradConfig
                         /\ call.target = LradConfig[destination]
  /\ allSendsSucceeded \in BOOLEAN
  /\ systemState \in SystemStates
  /\ acks \in Seq([order : Nat \X Nat, packet : AckPacket])
  /\ written \in Seq([order : Nat \X Nat, to : Endpoints])

\* Every order is reported exactly once, by one ACK or NACK, in the order of
\* arrival, whatever happens to its send; a discarded datagram is not
\* reported (README.md:40,42).
OneReportPerOrder ==
  /\ reported = UNION { {n} \X (1..due(n)) : n \in 1..taken }
  /\ \A i, j \in DOMAIN acks :
       i < j => precedes(acks[i].order, acks[j].order)

\* A report tells what happened to its order and to no other: an order is
\* ACKed if and only if the socket accepted its command, and an order for an
\* LRAD that is not configured is NACKed with reason 2 (README.md:44).  Only
\* a cancellation is ACKed without a send.
AcksAreTruthful ==
  \A i \in DOMAIN acks :
    LET order  == acks[i].order
        packet == acks[i].packet
    IN ~ack_only(received[order[1]]) =>
         /\ packet.ack_nack = AckAccepted <=> order \in delivered
         /\ message(order).destinationLradId \notin DOMAIN LradConfig =>
              packet.ack_nack = NackNotExecuted /\ packet.nack_reason = 2

\* Each command goes to an address of the LRAD its order names, although all
\* of them share one socket, at most once, and in the order of arrival.
RoutedToConfiguredLrad ==
  /\ \A i \in DOMAIN written :
       LET lrad == message(written[i].order).destinationLradId IN
       /\ lrad \in DOMAIN LradConfig
       /\ written[i].to \in Addresses[LradConfig[lrad]]
  /\ \A i, j \in DOMAIN written :
       i < j => precedes(written[i].order, written[j].order)

target(order) == LradConfig[message(order).destinationLradId]

\* A host is resolved once: every command for a target goes to the address of
\* its first resolution, whatever failed, was reconnected or was resolved for
\* other targets in between.  A host that moves is not followed.
OneAddressPerTarget ==
  \A i, j \in DOMAIN written :
    target(written[i].order) = target(written[j].order)
      => written[i].to = written[j].to

\* The finished datagrams all of whose orders were ACKed.
committed ==
  { n \in 1..finished :
      \A i \in DOMAIN acks :
        acks[i].order[1] = n => acks[i].packet.ack_nack = AckAccepted }

\* The system state is that of the last configuration datagram that named the
\* LRAD and had every order ACKed; a datagram with a NACK changes nothing of
\* any LRAD, and one in progress nothing yet.
CommitsMatchAcks ==
  \A l \in Lrads :
    LET naming == { n \in committed :
                      updates_for(state_updates(received[n]), l) # {} }
    IN systemState.lradStates[l] =
         IF naming = {} THEN "absent"
         ELSE LET n == CHOOSE n \in naming : \A m \in naming : m <= n
              IN last_update(state_updates(received[n]), l)

\* What is left of a datagram in progress: of each command that is left, the
\* steps of its send and the report.
left_of_call ==
  [ none |-> 6, resolve |-> 5, check |-> 4, connect |-> 3, write |-> 2, done |-> 1 ]

left ==
  IF pc = "idle" THEN 0
  ELSE 6 * (Len(packets(current)) - index) + left_of_call[call.at] + 1

\* A datagram in progress comes closer to its end with every step that is made on
\* it, whatever the network does and whatever is posted in between: nothing is
\* tried twice, so a datagram of n commands has 6n + 1 steps at most, and only a
\* peer that stalls a write holds it up.
EveryHandlerStepAdvances ==
  [][ pc = "loop" /\ <<pc, index, call>>' # <<pc, index, call>>
        => 0 <= left' /\ left' < left ]_engineVars

\* Every datagram that was posted is handled to its end, unless the delivery
\* thread was stopped or died: no LRAD that stalls, refuses or vanishes holds
\* the queue for ever.
EveryDatagramHandled ==
  \A n \in 1..MaxDatagrams :
    Len(received) >= n ~> finished >= n \/ delivery # "running"

\* After the receive loop ended, the delivery thread comes to rest, so that
\* the join in the destructor of main's jthread returns, or the process died.
ShutdownCompletes ==
  ~receiving ~> delivery = "terminated" \/ (delivery = "stopped" /\ pc = "idle")

=============================================================================
