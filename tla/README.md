# CMS_Proxy: specification, model checking and proofs

CMS_Proxy receives binary orders of a combat system over UDP, converts each into JSON commands for
acoustic devices (LRADs), sends the commands over TCP and reports every order with an ACK or a NACK
over UDP. This directory specifies the program in TLA+, checks the specification with TLC on small
instances and proves its main safety properties with TLAPS for all instances. Paths such as
`src/TcpSender.cpp:130` are relative to the root of the repository.

## 1. The system

| Component | State it keeps | Operations | Talks to |
|---|---|---|---|
| `UdpMulticastReceiver` | socket, 4096-byte buffer, callback | `start`, `do_receive` (re-arms itself unless there was an error), `stop` (no caller) | calls the engine's callback on the main thread |
| `ProxyEngine` | the routing table `lrad_config_` | the callback posts to the delivery context; `processPacket` converts, sends, reports, commits | converter, sender, ACK sender, system state |
| `BinaryConverter` | the constant dispatch table | `convert`, four handlers, the ACK builder | none (pure) |
| `TcpSender` | one socket for all LRADs, `endpoint_cache_` | constructor (first connection), `send` (resolve, check, connect, write; all blocking) | resolver, LRADs |
| `SystemState` | mode and per-LRAD state under a mutex | `getSnapshot`, `apply` (no caller), `applyBatch` | none |
| `UdpAckSender` | socket, target, ready flag | `send_ack` | the combat system |
| `AppConfig` | none | `loadAppConfig` | `main` |
| `CueingMath` | none | `mod360`, `cartesian2target` (two more without a caller) | the cueing handler |
| `main` | two `io_context`s, work guard, delivery thread | startup, receive loop, stop, destruction | all of them |
| `scripts/` | - | manual test tools: a sender of datagrams, a TCP receiver | the proxy |

Two threads run. The main thread runs the receive loop, and posts every datagram to the delivery
context; the delivery thread runs `processPacket` on one datagram after another, and blocks in the
sender. They share the queue of the delivery context. The peers and the network are a third actor: they
move between any two calls of the sender.

What is hard here:

* **One socket, many LRADs.** `send` decides whether to keep the connection it finds
  (`src/TcpSender.cpp:130-148`), and the connection may be closed, reset or stalled after the decision.
* **One verdict, many sends.** A configuration datagram is a loop of sends with a report after each and
  one commit at the end (`src/ProxyEngine.cpp:99-127`); a datagram may fail in part.
* **Exactly one report per order** on all the ways a send can end (no route, no address, no connection,
  failed write, success).
* **A single delivery thread without timeouts**: a stalled LRAD delays every other one.
* **Errors that end the program**: a receive error ends the receive loop
  (`src/UdpMulticastReceiver.cpp:50`), an exception ends the delivery thread and with it the process.
* **Shutdown**: the queue is dropped, the running handler is not interrupted, the join waits for it.
* **Reports over UDP**: a report may be lost, repeated or overtaken, and the ACK socket may never have been ready.
* **Float loops**: `mod360` adds and subtracts full turns until the angle is in range (`CueingMathCpp.cpp:8-13`).
* **Narrowed numbers**: ports and ids are read as `int` before their range is tested (`src/AppConfig.cpp:20`).

The list `hazards` of PROJECT.json has each at its line, with the properties that would catch it, or the reason why there is none: several are
the design of the program, which no statement of the repository contradicts.

## 2. The modules

| Module | Models | Extends |
|---|---|---|
| `Interfaces` | `SendResult` of `IInterfaces.hpp` | |
| `SystemState` | the map of LRAD states and `applyBatch` | |
| `BinaryConverter` | `convert`, the handlers, `map_nack_reason`, `build_ack_packet` (operators) | `Interfaces`, `SystemState` |
| `TcpSender` | the sender, its socket, the network | `Interfaces` |
| `ProxyEngine` | both threads, `processPacket`, the queue, the stop | `TcpSender`, `BinaryConverter` |
| `OrderBridge` | abstract specification: what the proxy promises to the combat system | |
| `DeliveryContext` | abstract specification: what `main` and the engine rely on when handlers are posted to the delivery thread | |
| `EngineRefinement` | the refinement mappings from `ProxyEngine` to `OrderBridge` and to `DeliveryContext` | `ProxyEngine`, instantiates both |
| `UdpAckSender` | the ACK socket and what may leave it | |
| `Reporting` | the engine composed with the ACK sender | `EngineRefinement`, `UdpAckSender` |
| `CueingOrder` | the handler of a cueing order with `mod360`, `cartesian2target` and the encoding of a delta | |
| `AppConfig` | `loadAppConfig`: what it tests of the JSON document and what it makes of each part (operators) | |
| `ProxyLifecycle` | `main`: the loading of the configuration, construction, the exceptions at startup, the stop, destruction and join, beside the delivery thread | `AppConfig` |
| `LifecycleRefinement` | the refinement mapping from `ProxyLifecycle` to `DeliveryContext` | `ProxyLifecycle`, instantiates `DeliveryContext` |
| `DocumentedClaims` | statements of the README and of comments that the code refutes | `ProxyEngine` |
| `MCTcpSender`, `MCProxyEngine`, `MCReporting`, `MCCueingOrder`, `MCProxyLifecycle` | the instances TLC checks | |
| `TcpSenderProofs` | proofs about the sender | `TcpSender` |
| `ProxyEngineProofs`, `ReportProofs`, `DeliveryProofs`, `CommitProofs` | proofs about the engine, each on the one before | `ProxyEngine` |
| `BridgeProofs` | the two refinements, and what the packets prove to the combat system | `CommitProofs`, `Reporting` |
| `CueingProofs` | proofs about cueing orders | `CueingOrder` |
| `LifecycleProofs` | proofs about the lifecycle | `LifecycleRefinement` |

### TcpSender

`socket` is `socket_`: whether it is open, the address it is connected to (`remote`), and `link`, what the
network knows of the connection and the process does not. `endpoint_cache` is `endpoint_cache_`. `call` is
the activation of `send()`: where it is, and its locals. A call goes `resolve` (`CacheHit`,
`resolve_target_endpoint`, `ResolveFails`), `check` (`KeepConnection`, `DropConnection`), `connect`
(`Connect`, `ConnectFails`), `write` (`Write`, `WriteFails`), `done` (`Return`): one action for each system
call that blocks, because the network moves in between. `ListenerDown/Up`, `PeerCloses`, `PeerStalls`,
`PeerDrains` and `ResetArrives` are that network. A peer that is gone leaves the link `dead` until the
socket is told (`reset`): a write on a dead link may be accepted, and is lost. Where an operating system
answers `remote_endpoint()` even after a reset, the behaviour is that of a reset that arrives after the
check, which the model has.

`DefaultTarget` is what the constructor dials. `NamedTargets` are the targets whose host may fail to
resolve: the host is not known, it has no address, or the look-up itself fails (`ResolveErrors`). `Addresses[t]` are the addresses that resolving `t` may put first.

### ProxyEngine

`received` is every datagram that was posted, and `taken` how many of them `processPacket` was started on;
what is past `taken` is the queue of the delivery context. `pc`, `index` and `allSendsSucceeded` are the
loop. `acks` is what was handed to the ACK sender, each with the order it reports, and `written` what the
socket accepted, and where: both are the program's output. An order `<<n, i>>` is the i-th command of the
n-th datagram.

`processPacket` is one action for each early return (`Ignore`, `AckOnly`; `ConvertThrows` where the
exception of `dump()` leaves the thread), `BeginCommands` into the loop, then for each command `Unrouted`, or
`StartSend`, the sender's own steps (`Sending`) and `SendReturns`; `Finish` commits. The conversion, the look
into the routing table and the report happen on the delivery thread without a step of anybody else that
they could notice, and are part of the action they precede or follow. `Receive`, `ReceiveError` and
`StopDelivery` are the main thread. After the stop `main` destroys the objects that a running handler uses: `HandlerTerminates` lets the
process die at any point of that handler, and it may also go on to its end.

### OrderBridge and EngineRefinement

`OrderBridge` knows no network, no socket and no loop. Datagrams are accepted, and the next one is discarded, confirmed
(ACKed without a delivery), ends the program, or is begun and then settled: in one step each of its orders is delivered and ACKed,
or NACKed and not delivered, and the belief about the LRADs takes the updates of the datagram exactly if all orders were ACKed. An LRAD that
is not configured is never reached. After the service ceased nothing is begun; what was begun may be settled or abandoned.

`EngineRefinement` maps the engine to it. `done` is the number of finished datagrams, `busy` is `pc = "loop"`, `belief` is
`systemState`, and the sets of orders are those of `written` and `acks` cut to the finished datagrams: what the loop has written and reported of the
datagram it is at is invisible until `Finish`, which is the step `Settle`. All the steps of the sender, the network and the
loop stutter.

### UdpAckSender and Reporting

The constructor leaves the socket ready or not, once and for all. `send_ack` lets a packet leave (`Leaves`), or not (`Dropped`): the socket
is not ready, `send_to` fails, or the target is IPv6, for which a socket opened with `udp::v4()` cannot send. `ack_network` is the set of the packets
that left. UDP may lose, repeat and reorder them, so that any part of that set, at any time, is what the combat system has:
a property of every member of the set is a property of whatever arrives. `Reporting` joins it to the engine: the step that appends to `acks` is the
step that calls `send_ack`.

### CueingOrder

The conversion of one cueing order as a state machine, one step for each turn of a loop of `mod360` and for each piece of the handler
between two calls. An angle is a whole number of units of `1/Degree` of a degree, or NaN. A sum of floats is the constant operator `Round` of the exact sum.
`FloatArithmetic` assumes of it what float addition guarantees for these values: it moves a sum by at most `Error`, keeps 0, and does not move a sum
over 0 or out of `-360..360`, because 0 and 360 are floats. The comparisons are exact, and false for NaN, as in C++. The results of the
two `atan2` are inputs, over their whole range. `codes` is `lround` and the cut to 16 bits; `lround(NaN)` is unspecified, and any of `UnspecifiedCodes`.

### AppConfig

The operators say, for each part of the document, whether it passes the tests of `loadAppConfig` (`udp_valid`, `tcp_valid`, `ack_valid`,
`destination_valid`) and what it is read as (`read_sections`, `read_destination`). A number is
`turns * 2^32 + rest`, and `rest` is what `get<int>()` keeps: the range is tested on `rest` only. `assign_lrad` is the
assignment `cfg.lrad_destinations[id] = lrad`. The order in which the document is gone through is in `ProxyLifecycle`.

### ProxyLifecycle

The same two threads seen from `main`, with the objects they live on. `Locals` are `main`'s local objects in the order of
their declarations; `alive` counts those that exist. `Construct` adds the next, `Destroy` and `Join` remove the last: C++
destroys in the reverse order, at the end of the scope and when an exception leaves it (`thrown`). The first steps of `main` are
those of `loadAppConfig`: `LoadSections` tests and reads the sections, `LoadDestination` one entry of the list of LRADs (`next_entry`), `LoadEnds` returns if there
was one, and `LoadThrows` leaves by the exception at whichever of them it is. The receiver's constructor throws if an address of the configuration is not one
(`receiver_accepts`), and may throw for other reasons. `guard`, `stopped` and
`queue` are the state of the delivery context that decides whether `run()` returns, `worker` is the delivery thread. A handler takes
time; what it does is `ProxyEngine`'s matter. It ends, because every call of the sender returns and the shutdown
completes (`EveryCallReturns`, `ShutdownCompletes`), or it terminates the process. `ProxyEngine` has `ResetGuard` and
`Stop` as the one step `StopDelivery`: between them the delivery thread can at most find its queue empty and return, which it
could do a step later too.

### DeliveryContext and LifecycleRefinement

`ProxyEngine` knows what a handler does, `ProxyLifecycle` how the thread is started, stopped and joined. `DeliveryContext` is what each
takes from the other: handlers are posted while the receive loop accepts datagrams, begun one at a time and in any number of steps ended; after `StopContext`, which follows the
end of the posting, those that wait are dropped and none is begun; a handler may take the process with it (`DieInHandler`). Both specifications implement
it. In `EngineRefinement` a handler is the loop of `processPacket`, and the early returns are `BriefHandler`s; `StopDelivery` is `StopContext`. In `LifecycleRefinement` `Stop` is
`StopContext`, while `ResetGuard`, the loading, the construction and the destruction stutter. That the two models of the stop agree is what the two theorems say.

### BinaryConverter, SystemState, Interfaces

A datagram is the message id, the length its header declares, the bytes that arrived, the fields of each
8-byte block of the payload and whether the free text is UTF-8: all that the control flow and the properties
tell apart. The numbers of blocks, the minimal sizes, the check of the declared length (a lower bound only)
and the place of the action id in the JSON are as in the code. The error numbers are named;
`system_error` models that a resolver's number is read again in the system category.

An operator or action whose comment calls it a mutant is a plausible wrong version of the definition that
follows it. It is not part of any specification: replacing the definition by it must make TLC report the
property that PROJECT.json pairs it with, so that every property is known to be able to fail.

## 3. The runs

| Run | Instance | Shows |
|---|---|---|
| `tcp_sender` | 2 targets (a literal, a name with two addresses), 3 endpoints, 2 faults, calls without end | the connection that is written to is the call's own; outcomes agree with the socket that is left; a healthy connection is kept; every call returns; the sender recovers |
| `engine` | 2 configured LRADs behind 2 targets, one of them a name with two addresses, and one that is not configured, 2 datagrams out of 9 kinds, 1 fault | types, one report per order, truthful reports, routing, one address per target, commits, every handler advances; the engine implements `OrderBridge` and `DeliveryContext` |
| `reporting` | the engine with the ACK sender; 2 LRADs behind one endpoint, as in `config/network_config.json`, whose host may fail to resolve; 2 datagrams out of 4 kinds, 2 faults, ACK targets that are unusable, IPv4 and IPv6, fairness | the packets are evidence; every datagram is handled to its end; the shutdown completes |
| `cueing` | all bearings and elevations in steps of 1/8 degree, sizes around every limit, kinematics types 0 to 5, cueing types 0 to 2, NaN, fairness | angles in range, the direction kept, no read past the end; every step advances; every order ends |
| `lifecycle` | the shipped configuration file and those that differ from it in one place, up to 3 waiting handlers, fairness | the program runs on a sound configuration only; the delivery thread serves through idle moments and outlives no context; `main` and the thread implement `DeliveryContext`; the process ends after a receive error |
| `worker_stopped`, `startup_errors`, `ports` | the same files, 1 waiting handler | each refutes a documented statement, see section 6 |
| `engagement_tracks_orders`, `ack_carries_action_id`, `malformed_payload`, `unresolved_host` | 1 datagram | each refutes a documented statement, see section 6 |

**Bounds.** `MaxFaults` bounds how often the network fails. Two faults are a connection lost unseen and a
refused reconnection, or a failure in each of two sends; the calls themselves are not bounded in
`tcp_sender`, whose state space is finite without it. `MaxDatagrams` bounds how many datagrams arrive. Two are
enough for a datagram to be received while another is processed, for the state of the loop to leak from one
to the next and for a connection to be left by one LRAD to another. The second address of the
named target is the address of the other LRAD, so that a second resolution would be told apart, and a connection taken for another one would not. A datagram has at most two commands in the runs: the first to succeed and the
second to fail, and the other way round. `MaxQueue` bounds how many handlers wait in the lifecycle: none,
one and several are the cases that a stop tells apart. The datagrams of `reporting` are those that are reported in different ways: in part, as a
whole, never (the program dies) and without a send. In `cueing` the unit of 1/8 degree makes every case of the loops and of the rounding happen: angles that
need a turn, sums that round up to 360 (units above 128 degrees are rounded to every second one, as floats lose a bit there) and
halves of a degree; a finer unit adds angles, no case. The configuration files change one place each, because the tests are made one after another
and each ends the loading; the pairs that interact, the two ACK sections and the ids of several entries, are changed together. The proofs have none of
these bounds.

**Deadlock** is not checked in the engine's and the lifecycle's runs: the program really stops, after a receive error,
when the delivery thread dies, or waiting in a join, and the conversion of a cueing order ends. It is checked in `tcp_sender`.

**Fairness.** `WF(SendStep \/ Return)`, `WF(processPacket)` and `WF(StopDelivery)`: a thread of the program
that can take a step takes one; the delivery thread executes one handler at a time, so that weak fairness of
all its steps together is enough. `WF(ResetArrives)`: TCP gives up retransmitting to a peer that is gone and
tells the socket. `WF(PeerDrains)` is an assumption about the LRADs, not about the program: a live LRAD that
stopped reading reads again or closes. It is needed: `write` has no timeout (`src/TcpSender.cpp:164`), so a peer
that stays connected and never reads blocks the delivery to every LRAD. Nothing is assumed of listeners, of the
arrival of datagrams or of receive errors. `Recovers` assumes in its premise that all endpoints listen in the end.
In the lifecycle `WF(MainStep /\ mode # "running")` and `WF(WorkerStep)`: both threads keep running. While `main` is in the receive loop
nothing is owed, neither a datagram nor a receive error.
`ReportingFairSpec` is the fairness of the engine: nobody owes that a packet leaves. `CueingFairSpec` is `WF(CueingNext)`: the delivery thread runs a
handler to its end.

## 4. The properties

* `WritesToTarget`, `RoutedToConfiguredLrad`: no command goes to another LRAD's address, whatever connection the
  previous command left, at most once, and in order.
* `OutcomeMatchesSocket`: a success leaves the connection to the target, a failure after the resolution leaves none, a failed
  resolution leaves no cache entry. That is what makes the next call dial or resolve again. Whether a call was resolved shows in its endpoint, not in the category of
  its error: a look-up may fail with a system error, as a connection may.
* `KeepsHealthyConnection`: the connection to a live peer is given up only for another destination.
* `Recovers`: once the network is well, what is written is written on a live connection. The socket is closed or
  recognised as broken on every path, or one failure would poison the sender for ever.
* `OneReportPerOrder`, `AcksAreTruthful`: every order is reported once, in order, and ACKed exactly if the socket
  accepted its command. ACK does not mean that the LRAD has the command: see the `dead` link.
* `CommitsMatchAcks`: the system state is that of the last configuration datagram that named the LRAD and had all its
  orders ACKed, and of nothing else.
* `OneAddressPerTarget`: whatever failed, was reconnected or was resolved for others in between, all commands for a target go to the address of its
  first resolution. A stale entry is the price; that it is never mixed with a fresh one is the property.
* `EngineKeepsContext`, `WorkerKeepsContext`: the two views of the delivery thread, from the engine and from `main`, are views of the same thing.
  For the engine it says no more than `ImplementsBridge` fixes, in the terms of what `main` relies on.
* `EveryHandlerStepAdvances`: what is left of a datagram in progress, at most `6n + 1` steps for `n` commands, shrinks with every step on it, and no step of the
  network or of the main thread makes it grow. No failure is retried, and no path through `send` goes back.
* `EveryStepAdvances`: the same of a conversion and its at most 21 steps. A loop of `mod360` turns at most once, however sums are rounded, and looks once more.
* `EveryCallReturns`, `EveryDatagramHandled`, `ShutdownCompletes`: progress.
* `ContextOutlivesWorker`: whichever way `main` is left, the delivery thread is out of `run()` before its context is gone. It rests on the
  order of three declarations.
* `WorkerServes`: the delivery thread does not return while datagrams may arrive, although its queue is mostly empty.
* `ImplementsBridge`: seen from outside, datagrams are settled one at a time and each as a whole, although their execution is
  spread over many steps between which the network changes and the main thread may end.
* `PacketsAreEvidence`: a packet that arrives, however late, however often and whatever else was lost, is true of an order that has its action id: an
  ACK of one that was delivered, or is a cancellation, a NACK of one that was not. A packet carries no more than the action id
  and the message id, and for all kinds but an emission order the action id is 0: the property says that there is such an order, since the combat system cannot
  always tell which.
* `DirectionKept`: the angles of a command are those of the order's position on the circle, within the errors of the sums, and
  within half a degree more in a DELTA; 359.5 goes to 360, which is the same direction. An order without a position points to 0.
* `AnglesNormalized`: the angles of a MOVE are in [0, 360), although the first loop of `mod360` may end on 360 itself.
* `ReadsInside`: what is read of a datagram, which depends on its kinematics type, was checked against its size.
* `EveryOrderConverted`: the loops end, also for a NaN, because a comparison with it is false.
* `RunsOnSoundConfig`: every port in use is one, the ACKs go where `ack` says if the file has it, and the routing table has the last entry of each LRAD that
  the file names, and nothing else.
* `OrderlyExitCompletes`: after a receive error the join returns, whether the delivery thread waits or works.

## 5. What is proved

All theorems hold for every value of the constants that satisfies the named assumptions: `TcpConstants` (addresses
and targets are consistent), `DatagramsAreBytes` (a datagram fits the buffer and has the blocks its bytes make up), `EngineConstants`
(the routing table maps LRADs to targets), for the lifecycle `DocumentsAreParsed` (a JSON array is a finite list) and `QueueBound`, and for cueing orders `FloatArithmetic` and `OrdersArePositions`.

* `TcpSenderProofs`: `TcpTypeCorrect`, `WritesGoToTarget`, `OutcomesMatch`, `HealthyConnectionKept`. The inductive
  invariant adds to `TcpTypeOK` that every cache entry is an address of its target, and what holds at each place of
  a call: at `check` the endpoint is one of the target's and is in the cache, at `connect` the socket is closed, at
  `write` it is open and connected, in the past at least, to the call's endpoint. `WritesToTarget` alone is not inductive: it
  depends on what the check saw, and on the network never changing `remote`.
* `ProxyEngineProofs`: `EngineUsesSender` (every behaviour of the engine is a behaviour of `TcpSpec`: a step of the engine
  is a step of the sender or leaves it alone), which carries the sender's theorems over to the engine, and
  `EngineTypeCorrect`. `HandlersAdvance`: the measure of a send is its place on the way from `resolve` to `done`, that of a datagram is 6 for each command that is
  left and the place of the one it is at. A step of the sender lowers the first, a report the second, and the steps of the others change neither.
* `ReportProofs`: `OneReportForEachOrder`. The reported orders are exactly the orders up to the place the loop is at. Each
  step that moves the place appends the one report of the order that it passes; the sequence stays strictly sorted because a
  new order comes after all that are due.
* `DeliveryProofs`: `ReportsAreTrue`, `CommandsAreRouted`. The invariant links the three: while a call is `done` with a success, and
  only then, `written` is ahead of `acks` by the order the loop is at. `TargetsKeepTheirAddress`: what was written for a target went to the address in the
  cache, which is there as long as the target has been written to. A cache entry is only ever made where there is none, and at `connect` and `write` the call's endpoint is
  the cached one.
* `CommitProofs`: `StateFollowsAcks`. The property speaks of finished datagrams; the invariant adds that in the loop the flag
  `allSendsSucceeded` tells whether the reports of this datagram so far were all ACKs. A step that finishes a datagram changes the state
  expected of exactly the LRADs that the datagram names, because it is the last one.
* `LifecycleProofs`: `LifecycleTypeCorrect`, `ContextIsSafe`, `WorkerKeepsServing`. The invariant: the thread is in its context only while its
  `jthread` object exists, which lies above the context on the stack of objects; and from before the thread starts until the receive
  loop has ended the guard holds work and nothing was stopped. `WorkerRunsInContext` maps each step of `main` and of the thread to a step of `DeliveryContext` or
  a stutter; `QueueInv` says why the destruction of a context with its queue drops nothing that the stop has not dropped: before the receive loop nothing was posted, and `main` leaves by the stop or with an empty queue.
  `ConfigIsSound`: at each entry the table read so far has, for each id among the entries passed, the last of them with that id, and nothing else; `assign_lrad`
  keeps this when the entry is passed. Since the loading goes entry by entry, this is an invariant of steps and no induction over the list is needed.
* `BridgeProofs`, `EngineImplementsBridge`. The conjunction of the four invariants above is inductive; under it each action of the engine is mapped. Four lemmas
  are about one kind of step each: the main thread, the taking of a datagram, the loop (nothing that the bridge sees changes, since what is written and reported
  belongs to a datagram past `done`), and `Finish`. The last is the work: the witness for `ok` is the set of the orders of the datagram that were written, which by
  `AcksAreTruthful` are those that were ACKed, by `OneReportPerOrder` the others were NACKed, and by the flag's invariant it is all of them exactly if the
  updates are applied.
* `BridgeProofs`, `EngineRunsInContext`. The types, with the order of the stop: while datagrams are received the delivery thread serves. It is the engine's half of what `WorkerRunsInContext` says of `main`.
* `BridgeProofs`, `PacketsTellTheTruth`. The invariant adds that every report carries the numbers of its own order, and that what left is among what was
  reported; the rest is `OneReportPerOrder` and `AcksAreTruthful`.
* `CueingProofs`: `CueingTypeCorrect`, `AnglesAreNormalized`, `DirectionIsKept`, `ReadsAreInside`, `ConversionsAdvance`, from `FloatArithmetic` and `OrdersArePositions`. The inductive
  invariant says, at each place of the handler, how far the current angle may be from the one it stands for: one `Error` for each rounded sum so far, of which
  there are at most two for an azimuth (the bearing and one turn) and one for an elevation, and that an angle once in [0, 360) is not changed by
  a second normalisation. That there is at most one turn follows from the range of the arcus tangents, and from it
  `ConversionsAdvance`.

Every invariant and every action property of the passing runs is proved, and so are the three refinements. Only model-checked are the six liveness properties (`EveryCallReturns`,
`Recovers`, `EveryDatagramHandled`, `ShutdownCompletes`, `EveryOrderConverted`, `OrderlyExitCompletes`): progress under fairness is out of the prover's reach. `HandlersAdvance` and
`ConversionsAdvance` are the part of it that can be proved: the steps of a handler are bounded, so that it ends if it keeps taking steps. That the next step can be taken (a stalled peer drains
or is reset) and is taken (fairness) is what TLC checks.

## 6. Where the documents and the code differ

* `EngagementTracksOrders`: "RELEASE/REQ cambia lo stato di engagement del LRAD." (`src/BinaryConverter.cpp:262`). If one of
  several sends of a datagram fails, none of its updates is applied (`src/ProxyEngine.cpp:125`), those of the LRADs that were
  reached and ACKed neither.
* `AckCarriesActionId`: the ACK has an `action_id` (`README.md:126`), and the cueing command carries it under `param`
  (`README.md:96`); the code writes it under `meta` (`src/BinaryConverter.cpp:407`), the engine does not find it, and the ACK
  carries 0.
* `MalformedPayloadDiscarded`: a malformed payload is discarded without ACK (`README.md:40`); a free text that is not UTF-8 makes
  `dump()` throw (`src/BinaryConverter.cpp:208`), and nothing catches it on the delivery thread. A text cut at 768 bytes within a
  character is enough.
* `UnresolvedHostIsReason2`: reason 2 stands for a wrong address (`README.md:134`); for a resolver's error the code computes 0
  (`src/BinaryConverter.cpp:130`).

* `WorkerStoppedFirst`: "In caso di uscita ordinata, fermiamo il worker di delivery." (`src/main.cpp:73`). `stop()` does not wait for the
  handler that runs, and the objects it uses are destroyed before the thread is joined: they are declared after it.
* `StartupErrorsReported`: `catch` prints "[CRITICAL ERROR]" and returns 1 (`src/main.cpp:77-79`). If the receiver's constructor throws, the
  join of the delivery thread comes first, and the guard is still alive: `main` hangs and prints nothing.
* `PortsOutOfRangeRejected`: "porte fuori range `1-65535` causano errore all'avvio" (`README.md:174`). The range is tested on what an `int` keeps of the number
  (`src/AppConfig.cpp:20`): 4294976296 is taken for 9000.

Not worth a run: README.md:48 and 215 speak of three message ids, the code handles four; the cueing JSON of README.md:88 is
not the one the code writes.

## 7. What is not modelled

* The arcus tangents and the overflow of `x * x` in `cartesian2target`: floating point. The model takes every result that `atan2` can have. The range it computes has
  no reader.
* Functions and parts without a caller: `Polar2D`, `polar2catesian`, `SystemState::apply` and `getLastUpdatedMs`, `UdpMulticastReceiver::stop`,
  `BinaryConverter::mapMasterMode`, the branch of `cartesian2target` for a heading, the value of `TcpSender::set_unicast_target`. The snapshot that
  `processPacket` takes is not read by `convert`, so that the order of the two fields of `SystemState` against readers is not modelled.
* Partial TCP writes: a write that fails after some bytes is a failed write. The bytes that were sent remain on a connection that is closed.
* An exception of `close()` (`src/TcpSender.cpp:109-169` calls the overload that may throw), the resolver's internals, the single
  system calls of the receiver's constructor (they are one step that may throw).
* The wording of the JSON, of exceptions and of logs; the ranges of values that are copied unread.
* The scripts: test tools, no part of the program. `scripts/tcp_receiver.py` reads a stream of commands without framing; what a device makes of it is not in
  this repository.
* The loss and the repetition of datagrams on the way in need no actions of their own: the engine accepts any datagram at any time, any number of times.
