--------------------------- MODULE TcpSenderProofs ---------------------------
(***************************************************************************)
(* The safety properties of TcpSender hold for every set of endpoints and  *)
(* targets and for any number of network faults.                           *)
(***************************************************************************)
EXTENDS TcpSender, TLAPS

\* What the cache holds for a target is one of its addresses, and the endpoint
\* of a call that passed its resolution is the one cached for its target.
CacheInv ==
  /\ \A t \in Targets :
       endpoint_cache[t] # NoEndpoint => endpoint_cache[t] \in Addresses[t]
  /\ call.at \in {"check", "connect", "write"} =>
       /\ call.endpoint = endpoint_cache[call.target]
       /\ resolved
  /\ call.at = "resolve" => ~resolved

\* Where the call is tells what it did to the socket.
SocketInv ==
  /\ call.at = "connect" => socket.link = "none"
  /\ call.at = "write" => socket.open /\ socket.remote = call.endpoint
  /\ call.at = "done" /\ call.result.success => resolved /\ socket.remote = call.endpoint
  /\ call.at = "done" /\ ~call.result.success /\ resolved => socket.link = "none"

FailureInv ==
  call.at = "done" /\ ~resolved => endpoint_cache[call.target] = NoEndpoint

TcpInv == TcpTypeOK /\ CacheInv /\ SocketInv /\ FailureInv

----------------------------------------------------------------------------
\* The results that send() reports are of the type of IInterfaces.hpp.
LEMMA ResultsTyped ==
  /\ DefaultResult \in SendResult
  /\ Success \in SendResult
  /\ Success.success
  /\ Success.category = "none"
BY DEF DefaultResult, Success, SendResult, Categories

\* A failed connect or write yields a result.
LEMMA TransportFailureTyped ==
  ASSUME NEW e \in SystemErrors
  PROVE  /\ Failure(e, "system") \in SendResult
         /\ ~Failure(e, "system").success
         /\ Failure(e, "system").category = "system"
BY DEF Failure, SendResult, Categories

\* A failed resolution yields a result.
LEMMA ResolveFailureTyped ==
  ASSUME NEW r \in ResolveFailures
  PROVE  r \in SendResult /\ ~r.success
<1>1. CASE r = Failure("host_not_found", "asio.netdb")
  BY <1>1 DEF ResolverErrors, Failure, SendResult, Categories
<1>2. CASE r = Failure("no_endpoint", "resolver")
  BY <1>2 DEF ResolverErrors, Failure, SendResult, Categories
<1>3. ASSUME NEW e \in ResolveErrors, r = Failure(e, "system")
      PROVE  r \in SendResult /\ ~r.success
  BY <1>3, TransportFailureTyped, TcpConstants
<1> QED
  BY <1>1, <1>2, <1>3 DEF ResolveFailures

\* The constructor establishes the invariant, whether it connects or not.
LEMMA TcpInitInv == TcpInit => TcpInv
<1> SUFFICES ASSUME TcpInit PROVE TcpInv
  OBVIOUS
<1> USE TcpConstants
<1>1. call \in [ at : {"none", "resolve", "check", "connect", "write", "done"},
                 target : Targets, endpoint : Endpoints \cup {NoEndpoint},
                 result : SendResult ]
  BY ResultsTyped DEF TcpInit, NoCall
<1>2. CASE endpoint_cache = NoEndpoints /\ socket = ClosedSocket
  BY <1>1, <1>2 DEF TcpInit, TcpInv, TcpTypeOK, CacheInv, SocketInv, FailureInv,
    resolved, NoCall, NoEndpoints, ClosedSocket, Links
<1>3. ASSUME NEW e \in Addresses[DefaultTarget],
             endpoint_cache = [NoEndpoints EXCEPT ![DefaultTarget] = e],
             socket = IF e \in listening THEN ConnectedTo(e) ELSE OrphanSocket
      PROVE  TcpInv
  <2>1. e \in Endpoints
    OBVIOUS
  <2> QED
    BY <1>1, <1>3, <2>1 DEF TcpInit, TcpInv, TcpTypeOK, CacheInv, SocketInv,
      FailureInv, resolved, NoCall, NoEndpoints, ConnectedTo, OrphanSocket, Links
<1> QED
  BY <1>2, <1>3 DEF TcpInit

\* A step of send(): one case for each blocking call and decision.
LEMMA SendStepInv == TcpInv /\ SendStep => TcpInv'
<1> SUFFICES ASSUME TcpInv, SendStep PROVE TcpInv'
  OBVIOUS
<1> USE TcpConstants, ResultsTyped
<1> USE DEF TcpInv, TcpTypeOK, CacheInv, SocketInv, FailureInv, resolved, networkVars
<1>1. CASE CacheHit
  BY <1>1 DEF CacheHit
<1>2. ASSUME NEW e \in Endpoints, resolve_target_endpoint(e) PROVE TcpInv'
  BY <1>2 DEF resolve_target_endpoint
<1>3. CASE ResolveFails
  BY <1>3, ResolveFailureTyped DEF ResolveFails, ReturnWith
<1>4. CASE KeepConnection
  BY <1>4 DEF KeepConnection, need_reconnect
<1>5. CASE DropConnection
  BY <1>5 DEF DropConnection, ClosedSocket, Links
<1>6. CASE Connect
  BY <1>6 DEF Connect, ConnectedTo, Links
<1>7. CASE ConnectFails
  <2>1. PICK e \in ConnectErrors : ReturnWith(Failure(e, "system"))
    BY <1>7 DEF ConnectFails
  <2>2. call'.result = Failure(e, "system") /\ e \in SystemErrors
    BY <2>1 DEF ReturnWith
  <2> QED
    BY <1>7, <2>1, <2>2, TransportFailureTyped
      DEF ConnectFails, OrphanSocket, ReturnWith, Links
<1>8. CASE Write
  BY <1>8 DEF Write, ReturnWith
<1>9. CASE WriteFails
  <2>1. PICK e \in WriteErrors : ReturnWith(Failure(e, "system"))
    BY <1>9 DEF WriteFails
  <2>2. call'.result = Failure(e, "system") /\ e \in SystemErrors
    BY <2>1 DEF ReturnWith
  <2> QED
    BY <1>9, <2>1, <2>2, TransportFailureTyped
      DEF WriteFails, ClosedSocket, ReturnWith, Links
<1> QED
  BY <1>1, <1>2, <1>3, <1>4, <1>5, <1>6, <1>7, <1>8, <1>9 DEF SendStep

\* The network moves the link and never the peer of a connection.
LEMMA NetworkStepInv == TcpInv /\ NetworkStep => TcpInv'
<1> SUFFICES ASSUME TcpInv, NetworkStep PROVE TcpInv'
  OBVIOUS
<1> USE TcpConstants
<1> USE DEF TcpInv, TcpTypeOK, CacheInv, SocketInv, FailureInv, resolved, senderVars, Links
<1>1. ASSUME NEW e \in Endpoints, ListenerDown(e) \/ ListenerUp(e) PROVE TcpInv'
  BY <1>1 DEF ListenerDown, ListenerUp
<1>2. CASE PeerCloses
  BY <1>2 DEF PeerCloses, LinkStep
<1>3. CASE PeerStalls
  BY <1>3 DEF PeerStalls, LinkStep
<1>4. CASE PeerDrains
  BY <1>4 DEF PeerDrains, LinkStep
<1>5. CASE ResetArrives
  BY <1>5 DEF ResetArrives, LinkStep
<1> QED
  BY <1>1, <1>2, <1>3, <1>4, <1>5 DEF NetworkStep

\* A call starts and returns without touching the socket or the cache.
LEMMA CallInv ==
  ASSUME TcpInv, (\E t \in Targets : send(t)) \/ Return
  PROVE  TcpInv'
<1> USE TcpConstants, ResultsTyped
<1> USE DEF TcpInv, TcpTypeOK, CacheInv, SocketInv, FailureInv, resolved, networkVars, NoCall
<1>1. ASSUME NEW t \in Targets, send(t) PROVE TcpInv'
  BY <1>1 DEF send
<1>2. CASE Return
  BY <1>2 DEF Return
<1> QED
  BY <1>1, <1>2

\* A step that changes nothing of the sender or the network.
LEMMA TcpStutterInv == TcpInv /\ UNCHANGED tcpVars => TcpInv'
BY DEF TcpInv, TcpTypeOK, CacheInv, SocketInv, FailureInv, resolved, tcpVars

\* TcpInv is inductive over every step of a call and of the network.
LEMMA TcpNextInv == TcpInv /\ [TcpNext]_tcpVars => TcpInv'
BY SendStepInv, NetworkStepInv, CallInv, TcpStutterInv DEF TcpNext

\* The invariant that the theorems below rest on: the socket, the cache and
\* the place of the call agree, whatever the network does.
THEOREM TcpInvariant == TcpSpec => []TcpInv
BY TcpInitInv, TcpNextInv, PTL DEF TcpSpec

----------------------------------------------------------------------------
\* Type correctness of the sender.
THEOREM TcpTypeCorrect == TcpSpec => []TcpTypeOK
<1>1. TcpInv => TcpTypeOK
  BY DEF TcpInv
<1> QED
  BY <1>1, TcpInvariant, PTL

\* Whatever connection a call finds, it writes to an address of its target.
THEOREM WritesGoToTarget == TcpSpec => []WritesToTarget
<1>1. TcpInv => WritesToTarget
  BY DEF TcpInv, TcpTypeOK, CacheInv, SocketInv, resolved, WritesToTarget
<1> QED
  BY <1>1, TcpInvariant, PTL

\* The socket and the cache a call leaves agree with what it reports.
THEOREM OutcomesMatch == TcpSpec => []OutcomeMatchesSocket
<1>1. TcpInv => OutcomeMatchesSocket
  BY DEF TcpInv, SocketInv, FailureInv, resolved, OutcomeMatchesSocket
<1> QED
  BY <1>1, TcpInvariant, PTL

\* A connection with a live peer is dropped only for another destination.
THEOREM HealthyConnectionKept == TcpSpec => KeepsHealthyConnection
<1> DEFINE Kept ==
      socket.link \in {"up", "full"} /\ socket'.remote # socket.remote
        => call.endpoint # socket.remote
<1>1. ASSUME TcpInv, [TcpNext]_tcpVars PROVE [Kept]_tcpVars
  <2>1. CASE SendStep
    BY <1>1, <2>1 DEF SendStep, CacheHit, resolve_target_endpoint, ResolveFails,
      KeepConnection, DropConnection, Connect, ConnectFails, Write, WriteFails,
      need_reconnect, remote_endpoint_fails, TcpInv, TcpTypeOK, SocketInv
  <2>2. CASE NetworkStep
    BY <1>1, <2>2 DEF NetworkStep, ListenerDown, ListenerUp, PeerCloses,
      PeerStalls, PeerDrains, ResetArrives, LinkStep, senderVars, TcpInv, TcpTypeOK
  <2>3. CASE (\E t \in Targets : send(t)) \/ Return
    BY <2>3 DEF send, Return
  <2> QED
    BY <1>1, <2>1, <2>2, <2>3 DEF TcpNext
<1> QED
  BY <1>1, TcpInvariant, PTL DEF TcpSpec, KeepsHealthyConnection

=============================================================================
