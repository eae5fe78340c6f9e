------------------------------ MODULE TcpSender ------------------------------
(***************************************************************************)
(* TcpSender: one TCP socket shared by every LRAD, and a cache of resolved *)
(* hosts that is never invalidated.                                        *)
(*                                                                         *)
(* send() runs on the delivery thread and blocks in resolve, connect and   *)
(* write.  The network moves between those calls, so each of them is an    *)
(* action of its own and the peers' actions interleave with them.          *)
(*                                                                         *)
(* socket.link is what the network knows of the connection and the process *)
(* does not:                                                               *)
(*   none   there is no connection                                         *)
(*   up     the peer reads                                                 *)
(*   full   the peer is alive and has stopped reading: a write blocks      *)
(*   dead   the peer is gone, and the socket has not been told: a write    *)
(*          may still be accepted, and is lost                             *)
(*   reset  the socket has been told: remote_endpoint() and write fail     *)
(***************************************************************************)
EXTENDS Integers, FiniteSets, Interfaces

CONSTANTS
  Endpoints,      \* addresses a host can resolve to
  NoEndpoint,
  Targets,        \* the host:port keys of the configuration
  Addresses,      \* Addresses[t]: what resolving t may yield
  NamedTargets,   \* targets whose host is a name: resolving it can fail
  DefaultTarget,  \* tcp.default_target_ip:tcp.default_target_port
  ResolveErrors,  \* system errors that resolving a name may end in
  ConnectErrors,
  WriteErrors,
  MaxFaults       \* bound: how often the network may fail

ASSUME TcpConstants ==
  /\ NoEndpoint \notin Endpoints
  /\ Addresses \in [Targets -> SUBSET Endpoints]
  /\ NamedTargets \subseteq Targets
  /\ DefaultTarget \in Targets
  /\ ResolveErrors \subseteq SystemErrors
  /\ ConnectErrors \subseteq SystemErrors
  /\ WriteErrors \subseteq SystemErrors
  /\ MaxFaults \in Nat

VARIABLES
  socket,          \* socket_
  endpoint_cache,  \* endpoint_cache_: NoEndpoint where there is no entry
  call,            \* the activation of send(): where it is and its locals
  listening,       \* external: endpoints that accept connections
  faults           \* external: how often the network has failed

senderVars == <<socket, endpoint_cache, call>>
networkVars == <<listening, faults>>
tcpVars == <<socket, endpoint_cache, call, listening, faults>>

Links == {"none", "up", "full", "dead", "reset"}

NoEndpoints == [t \in Targets |-> NoEndpoint]

ClosedSocket == [open |-> FALSE, remote |-> NoEndpoint, link |-> "none"]

\* A socket that asio opened for a connect that failed: open, not connected.
OrphanSocket == [open |-> TRUE, remote |-> NoEndpoint, link |-> "none"]

ConnectedTo(e) == [open |-> TRUE, remote |-> e, link |-> "up"]

NoCall ==
  [ at |-> "none", target |-> DefaultTarget,
    endpoint |-> NoEndpoint, result |-> DefaultResult ]

----------------------------------------------------------------------------
(* The constructor resolves the default target, and connects if it can.    *)

TcpInit ==
  /\ listening \in SUBSET Endpoints
  /\ faults = 0
  /\ call = NoCall
  /\ \/ /\ DefaultTarget \in NamedTargets
        /\ endpoint_cache = NoEndpoints
        /\ socket = ClosedSocket
     \/ \E e \in Addresses[DefaultTarget] :
          /\ endpoint_cache = [NoEndpoints EXCEPT ![DefaultTarget] = e]
          /\ socket = IF e \in listening THEN ConnectedTo(e) ELSE OrphanSocket

----------------------------------------------------------------------------
(* send(), step by step.                                                   *)

send(t) ==
  /\ call.at = "none"
  /\ call' = [NoCall EXCEPT !.at = "resolve", !.target = t]
  /\ UNCHANGED <<socket, endpoint_cache, networkVars>>

ReturnWith(result) == call' = [call EXCEPT !.at = "done", !.result = result]

CacheHit ==
  /\ call.at = "resolve"
  /\ endpoint_cache[call.target] # NoEndpoint
  /\ call' = [call EXCEPT !.at = "check",
                          !.endpoint = endpoint_cache[call.target]]
  /\ UNCHANGED <<socket, endpoint_cache, networkVars>>

\* Mutant: the cache does not keep what was resolved.
resolve_without_cache(e) ==
  /\ call.at = "resolve"
  /\ endpoint_cache[call.target] = NoEndpoint
  /\ e \in Addresses[call.target]
  /\ call' = [call EXCEPT !.at = "check", !.endpoint = e]
  /\ UNCHANGED <<socket, endpoint_cache, networkVars>>

\* Only the first endpoint the resolver yields is ever tried.
resolve_target_endpoint(e) ==
  /\ call.at = "resolve"
  /\ endpoint_cache[call.target] = NoEndpoint
  /\ e \in Addresses[call.target]
  /\ endpoint_cache' = [endpoint_cache EXCEPT ![call.target] = e]
  /\ call' = [call EXCEPT !.at = "check", !.endpoint = e]
  /\ UNCHANGED <<socket, networkVars>>

\* The host is not known, it has no address, or the look-up itself failed.
ResolveFailures ==
  { Failure("host_not_found", "asio.netdb"), Failure("no_endpoint", "resolver") }
    \cup { Failure(e, "system") : e \in ResolveErrors }

ResolveFails ==
  /\ call.at = "resolve"
  /\ endpoint_cache[call.target] = NoEndpoint
  /\ call.target \in NamedTargets
  /\ \E result \in ResolveFailures : ReturnWith(result)
  /\ UNCHANGED <<socket, endpoint_cache, networkVars>>

remote_endpoint_fails(s) == s.link \in {"none", "reset"}

\* Mutants: any connection will do; the connection is never kept; a socket
\* that is closed is not looked at.
need_reconnect_any_peer(s, target_endpoint) == ~s.open \/ remote_endpoint_fails(s)

need_reconnect_always(s, target_endpoint) == TRUE

need_reconnect_if_open(s, target_endpoint) ==
  s.open /\ (remote_endpoint_fails(s) \/ s.remote # target_endpoint)

need_reconnect(s, target_endpoint) ==
  ~s.open \/ remote_endpoint_fails(s) \/ s.remote # target_endpoint

KeepConnection ==
  /\ call.at = "check"
  /\ ~need_reconnect(socket, call.endpoint)
  /\ call' = [call EXCEPT !.at = "write"]
  /\ UNCHANGED <<socket, endpoint_cache, networkVars>>

DropConnection ==
  /\ call.at = "check"
  /\ need_reconnect(socket, call.endpoint)
  /\ socket' = ClosedSocket
  /\ call' = [call EXCEPT !.at = "connect"]
  /\ UNCHANGED <<endpoint_cache, networkVars>>

Connect ==
  /\ call.at = "connect"
  /\ call.endpoint \in listening
  /\ socket' = ConnectedTo(call.endpoint)
  /\ call' = [call EXCEPT !.at = "write"]
  /\ UNCHANGED <<endpoint_cache, networkVars>>

\* Mutant: a refused connection is tried again until it is accepted.
ConnectRetries ==
  /\ call.at = "connect"
  /\ call.endpoint \notin listening
  /\ socket' = OrphanSocket
  /\ UNCHANGED <<call, endpoint_cache, networkVars>>

ConnectFails ==
  /\ call.at = "connect"
  /\ call.endpoint \notin listening
  /\ socket' = OrphanSocket
  /\ \E e \in ConnectErrors : ReturnWith(Failure(e, "system"))
  /\ UNCHANGED <<endpoint_cache, networkVars>>

\* A blocked write ("full") is not enabled.
Write ==
  /\ call.at = "write"
  /\ socket.link \in {"up", "dead"}
  /\ ReturnWith(Success)
  /\ UNCHANGED <<socket, endpoint_cache, networkVars>>

\* Mutants: a failed write is tried again on a new connection; the socket is
\* kept after it; it is only marked closed.
WriteRetries ==
  /\ call.at = "write"
  /\ socket.link \in {"none", "dead", "reset"}
  /\ socket' = ClosedSocket
  /\ call' = [call EXCEPT !.at = "connect"]
  /\ UNCHANGED <<endpoint_cache, networkVars>>

WriteFailsKeepsSocket ==
  /\ call.at = "write"
  /\ socket.link \in {"none", "dead", "reset"}
  /\ \E e \in WriteErrors : ReturnWith(Failure(e, "system"))
  /\ UNCHANGED <<socket, endpoint_cache, networkVars>>

WriteFailsHalfCloses ==
  /\ call.at = "write"
  /\ socket.link \in {"none", "dead", "reset"}
  /\ socket' = [socket EXCEPT !.open = FALSE]
  /\ \E e \in WriteErrors : ReturnWith(Failure(e, "system"))
  /\ UNCHANGED <<endpoint_cache, networkVars>>

WriteFails ==
  /\ call.at = "write"
  /\ socket.link \in {"none", "dead", "reset"}
  /\ socket' = ClosedSocket
  /\ \E e \in WriteErrors : ReturnWith(Failure(e, "system"))
  /\ UNCHANGED <<endpoint_cache, networkVars>>

Return ==
  /\ call.at = "done"
  /\ call' = NoCall
  /\ UNCHANGED <<socket, endpoint_cache, networkVars>>

\* The steps of a call between its start and its outcome.
SendStep ==
  \/ CacheHit
  \/ \E e \in Endpoints : resolve_target_endpoint(e)
  \/ ResolveFails
  \/ KeepConnection
  \/ DropConnection
  \/ Connect
  \/ ConnectFails
  \/ Write
  \/ WriteFails

----------------------------------------------------------------------------
(* The peers and the network between them and the proxy.                   *)

ListenerDown(e) ==
  /\ faults < MaxFaults
  /\ e \in listening
  /\ listening' = listening \ {e}
  /\ faults' = faults + 1
  /\ UNCHANGED senderVars

ListenerUp(e) ==
  /\ e \in Endpoints \ listening
  /\ listening' = listening \cup {e}
  /\ UNCHANGED <<senderVars, faults>>

LinkStep(from, to) ==
  /\ socket.link \in from
  /\ socket' = [socket EXCEPT !.link = to]
  /\ UNCHANGED <<endpoint_cache, call, listening>>

PeerCloses ==
  faults < MaxFaults /\ faults' = faults + 1 /\ LinkStep({"up", "full"}, "dead")

PeerStalls ==
  faults < MaxFaults /\ faults' = faults + 1 /\ LinkStep({"up"}, "full")

PeerDrains == LinkStep({"full"}, "up") /\ UNCHANGED faults

\* A RST, or TCP giving up its retransmissions.
ResetArrives == LinkStep({"dead"}, "reset") /\ UNCHANGED faults

NetworkStep ==
  \/ \E e \in Endpoints : ListenerDown(e) \/ ListenerUp(e)
  \/ PeerCloses
  \/ PeerStalls
  \/ PeerDrains
  \/ ResetArrives

----------------------------------------------------------------------------
TcpNext ==
  \/ \E t \in Targets : send(t)
  \/ SendStep
  \/ Return
  \/ NetworkStep

TcpSpec == TcpInit /\ [][TcpNext]_tcpVars

\* The delivery thread keeps running.  Of the network: a live peer that
\* stalled reads again or closes, and TCP reports a dead peer in the end.
\* Listeners owe nothing.
NetworkFairness == WF_tcpVars(PeerDrains) /\ WF_tcpVars(ResetArrives)

TcpFairSpec == TcpSpec /\ WF_tcpVars(SendStep \/ Return) /\ NetworkFairness

----------------------------------------------------------------------------
(* Properties.                                                             *)

\* The type invariant.  A socket that is not open has no connection, and a
\* connection has a peer.
TcpTypeOK ==
  /\ socket \in [ open   : BOOLEAN,
                  remote : Endpoints \cup {NoEndpoint},
                  link   : Links ]
  /\ socket.link = "none" <=> socket.remote = NoEndpoint
  /\ ~socket.open => socket.link = "none"
  /\ endpoint_cache \in [Targets -> Endpoints \cup {NoEndpoint}]
  /\ call \in [ at       : {"none", "resolve", "check", "connect", "write", "done"},
                target   : Targets,
                endpoint : Endpoints \cup {NoEndpoint},
                result   : SendResult ]
  /\ listening \subseteq Endpoints
  /\ faults \in 0..MaxFaults

\* The one socket is shared by every LRAD: when send() reaches the write, the
\* socket is connected to an address of the target this call was made for,
\* and to no other, whatever connection the previous call left behind and
\* whatever the network did since.
WritesToTarget ==
  call.at = "write" =>
    /\ socket.open
    /\ socket.remote = call.endpoint
    /\ call.endpoint \in Addresses[call.target]

\* The host of a call was resolved: only then has the call an endpoint.
resolved == call.endpoint # NoEndpoint

\* What a call reports agrees with the socket it leaves to the next call: a
\* success leaves the connection to the target; a failure after the resolution
\* leaves no connection, so the next call dials again; a failed resolution,
\* whatever category its error has, leaves no cache entry, so the next call
\* resolves again.
OutcomeMatchesSocket ==
  call.at = "done" =>
    /\ call.result.success => resolved /\ socket.remote = call.endpoint
    /\ resolved /\ ~call.result.success => socket.link = "none"
    /\ ~resolved => endpoint_cache[call.target] = NoEndpoint

\* A connection whose peer is alive is given up only for another destination.
KeepsHealthyConnection ==
  [][ (socket.link \in {"up", "full"} /\ socket'.remote # socket.remote)
        => call.endpoint # socket.remote ]_tcpVars

\* Every call of send() returns: it blocks the delivery thread, so one that
\* did not would stop the delivery to every LRAD.
EveryCallReturns == call.at = "resolve" ~> call.at = "done"

\* Once the network has stopped failing and every endpoint listens, what is
\* written is written on a live connection: no failure, and no connection
\* lost unseen, keeps the sender from finding its way back.
Recovers ==
  <>[](listening = Endpoints) =>
    <>[](call.at = "write" => socket.link \in {"up", "full"})

=============================================================================
