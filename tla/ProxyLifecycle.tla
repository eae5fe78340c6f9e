---------------------------- MODULE ProxyLifecycle ----------------------------
(***************************************************************************)
(* main: how the program reads its configuration, starts, runs and ends,   *)
(* with the delivery thread beside it.                                     *)
(*                                                                         *)
(* main's local objects are constructed in the order of their declarations *)
(* and destroyed in the reverse order, when main leaves the scope by its   *)
(* end or by an exception: "alive" counts those that exist.  The delivery  *)
(* thread executes the posted handlers one by one; what a handler does is  *)
(* ProxyEngine's matter, here it takes time and uses the objects.          *)
(***************************************************************************)
EXTENDS Integers, Sequences, AppConfig

CONSTANTS
  Documents,  \* what the configuration file may hold
  Literals,   \* the strings that are IP addresses
  MaxQueue    \* bound: how many handlers wait at a time

ASSUME QueueBound == MaxQueue \in Nat

\* A JSON array is a finite list.
ASSUME DocumentsAreParsed ==
  \A doc \in Documents :
    doc.kind = "object" /\ doc.lrad_destinations.kind = "array" =>
      /\ Len(doc.lrad_destinations.elements) \in Nat
      /\ DOMAIN doc.lrad_destinations.elements = 1..Len(doc.lrad_destinations.elements)

VARIABLES
  document,    \* the configuration file; Missing: unreadable, or not JSON
  config,      \* what was read of it so far; Missing before the first section
  next_entry,  \* the entry of lrad_destinations the loading is at
  mode,        \* where main is
  alive,       \* how many of Locals exist
  thrown,      \* main is left by an exception
  guard,       \* delivery_work_guard holds work
  stopped,     \* delivery_io_ctx was stopped
  queue,       \* handlers posted to delivery_io_ctx and not started
  worker       \* the delivery thread

configVars == <<document, config, next_entry>>

lifecycleVars == <<configVars, mode, alive, thrown, guard, stopped, queue, worker>>

Locals ==
  << "rx_io_ctx", "delivery_io_ctx", "delivery_work_guard", "delivery_thread",
     "receiver", "sender", "converter", "system_state", "ack_sender", "engine" >>

position(object) == CHOOSE i \in DOMAIN Locals : Locals[i] = object

exists(object) == alive >= position(object)

\* Opening the socket, binding it or joining the group fails with an exception.
\* The other constructors report their errors and go on.
Throwing == {"receiver"}

\* The receiver makes addresses of two strings of the configuration.
receiver_accepts(cfg) == {cfg.udp_listen_ip, cfg.udp_multicast_group} \subseteq Literals

LifecycleInit ==
  /\ document \in Documents \cup {Missing}
  /\ config = Missing
  /\ next_entry = 1
  /\ mode = "loading"
  /\ alive = 0
  /\ thrown = FALSE
  /\ guard = FALSE
  /\ stopped = FALSE
  /\ queue = 0
  /\ worker = "none"

----------------------------------------------------------------------------
(* The main thread.  loadAppConfig: the sections, then the loop over the    *)
(* list of LRADs, then the test that there was one.                        *)

destinations == document.lrad_destinations.elements

LoadSections ==
  /\ mode = "loading"
  /\ sections_valid(document)
  /\ config' = read_sections(document)
  /\ mode' = "listing"
  /\ UNCHANGED <<document, next_entry, alive, thrown, guard, stopped, queue, worker>>

LoadDestination ==
  /\ mode = "listing"
  /\ next_entry \in DOMAIN destinations
  /\ destination_valid(destinations[next_entry])
  /\ config' = [config EXCEPT !.lrad_destinations =
                    assign_lrad(@, destinations[next_entry])]
  /\ next_entry' = next_entry + 1
  /\ UNCHANGED <<document, mode, alive, thrown, guard, stopped, queue, worker>>

LoadEnds ==
  /\ mode = "listing"
  /\ next_entry \notin DOMAIN destinations
  /\ config.lrad_destinations # <<>>
  /\ mode' = "constructing"
  /\ UNCHANGED <<configVars, alive, thrown, guard, stopped, queue, worker>>

\* A section or an entry is refused, or there was no entry.
LoadThrows ==
  /\ \/ mode = "loading" /\ ~sections_valid(document)
     \/ /\ mode = "listing"
        /\ next_entry \in DOMAIN destinations
        /\ ~destination_valid(destinations[next_entry])
     \/ /\ mode = "listing"
        /\ next_entry \notin DOMAIN destinations
        /\ config.lrad_destinations = <<>>
  /\ mode' = "leaving"
  /\ thrown' = TRUE
  /\ config' = Missing
  /\ UNCHANGED <<document, next_entry, alive, guard, stopped, queue, worker>>

\* Mutant: no work guard.
ConstructWithoutGuard ==
  /\ mode = "constructing"
  /\ alive < Len(Locals)
  /\ Locals[alive + 1] \in Throwing => receiver_accepts(config)
  /\ alive' = alive + 1
  /\ worker' = IF Locals[alive + 1] = "delivery_thread" THEN "waiting" ELSE worker
  /\ UNCHANGED <<configVars, mode, thrown, guard, stopped, queue>>

Construct ==
  /\ mode = "constructing"
  /\ alive < Len(Locals)
  /\ Locals[alive + 1] \in Throwing => receiver_accepts(config)
  /\ alive' = alive + 1
  /\ guard' = (guard \/ Locals[alive + 1] = "delivery_work_guard")
  /\ worker' = IF Locals[alive + 1] = "delivery_thread" THEN "waiting" ELSE worker
  /\ UNCHANGED <<configVars, mode, thrown, stopped, queue>>

ConstructThrows ==
  /\ mode = "constructing"
  /\ alive < Len(Locals)
  /\ Locals[alive + 1] \in Throwing
  /\ mode' = "leaving"
  /\ thrown' = TRUE
  /\ UNCHANGED <<configVars, alive, guard, stopped, queue, worker>>

\* engine.run() arms the receive loop, and rx_io_ctx.run() executes it.
Run ==
  /\ mode = "constructing"
  /\ alive = Len(Locals)
  /\ mode' = "running"
  /\ UNCHANGED <<configVars, alive, thrown, guard, stopped, queue, worker>>

Post ==
  /\ mode = "running"
  /\ queue < MaxQueue
  /\ queue' = queue + 1
  /\ UNCHANGED <<configVars, mode, alive, thrown, guard, stopped, worker>>

\* A receive error leaves rx_io_ctx without work.
ReceiveEnds ==
  /\ mode = "running"
  /\ mode' = "resetting"
  /\ UNCHANGED <<configVars, alive, thrown, guard, stopped, queue, worker>>

\* Mutant: main leaves without a stop.
LeaveAtOnce ==
  /\ mode = "resetting"
  /\ mode' = "leaving"
  /\ UNCHANGED <<configVars, alive, thrown, guard, stopped, queue, worker>>

ResetGuard ==
  /\ mode = "resetting"
  /\ guard' = FALSE
  /\ mode' = "stopping"
  /\ UNCHANGED <<configVars, alive, thrown, stopped, queue, worker>>

Stop ==
  /\ mode = "stopping"
  /\ stopped' = TRUE
  /\ mode' = "leaving"
  /\ UNCHANGED <<configVars, alive, thrown, guard, queue, worker>>

Destroy ==
  /\ mode = "leaving"
  /\ alive > 0
  /\ Locals[alive] # "delivery_thread"
  /\ alive' = alive - 1
  /\ guard' = (guard /\ Locals[alive] # "delivery_work_guard")
  /\ queue' = IF Locals[alive] = "delivery_io_ctx" THEN 0 ELSE queue
  /\ UNCHANGED <<configVars, mode, thrown, stopped, worker>>

\* Mutant: the thread is detached.
Detach ==
  /\ mode = "leaving"
  /\ alive > 0
  /\ Locals[alive] = "delivery_thread"
  /\ alive' = alive - 1
  /\ UNCHANGED <<configVars, mode, thrown, guard, stopped, queue, worker>>

\* The destructor of the jthread joins.  It asks the thread to stop by a token
\* that the thread does not look at.
Join ==
  /\ mode = "leaving"
  /\ alive > 0
  /\ Locals[alive] = "delivery_thread"
  /\ worker = "returned"
  /\ alive' = alive - 1
  /\ UNCHANGED <<configVars, mode, thrown, guard, stopped, queue, worker>>

\* The handler of the exception is entered when all objects are gone.
Exit ==
  /\ mode = "leaving"
  /\ alive = 0
  /\ mode' = IF thrown THEN "failed" ELSE "exited"
  /\ UNCHANGED <<configVars, alive, thrown, guard, stopped, queue, worker>>

MainStep ==
  \/ LoadSections
  \/ LoadDestination
  \/ LoadEnds
  \/ LoadThrows
  \/ Construct
  \/ ConstructThrows
  \/ Run
  \/ Post
  \/ ReceiveEnds
  \/ ResetGuard
  \/ Stop
  \/ Destroy
  \/ Join
  \/ Exit

----------------------------------------------------------------------------
(* The delivery thread, in delivery_io_ctx.run().                          *)

Over == {"failed", "exited", "terminated"}

\* Mutant: a handler is taken from an empty queue.
StartAnyHandler ==
  /\ worker = "waiting"
  /\ mode \notin Over
  /\ ~stopped
  /\ queue' = queue - 1
  /\ worker' = "handling"
  /\ UNCHANGED <<configVars, mode, alive, thrown, guard, stopped>>

\* Mutant: the stop does not keep the thread from the handlers that wait.
StartAfterStop ==
  /\ worker = "waiting"
  /\ mode \notin Over
  /\ queue > 0
  /\ queue' = queue - 1
  /\ worker' = "handling"
  /\ UNCHANGED <<configVars, mode, alive, thrown, guard, stopped>>

StartHandler ==
  /\ worker = "waiting"
  /\ mode \notin Over
  /\ ~stopped
  /\ queue > 0
  /\ queue' = queue - 1
  /\ worker' = "handling"
  /\ UNCHANGED <<configVars, mode, alive, thrown, guard, stopped>>

HandlerReturns ==
  /\ worker = "handling"
  /\ mode \notin Over
  /\ worker' = "waiting"
  /\ UNCHANGED <<configVars, mode, alive, thrown, guard, stopped, queue>>

\* An exception of the handler, or the use of an object that is gone.
HandlerTerminates ==
  /\ worker = "handling"
  /\ mode \notin Over
  /\ mode' = "terminated"
  /\ UNCHANGED <<configVars, alive, thrown, guard, stopped, queue, worker>>

RunReturns ==
  /\ worker = "waiting"
  /\ mode \notin Over
  /\ stopped \/ (queue = 0 /\ ~guard)
  /\ worker' = "returned"
  /\ UNCHANGED <<configVars, mode, alive, thrown, guard, stopped, queue>>

WorkerStep == StartHandler \/ HandlerReturns \/ HandlerTerminates \/ RunReturns

LifecycleNext == MainStep \/ WorkerStep

LifecycleSpec == LifecycleInit /\ [][LifecycleNext]_lifecycleVars

\* Both threads keep running.  Nobody owes a datagram or a receive error, so
\* those two are not in the fair steps of main.
LifecycleFairSpec ==
  /\ LifecycleSpec
  /\ WF_lifecycleVars(MainStep /\ mode # "running")
  /\ WF_lifecycleVars(WorkerStep)

----------------------------------------------------------------------------
(* Properties.                                                             *)

\* All but the table is, from the sections on, what they say.
ConfigTypeOK ==
  /\ document \in Documents \cup {Missing}
  /\ next_entry \in Nat \ {0}
  /\ config # Missing =>
       /\ sections_valid(document)
       /\ config = [read_sections(document) EXCEPT
                       !.lrad_destinations = config.lrad_destinations]

ThreadTypeOK ==
  /\ mode \in { "loading", "listing", "constructing", "running", "resetting",
                "stopping", "leaving" } \cup Over
  /\ alive \in 0..Len(Locals)
  /\ thrown \in BOOLEAN
  /\ guard \in BOOLEAN
  /\ stopped \in BOOLEAN
  /\ queue \in 0..MaxQueue
  /\ worker \in {"none", "waiting", "handling", "returned"}

\* The type invariant.
LifecycleTypeOK == ConfigTypeOK /\ ThreadTypeOK

\* On every way out, by the end or by an exception at any point of the start,
\* the delivery thread has left its context before the context is destroyed.
ContextOutlivesWorker ==
  worker \in {"waiting", "handling"} => exists("delivery_io_ctx")

\* The delivery thread serves as long as datagrams may arrive: an idle moment,
\* at the start or between two datagrams, does not end it.
WorkerServes == mode \in {"constructing", "running"} => worker # "returned"

\* The entries of the configuration file that name an LRAD.
entries_of(id) == {i \in DOMAIN destinations : int_of(destinations[i].id) = id}

\* No component is built on a configuration that is not sound: every port can be
\* used as one, ACKs go where the file says, and the routing table has each LRAD
\* that the file names, at the address of the last entry that names it, and no
\* other (AppConfig.cpp:53-91).
RunsOnSoundConfig ==
  alive > 0 =>
    /\ { config.udp_multicast_port, config.tcp_default_target_port,
         config.ack_target_port } \subseteq 1..MaxPort
    /\ document.ack.kind = "object" => config.ack_target_ip = document.ack.ip.text
    /\ DOMAIN config.lrad_destinations =
         {int_of(destinations[i].id) : i \in DOMAIN destinations}
    /\ \A id \in DOMAIN config.lrad_destinations :
         /\ config.lrad_destinations[id].port \in 1..MaxPort
         /\ \E last \in entries_of(id) :
              /\ \A i \in entries_of(id) : i <= last
              /\ config.lrad_destinations[id] = read_destination(destinations[last])

\* After the receive loop ended, the process ends: the stop reaches the delivery
\* thread, whatever it is doing, and the join returns.
OrderlyExitCompletes == mode = "resetting" ~> mode \in {"exited", "terminated"}

\* "In caso di uscita ordinata, fermiamo il worker di delivery" (main.cpp:73):
\* the worker has stopped when the objects it uses are destroyed.
WorkerStoppedFirst == worker = "handling" => exists("engine")

\* catch prints "[CRITICAL ERROR]" and returns 1 (main.cpp:77-79): an exception
\* at the start ends the program, with that report.
StartupErrorsReported == thrown ~> mode = "failed"

\* The values that the file gives for a port.
port_values ==
  { document.udp.multicast_port, document.tcp.default_target_port,
    ack_section(document).port } \cup
  {destinations[i].port : i \in DOMAIN destinations}

\* "porte fuori range 1-65535 causano errore all'avvio" (README.md:174): no
\* component is built while a port of the file is a number out of that range.
PortsOutOfRangeRejected ==
  alive > 0 =>
    \A v \in port_values :
      v.kind = "number" => v.turns = 0 /\ v.rest \in 1..MaxPort

=============================================================================
