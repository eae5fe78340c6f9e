--------------------------- MODULE LifecycleProofs ---------------------------
(***************************************************************************)
(* main and the delivery thread, for a queue of any length: the thread     *)
(* serves as long as datagrams may arrive, and leaves its context before   *)
(* the context is destroyed; and for a configuration file of any length:   *)
(* what is built is built on what the file says.                           *)
(***************************************************************************)
EXTENDS LifecycleRefinement, TLAPS

Serving == {"waiting", "handling"}

\* What exists where main is, and what keeps the delivery thread in its
\* context: the guard, from before the thread is started until the receive loop
\* has ended.
PlaceInv ==
  /\ mode \in {"loading", "listing"} => alive = 0 /\ worker = "none"
  /\ mode \in {"running", "resetting", "stopping"} => alive = 10
  /\ mode \in {"loading", "listing", "constructing", "running"} => ~stopped
  /\ mode \in {"constructing", "running"} /\ alive >= 3 => guard

\* The thread runs only while its jthread object exists, which is the fourth.
ThreadInv ==
  /\ worker \in Serving => alive >= 4
  /\ WorkerServes

LifecycleInv == ThreadTypeOK /\ PlaceInv /\ ThreadInv

\* The places of main's objects in the order of their declarations.
LEMMA LocalsFacts ==
  /\ Len(Locals) = 10
  /\ Locals[2] = "delivery_io_ctx"
  /\ \A i \in 1..10 : /\ Locals[i] = "delivery_io_ctx" <=> i = 2
                      /\ Locals[i] = "delivery_work_guard" <=> i = 3
                      /\ Locals[i] = "delivery_thread" <=> i = 4
BY DEF Locals

\* The context of the delivery thread is the second object of main.
LEMMA ContextPosition == position("delivery_io_ctx") = 2
<1>1. DOMAIN Locals = 1..10
  BY DEF Locals
<1>2. \A i \in DOMAIN Locals : Locals[i] = "delivery_io_ctx" <=> i = 2
  BY <1>1, LocalsFacts
<1>3. 2 \in DOMAIN Locals
  BY <1>1
<1> QED
  BY <1>2, <1>3 DEF position

\* The program starts in the invariant.
LEMMA LifecycleStarts == LifecycleInit => LifecycleInv
<1> SUFFICES ASSUME LifecycleInit PROVE LifecycleInv
  OBVIOUS
<1>1. mode = "loading" /\ alive = 0 /\ queue = 0 /\ worker = "none"
  BY DEF LifecycleInit
<1>2. thrown \in BOOLEAN /\ guard \in BOOLEAN /\ stopped \in BOOLEAN /\ ~stopped
  BY ZenonT(10) DEF LifecycleInit
<1>3. ThreadTypeOK
  BY <1>1, <1>2, QueueBound, LocalsFacts DEF ThreadTypeOK
<1>4. PlaceInv /\ ThreadInv
  BY <1>1, <1>2 DEF PlaceInv, ThreadInv, WorkerServes, Serving
<1> QED
  BY <1>3, <1>4 DEF LifecycleInv

\* A step of main keeps the invariant.
LEMMA MainKeeps ==
  ASSUME LifecycleInv, MainStep
  PROVE  LifecycleInv'
<1> USE QueueBound, LocalsFacts
    DEF LifecycleInv, ThreadTypeOK, PlaceInv, ThreadInv, WorkerServes, Serving, Over
<1>1. CASE LoadSections \/ LoadDestination \/ LoadEnds
  BY <1>1 DEF LoadSections, LoadDestination, LoadEnds
<1>2. CASE LoadThrows
  BY <1>2 DEF LoadThrows
<1>3. CASE Construct
  <2>1. mode' = mode /\ mode = "constructing" /\ alive' = alive + 1 /\ alive' \in 1..10
    BY <1>3 DEF Construct
  <2>2. (guard => guard') /\ (Locals[alive'] = "delivery_work_guard" => guard')
    BY <1>3, <2>1, Zenon DEF Construct
  <2>3. alive' >= 3 => guard'
    BY <2>1, <2>2
  <2>4. guard' \in BOOLEAN /\ thrown' \in BOOLEAN /\ stopped' \in BOOLEAN /\ ~stopped'
    BY <1>3, Zenon DEF Construct
  <2>5. /\ queue' = queue
        /\ worker' = IF alive' = 4 THEN "waiting" ELSE worker
    BY <1>3, <2>1 DEF Construct
  <2>6. ThreadTypeOK'
    BY <2>1, <2>4, <2>5
  <2> QED
    BY <2>1, <2>3, <2>4, <2>5, <2>6
<1>4. CASE ConstructThrows
  BY <1>4 DEF ConstructThrows
<1>5. CASE Run
  BY <1>5 DEF Run
<1>6. CASE Post
  BY <1>6 DEF Post
<1>7. CASE ReceiveEnds
  BY <1>7 DEF ReceiveEnds
<1>8. CASE ResetGuard
  BY <1>8 DEF ResetGuard
<1>9. CASE Stop
  BY <1>9 DEF Stop
<1>10. CASE Destroy
  BY <1>10 DEF Destroy
<1>11. CASE Join
  BY <1>11 DEF Join
<1>12. CASE Exit
  BY <1>12 DEF Exit
<1> QED
  BY <1>1, <1>2, <1>3, <1>4, <1>5, <1>6, <1>7, <1>8, <1>9, <1>10, <1>11, <1>12
     DEF MainStep

\* A step of the delivery thread keeps the invariant.
LEMMA WorkerKeeps ==
  ASSUME LifecycleInv, WorkerStep
  PROVE  LifecycleInv'
<1> USE QueueBound, LocalsFacts
    DEF LifecycleInv, ThreadTypeOK, PlaceInv, ThreadInv, WorkerServes, Serving, Over
<1>1. CASE StartHandler
  BY <1>1 DEF StartHandler
<1>2. CASE HandlerReturns
  BY <1>2 DEF HandlerReturns
<1>3. CASE HandlerTerminates
  BY <1>3 DEF HandlerTerminates
<1>4. CASE RunReturns
  BY <1>4 DEF RunReturns
<1> QED
  BY <1>1, <1>2, <1>3, <1>4 DEF WorkerStep

\* The invariant holds in every state of the program.
THEOREM LifecycleInvariant == LifecycleSpec => []LifecycleInv
<1>1. LifecycleInv /\ UNCHANGED lifecycleVars => LifecycleInv'
  BY DEF lifecycleVars, LifecycleInv, ThreadTypeOK, PlaceInv, ThreadInv,
         WorkerServes, Serving, Over
<1>2. LifecycleInv /\ [LifecycleNext]_lifecycleVars => LifecycleInv'
  BY <1>1, MainKeeps, WorkerKeeps DEF LifecycleNext
<1> QED
  BY <1>2, LifecycleStarts, PTL DEF LifecycleSpec

----------------------------------------------------------------------------
(* The configuration.                                                      *)

table == config.lrad_destinations

sections_filled == [read_sections(document) EXCEPT !.lrad_destinations = table]

last_before(n, id, i) ==
  /\ i \in 1..(n - 1)
  /\ int_of(destinations[i].id) = id
  /\ \A j \in 1..(n - 1) : int_of(destinations[j].id) = id => j <= i

\* The table, when the loop is at entry n, is that of the entries before it.
TableOf(n) ==
  /\ \A i \in 1..(n - 1) : destination_valid(destinations[i])
  /\ DOMAIN table = {int_of(destinations[i].id) : i \in 1..(n - 1)}
  /\ \A id \in DOMAIN table :
       \E i \in 1..(n - 1) :
         last_before(n, id, i) /\ table[id] = read_destination(destinations[i])

NothingRead ==
  /\ config = Missing
  /\ alive = 0
  /\ mode \in {"loading", "leaving"} \cup Over
  /\ mode = "loading" => next_entry = 1

\* The list was read up to its end before anything is constructed.
SectionsRead ==
  /\ mode # "loading"
  /\ sections_valid(document)
  /\ config = sections_filled
  /\ next_entry <= Len(destinations) + 1
  /\ TableOf(next_entry)
  /\ mode # "listing" => next_entry = Len(destinations) + 1

ConfigInv ==
  /\ document \in Documents \cup {Missing}
  /\ next_entry \in Nat \ {0}
  /\ NothingRead \/ SectionsRead

\* A document whose sections are in order has a list.
LEMMA ListTyped ==
  ASSUME document \in Documents \cup {Missing}, sections_valid(document)
  PROVE  Len(destinations) \in Nat /\ DOMAIN destinations = 1..Len(destinations)
<1>1. document.kind = "object" /\ document.lrad_destinations.kind = "array"
  BY DEF sections_valid
<1>2. document # Missing
  BY <1>1 DEF Missing
<1> QED
  BY <1>1, <1>2, DocumentsAreParsed DEF destinations

\* Until the sections are read there is no table.
LEMMA LoadSectionsKeeps ==
  ASSUME ConfigInv, LoadSections
  PROVE  ConfigInv'
<1>1. /\ mode' = "listing"
      /\ document' = document
      /\ next_entry' = next_entry
      /\ next_entry = 1
      /\ sections_valid(document)
      /\ config' = read_sections(document)
  BY DEF LoadSections, ConfigInv, NothingRead, SectionsRead
<1>2. table' = <<>> /\ config' = [read_sections(document) EXCEPT !.lrad_destinations = table']
  BY <1>1 DEF table, read_sections
<1>3. Len(destinations) \in Nat
  BY <1>1, ListTyped DEF ConfigInv
<1>4. destinations' = destinations
  BY <1>1 DEF destinations
<1>5. TableOf(next_entry)'
  BY <1>1, <1>2 DEF TableOf
<1>6. SectionsRead'
  <2>1. next_entry' <= Len(destinations') + 1
    BY <1>1, <1>3, <1>4
  <2>2. mode' # "loading" /\ mode' = "listing"
    BY <1>1
  <2> QED
    BY <1>1, <1>2, <1>5, <2>1, <2>2, Zenon DEF SectionsRead, sections_filled
<1> QED
  BY <1>1, <1>6 DEF ConfigInv

\* One turn of the loop: the entry is now the last of its LRAD.
LEMMA LoadDestinationKeeps ==
  ASSUME ConfigInv, LoadDestination
  PROVE  ConfigInv'
<1>0. PICK n \in Nat \ {0} : n = next_entry
  BY DEF ConfigInv
<1> DEFINE item == destinations[n]
           lrad == int_of(item.id)
<1>1. /\ mode = "listing" /\ mode' = "listing"
      /\ document' = document
      /\ next_entry' = n + 1
      /\ n \in DOMAIN destinations
      /\ destination_valid(item)
      /\ config' = [config EXCEPT !.lrad_destinations = assign_lrad(@, item)]
  BY <1>0 DEF LoadDestination
<1>2. SectionsRead
  BY <1>1 DEF ConfigInv, NothingRead, Over
<1>3. DOMAIN destinations = 1..Len(destinations) /\ Len(destinations) \in Nat
  BY <1>2, ListTyped DEF ConfigInv, SectionsRead
<1>4. destinations' = destinations
  BY <1>1 DEF destinations
<1>5. n \in Nat \ {0} /\ n <= Len(destinations)
  BY <1>0, <1>1, <1>3
<1>6. /\ table' = assign_lrad(table, item)
      /\ config' = [read_sections(document) EXCEPT !.lrad_destinations = table']
  BY <1>1, <1>2 DEF table, SectionsRead, sections_filled, read_sections
<1>7. /\ DOMAIN table' = DOMAIN table \cup {lrad}
      /\ \A id \in DOMAIN table' :
           table'[id] = IF id = lrad THEN read_destination(item) ELSE table[id]
  BY <1>6, Zenon DEF assign_lrad
<1>8. TableOf(n)
  BY <1>0, <1>2 DEF SectionsRead
<1> HIDE DEF item, lrad
<1>9. TableOf(n + 1)'
  <2>1. \A i \in 1..n : destination_valid(destinations[i])
    BY <1>1, <1>5, <1>8 DEF TableOf, item
  <2>2. DOMAIN table' = {int_of(destinations[i].id) : i \in 1..n}
    BY <1>5, <1>7, <1>8 DEF TableOf, lrad, item
  <2>3. ASSUME NEW id \in DOMAIN table'
        PROVE  \E i \in 1..n :
                 /\ last_before(n + 1, id, i)
                 /\ table'[id] = read_destination(destinations[i])
    <3>1. CASE id = lrad
      <4>1. last_before(n + 1, id, n)
        BY <1>5, <3>1 DEF last_before, lrad, item
      <4> QED
        BY <1>5, <1>7, <2>3, <3>1, <4>1 DEF item
    <3>2. CASE id # lrad
      <4>1. id \in DOMAIN table /\ table'[id] = table[id]
        BY <1>7, <2>3, <3>2
      <4>2. PICK i \in 1..(n - 1) :
              last_before(n, id, i) /\ table[id] = read_destination(destinations[i])
        BY <1>8, <4>1 DEF TableOf
      <4>3. last_before(n + 1, id, i)
        BY <1>5, <3>2, <4>2 DEF last_before, lrad, item
      <4> QED
        BY <1>5, <4>1, <4>2, <4>3
    <3> QED
      BY <3>1, <3>2
  <2>4. (n + 1) - 1 = n
    BY <1>5
  <2> QED
    BY <1>4, <2>1, <2>2, <2>3, <2>4 DEF TableOf, last_before
<1>10. SectionsRead'
  <2>1. TableOf(next_entry)' /\ next_entry' <= Len(destinations') + 1
    BY <1>1, <1>4, <1>5, <1>9 DEF TableOf, last_before
  <2> QED
    BY <1>1, <1>2, <1>6, <2>1, Zenon DEF SectionsRead, sections_filled
<1> QED
  BY <1>1, <1>5, <1>10 DEF ConfigInv

\* What was read is still what the file says.
LEMMA ReadStays ==
  ASSUME SectionsRead, UNCHANGED configVars, mode' # "loading",
         mode' # "listing" => next_entry = Len(destinations) + 1
  PROVE  SectionsRead'
<1>1. document' = document /\ config' = config /\ next_entry' = next_entry
  BY DEF configVars
<1>2. table' = table /\ destinations' = destinations
  BY <1>1 DEF table, destinations
<1>3. sections_filled' = sections_filled
  BY <1>1, <1>2, Zenon DEF sections_filled
<1>4. TableOf(next_entry)'
  BY <1>1, <1>2 DEF SectionsRead, TableOf, last_before
<1>5. next_entry' <= Len(destinations') + 1 /\ sections_valid(document)'
  BY <1>1, <1>2 DEF SectionsRead
<1>6. config' = sections_filled' /\ (mode' # "listing" => next_entry' = Len(destinations') + 1)
  BY <1>1, <1>2, <1>3 DEF SectionsRead
<1> QED
  BY <1>4, <1>5, <1>6 DEF SectionsRead

\* Nothing else touches the configuration, except that an exception drops it.
LEMMA LaterKeeps ==
  ASSUME LifecycleInv, ConfigInv, [LifecycleNext]_lifecycleVars,
         ~LoadSections, ~LoadDestination
  PROVE  ConfigInv'
<1>1. CASE LoadEnds
  <2>1. SectionsRead /\ UNCHANGED configVars /\ mode' = "constructing"
    BY <1>1 DEF LoadEnds, ConfigInv, NothingRead, Over
  <2>2. next_entry \in Nat /\ next_entry \notin DOMAIN destinations /\ next_entry # 0
    BY <1>1 DEF LoadEnds, ConfigInv
  <2>3. DOMAIN destinations = 1..Len(destinations) /\ Len(destinations) \in Nat
    BY <2>1, ListTyped DEF ConfigInv, SectionsRead
  <2>4. next_entry = Len(destinations) + 1
    BY <2>1, <2>2, <2>3 DEF SectionsRead
  <2> QED
    BY <2>1, <2>4, ReadStays DEF configVars, ConfigInv
<1>2. CASE LoadThrows
  BY <1>2
     DEF LoadThrows, ConfigInv, NothingRead, LifecycleInv, PlaceInv
<1>3. CASE ~LoadEnds /\ ~LoadThrows
  <2>1. UNCHANGED configVars /\ (mode' = "loading" => mode = "loading")
    BY <1>3
       DEF LifecycleNext, MainStep, WorkerStep, Construct, ConstructThrows, Run, Post,
           ReceiveEnds, ResetGuard, Stop, Destroy, Join, Exit, StartHandler,
           HandlerReturns, HandlerTerminates, RunReturns, lifecycleVars, configVars
  <2>2. mode = "listing" => mode' = "listing"
    BY <1>3
       DEF LifecycleNext, MainStep, WorkerStep, Construct, ConstructThrows, Run, Post,
           ReceiveEnds, ResetGuard, Stop, Destroy, Join, Exit, StartHandler,
           HandlerReturns, HandlerTerminates, RunReturns, lifecycleVars, LifecycleInv, PlaceInv
  <2>3. NothingRead => NothingRead'
    BY <1>3, <2>1
       DEF NothingRead, Over, configVars, LifecycleNext, MainStep, WorkerStep, Construct,
           ConstructThrows, Run, Post, ReceiveEnds, ResetGuard, Stop, Destroy, Join, Exit,
           StartHandler, HandlerReturns, HandlerTerminates, RunReturns, lifecycleVars
  <2>4. SectionsRead => SectionsRead'
    BY <2>1, <2>2, ReadStays DEF SectionsRead
  <2> QED
    BY <2>1, <2>3, <2>4 DEF ConfigInv, configVars
<1> QED
  BY <1>1, <1>2, <1>3

\* At every moment the configuration is what the part of the file says that was
\* read so far.
THEOREM ConfigInvariant == LifecycleSpec => []ConfigInv
<1>1. LifecycleInit => ConfigInv
  BY DEF LifecycleInit, ConfigInv, NothingRead
<1>2. LifecycleInv /\ ConfigInv /\ [LifecycleNext]_lifecycleVars => ConfigInv'
  BY LoadSectionsKeeps, LoadDestinationKeeps, LaterKeeps
<1> QED
  BY <1>1, <1>2, LifecycleInvariant, PTL DEF LifecycleSpec

\* main and the delivery thread keep their types.
THEOREM LifecycleTypeCorrect == LifecycleSpec => []LifecycleTypeOK
<1>1. LifecycleInv /\ ConfigInv => LifecycleTypeOK
  BY DEF LifecycleInv, LifecycleTypeOK, ConfigInv, ConfigTypeOK, NothingRead,
         SectionsRead, sections_filled, table
<1> QED
  BY <1>1, LifecycleInvariant, ConfigInvariant, PTL

\* Whatever the length of the list and however often it names an LRAD, the
\* components are built on ports that are ports, on the ACK section that comes
\* first, and on a table that has the last entry of each LRAD and no other.
THEOREM ConfigIsSound == LifecycleSpec => []RunsOnSoundConfig
<1>1. ASSUME LifecycleInv, ConfigInv, alive > 0
      PROVE  RunsOnSoundConfig
  <2>1. SectionsRead /\ alive \in Nat /\ mode # "listing"
    BY <1>1, LocalsFacts
       DEF ConfigInv, NothingRead, LifecycleInv, ThreadTypeOK, PlaceInv
  <2>2. DOMAIN destinations = 1..Len(destinations) /\ Len(destinations) \in Nat
    BY <1>1, <2>1, ListTyped DEF ConfigInv, SectionsRead
  <2>3. next_entry - 1 = Len(destinations) /\ TableOf(next_entry)
    BY <2>1, <2>2 DEF SectionsRead
  <2>4. config = [read_sections(document) EXCEPT !.lrad_destinations = table]
    BY <2>1, Zenon DEF SectionsRead, sections_filled
  <2>5. /\ udp_valid(document.udp)
        /\ tcp_valid(document.tcp)
        /\ ack_valid(ack_section(document))
    BY <2>1 DEF SectionsRead, sections_valid
  <2>6. { config.udp_multicast_port, config.tcp_default_target_port,
          config.ack_target_port } \subseteq 1..MaxPort
    BY <2>4, <2>5 DEF read_sections, udp_valid, tcp_valid, ack_valid, is_port
  <2>7. document.ack.kind = "object" => config.ack_target_ip = document.ack.ip.text
    BY <2>4 DEF read_sections, ack_section
  <2>8. DOMAIN table = {int_of(destinations[i].id) : i \in DOMAIN destinations}
    BY <2>2, <2>3 DEF TableOf
  <2>9. ASSUME NEW id \in DOMAIN table
        PROVE  /\ table[id].port \in 1..MaxPort
               /\ \E last \in entries_of(id) :
                    /\ \A i \in entries_of(id) : i <= last
                    /\ table[id] = read_destination(destinations[last])
    <3>1. PICK last \in DOMAIN destinations :
            last_before(next_entry, id, last)
              /\ table[id] = read_destination(destinations[last])
      BY <2>2, <2>3 DEF TableOf
    <3>2. last \in entries_of(id) /\ \A i \in entries_of(id) : i <= last
      BY <2>2, <2>3, <3>1 DEF last_before, entries_of
    <3>3. destination_valid(destinations[last])
      BY <2>2, <2>3 DEF TableOf
    <3>4. table[id].port \in 1..MaxPort
      BY <3>1, <3>3 DEF destination_valid, is_port, read_destination
    <3> QED
      BY <3>1, <3>2, <3>4
  <2> QED
    BY <2>6, <2>7, <2>8, <2>9 DEF RunsOnSoundConfig, table
<1>2. LifecycleInv /\ ~(alive > 0) => RunsOnSoundConfig
  BY DEF RunsOnSoundConfig
<1> QED
  BY <1>1, <1>2, LifecycleInvariant, ConfigInvariant, PTL

----------------------------------------------------------------------------
\* The delivery thread has left its context before the context is destroyed, on
\* every way out of main.
THEOREM ContextIsSafe == LifecycleSpec => []ContextOutlivesWorker
<1>1. LifecycleInv => ContextOutlivesWorker
  BY ContextPosition
     DEF LifecycleInv, ThreadTypeOK, ThreadInv, Serving, ContextOutlivesWorker, exists
<1> QED
  BY <1>1, LifecycleInvariant, PTL

\* The delivery thread serves from its start to the end of the receive loop.
THEOREM WorkerKeepsServing == LifecycleSpec => []WorkerServes
<1>1. LifecycleInv => WorkerServes
  BY DEF LifecycleInv, ThreadInv
<1> QED
  BY <1>1, LifecycleInvariant, PTL

----------------------------------------------------------------------------
(* main and its thread as the delivery context.                            *)

\* Nothing is posted before the receive loop, and what waits when main leaves
\* was dropped by the stop.
QueueInv ==
  /\ mode \in {"loading", "listing", "constructing"} => queue = 0
  /\ mode \in {"leaving", "failed", "exited"} => stopped \/ queue = 0

\* main: posts handlers, ceases to, and stops the context.
LEMMA MainKeepsContext ==
  ASSUME LifecycleInv, QueueInv, MainStep
  PROVE  QueueInv' /\ [Context!ContextNext]_(Context!contextVars)
<1> USE DEF LifecycleInv, ThreadTypeOK, PlaceInv, Over
<1>1. CASE LoadSections \/ LoadDestination \/ LoadEnds \/ Construct \/ Run \/ Join \/ Exit
           \/ ResetGuard
  <2>0. /\ UNCHANGED <<stopped, queue>>
        /\ \/ mode \in {"loading", "listing", "constructing"} /\ mode' \in arming
           \/ mode \in {"resetting", "leaving"} /\ mode' \in {"stopping", "leaving", "failed", "exited"}
    <3>1. CASE LoadSections \/ LoadDestination \/ LoadEnds
      <4>1. UNCHANGED <<stopped, queue>>
        BY <3>1, Zenon DEF LoadSections, LoadDestination, LoadEnds
      <4>2. mode \in {"loading", "listing", "constructing"} /\ mode' \in arming
        BY <3>1 DEF LoadSections, LoadDestination, LoadEnds, arming
      <4> QED
        BY <4>1, <4>2
    <3>2. CASE Construct \/ Run
      BY <3>2 DEF Construct, Run, arming
    <3>3. CASE Join \/ Exit \/ ResetGuard
      BY <3>3 DEF Join, Exit, ResetGuard
    <3> QED
      BY <1>1, <3>1, <3>2, <3>3
  <2>1. /\ mode \in arming <=> mode' \in arming
        /\ mode # "terminated" /\ mode' # "terminated"
    BY <2>0 DEF arming
  <2>2. worker = "handling" <=> worker' = "handling"
    <3>1. CASE Construct
      <4>1. worker = "handling" => alive \in 4..9
        BY <3>1, LocalsFacts DEF Construct, ThreadInv, Serving
      <4>2. worker = "handling" => Locals[alive + 1] # "delivery_thread"
        BY <4>1, LocalsFacts
      <4>3. worker' = IF Locals[alive + 1] = "delivery_thread" THEN "waiting" ELSE worker
        BY <3>1, Zenon DEF Construct
      <4> QED
        BY <4>2, <4>3
    <3>2. CASE ~Construct
      <4>1. worker' = worker
        BY <1>1, <3>2, Zenon DEF LoadSections, LoadDestination, LoadEnds, Run, Join, Exit,
          ResetGuard
      <4> QED
        BY <4>1
    <3> QED
      BY <3>1, <3>2
  <2>3. QueueInv'
    BY <1>1, <2>0 DEF LoadSections, LoadDestination, LoadEnds, Construct, Run, Join, Exit,
      ResetGuard, QueueInv
  <2> QED
    BY <2>0, <2>1, <2>2, <2>3 DEF Context!contextVars, context_service
<1>2. CASE LoadThrows \/ ConstructThrows \/ ReceiveEnds
  <2>1. /\ UNCHANGED <<stopped, queue, worker>>
        /\ mode \in arming /\ mode' \notin arming
        /\ mode # "terminated" /\ mode' # "terminated"
        /\ mode' = "leaving" \/ mode' = "resetting"
        /\ mode' = "leaving" => queue = 0
    BY <1>2 DEF LoadThrows, ConstructThrows, ReceiveEnds, arming, QueueInv
  <2>2. Context!CeasePosting
    BY <2>1 DEF Context!CeasePosting, context_service
  <2> QED
    BY <2>1, <2>2 DEF QueueInv, Context!ContextNext
<1>3. CASE Post
  BY <1>3 DEF Post, arming, context_service, QueueInv, Context!PostHandler,
    Context!ContextNext
<1>4. CASE Stop
  <2>1. mode = "stopping" /\ mode' = "leaving" /\ stopped' = TRUE /\ worker' = worker
    BY <1>4 DEF Stop
  <2>2. CASE stopped
    BY <2>1, <2>2 DEF QueueInv, Context!contextVars, context_service, arming
  <2>3. CASE ~stopped
    BY <2>1, <2>3 DEF QueueInv, Context!StopContext, Context!ContextNext, context_service,
      arming
  <2> QED
    BY <2>2, <2>3
<1>5. CASE Destroy
  <2>1. /\ mode = "leaving" /\ mode' = "leaving" /\ worker' = worker /\ stopped' = stopped
        /\ queue' = queue \/ queue' = 0
    BY <1>5 DEF Destroy
  <2>2. stopped \/ (queue = 0 /\ queue' = 0)
    BY <2>1 DEF QueueInv
  <2> QED
    BY <2>1, <2>2 DEF QueueInv, Context!contextVars, context_service
<1> QED
  BY <1>1, <1>2, <1>3, <1>4, <1>5 DEF MainStep

\* The delivery thread: begins handlers and ends them, or dies in one.
LEMMA WorkerStepKeepsContext ==
  ASSUME LifecycleInv, QueueInv, WorkerStep
  PROVE  QueueInv' /\ [Context!ContextNext]_(Context!contextVars)
<1> USE DEF LifecycleInv, ThreadTypeOK, Over, QueueInv
<1>1. CASE StartHandler
  BY <1>1 DEF StartHandler, context_service, Context!Ready, Context!BeginHandler,
    Context!ContextNext
<1>2. CASE HandlerReturns
  BY <1>2 DEF HandlerReturns, context_service, Context!EndHandler, Context!ContextNext
<1>3. CASE HandlerTerminates
  BY <1>3 DEF HandlerTerminates, arming, context_service, Context!DieInHandler,
    Context!ContextNext
<1>4. CASE RunReturns
  BY <1>4 DEF RunReturns, context_service, Context!contextVars
<1> QED
  BY <1>1, <1>2, <1>3, <1>4 DEF WorkerStep

\* For any length of the queue, at any moment of the start and on every way out,
\* main and its thread keep the contract of the delivery context.
THEOREM WorkerRunsInContext == LifecycleSpec => WorkerKeepsContext
<1>1. LifecycleInit => QueueInv /\ Context!ContextInit
  BY DEF LifecycleInit, QueueInv, Context!ContextInit, context_service, arming
<1>2. QueueInv /\ UNCHANGED lifecycleVars =>
        QueueInv' /\ [Context!ContextNext]_(Context!contextVars)
  BY DEF QueueInv, lifecycleVars, Context!contextVars, context_service, arming
<1>3. LifecycleInv /\ QueueInv /\ [LifecycleNext]_lifecycleVars =>
        QueueInv' /\ [Context!ContextNext]_(Context!contextVars)
  BY <1>2, MainKeepsContext, WorkerStepKeepsContext DEF LifecycleNext
<1> QED
  BY <1>1, <1>3, LifecycleInvariant, PTL
     DEF LifecycleSpec, WorkerKeepsContext, Context!ContextSpec

=============================================================================
