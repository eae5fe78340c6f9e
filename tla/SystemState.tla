----------------------------- MODULE SystemState -----------------------------
(***************************************************************************)
(* SystemState: what the proxy believes of the LRADs, updated under a      *)
(* mutex one batch at a time, so that a batch is one step.                 *)
(*                                                                         *)
(* Of the fields of a StateUpdate only lradId and engaged are ever given a *)
(* value by the code, so an LRAD is absent from the map, engaged or        *)
(* released.  Time is abstracted to the number of calls of touch().        *)
(***************************************************************************)
EXTENDS Integers, Sequences

CONSTANT Lrads   \* the LRAD ids that datagrams carry, configured or not

Engagement == {"absent", "engaged", "released"}

SystemStates == [lradStates : [Lrads -> Engagement], lastUpdated : Nat]

InitialState == [lradStates |-> [l \in Lrads |-> "absent"], lastUpdated |-> 0]

\* The last update of the batch that is about l, if there is one.
updates_for(updates, l) == {i \in DOMAIN updates : updates[i].lradId = l}

last_update(updates, l) ==
  updates[CHOOSE i \in updates_for(updates, l) :
            \A j \in updates_for(updates, l) : j <= i].engaged

\* The updates are applied one after another: the last about an LRAD stays.
applyBatch(state, updates) ==
  IF updates = <<>> THEN state
  ELSE [ lradStates  |-> [ l \in Lrads |->
                             IF updates_for(updates, l) = {}
                               THEN state.lradStates[l]
                               ELSE last_update(updates, l) ],
         lastUpdated |-> state.lastUpdated + 1 ]

=============================================================================
