---------------------------- MODULE MCCueingOrder ----------------------------
(***************************************************************************)
(* Units of an eighth of a degree.  Below 128 degrees every one of them is *)
(* a float, from there on every other one, and a sum between two of them   *)
(* goes to the one whose half is even.                                     *)
(***************************************************************************)
EXTENDS CueingOrder

MCRound(n) ==
  IF n \in -1024..1024 \/ n % 2 = 0 THEN n
  ELSE IF (n + 1) % 4 = 0 THEN n + 1 ELSE n - 1

Position(size, type, kinematics, goniometric, slope) ==
  [ size |-> size, cueingType |-> type, kinematicsType |-> kinematics,
    goniometric |-> goniometric, slope |-> slope ]

\* Every bearing and every elevation, and the edges of the sizes and types.
MCOrders ==
  { Position(52, type, 1, g, 83) : type \in {1, 2}, g \in -1440..1440 } \cup
  { Position(52, type, 2, 600, e) : type \in {1, 2}, e \in -720..720 } \cup
  { Position(size, type, kinematics, 721, 0) :
      size \in {37, 38, 47, 48, 51, 52}, type \in 0..2, kinematics \in 0..5 } \cup
  { Position(size, type, kinematics, NaN, NaN) :
      size \in {48, 52}, type \in {1, 2}, kinematics \in {1, 3} } \cup
  { Position(52, type, 1, g, NaN) : type \in {1, 2}, g \in {-1440, 0} }

=============================================================================
