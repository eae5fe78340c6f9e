----------------------------- MODULE CueingOrder -----------------------------
(***************************************************************************)
(* The handler of a cueing order: from the bytes of a position to the      *)
(* angles of a MOVE or DELTA command, with the loops of mod360 one turn at *)
(* a time.                                                                 *)
(*                                                                         *)
(* An angle is a whole number of units of 1/Degree of a degree, or NaN.    *)
(* What the float arithmetic does to a sum is the constant Round: it moves *)
(* a value by at most Error, and never over 0 or a full turn, which are    *)
(* floats.  The arcus tangents are not computed: an order comes with what  *)
(* they make of its coordinates, in degrees.                               *)
(***************************************************************************)
EXTENDS Integers

CONSTANTS
  Degree,            \* units in a degree
  Round(_),          \* the float next to a number of units
  Error,             \* how far that may be
  NaN,
  UnspecifiedCodes,  \* what lround(NaN) & 0xFFFF may be
  Orders             \* the cueing orders that arrive

Turn == 360 * Degree
Angles == -Turn .. Turn
Uint16 == 0 .. 65535

ASSUME FloatArithmetic ==
  /\ Degree \in Nat \ {0}
  /\ Error \in Nat
  /\ NaN \notin Int
  /\ UnspecifiedCodes \subseteq Uint16
  /\ Round(0) = 0
  /\ \A a \in Angles :
       /\ Round(a) \in Angles
       /\ a >= 0 => Round(a) >= 0
       /\ Round(a) - a \in -Error .. Error

\* goniometric and slope are the two arcus tangents.
Order ==
  [ size           : Nat,
    cueingType     : Nat,
    kinematicsType : Nat,
    goniometric    : (-180 * Degree .. 180 * Degree) \cup {NaN},
    slope          : (-90 * Degree .. 90 * Degree) \cup {NaN} ]

ASSUME OrdersArePositions == Orders \subseteq Order

VARIABLES
  order,
  pc,            \* start, the call of mod360 that runs, or done
  angleDeg,      \* its argument
  loop,          \* the loop of mod360 it is in: raise or lower
  azimuthDeg,
  elevationDeg,
  json,          \* the angles of the command, as they are filled in
  last_read      \* the last byte of the datagram that was read

conversionVars == <<pc, angleDeg, loop, azimuthDeg, elevationDeg, json, last_read>>
cueingVars == <<order, conversionVars>>

Empty == [header |-> "none", goTo |-> "none", az |-> 0, el |-> 0]

CueingInit ==
  /\ order \in Orders
  /\ pc = "start"
  /\ angleDeg = 0
  /\ loop = "raise"
  /\ azimuthDeg = 0
  /\ elevationDeg = 0
  /\ json = Empty
  /\ last_read = 0

----------------------------------------------------------------------------
(* mod360.  A comparison with NaN is false.                                *)

\* Mutants: the loop ends only on a number that is not negative; zero is raised
\* too; 360 is let through.
negative_or_nan(a) == a = NaN \/ a < 0

negative_or_zero(a) == a # NaN /\ a <= 0

full_turn_let_through(a) == a # NaN /\ a > Turn

negative(a) == a # NaN /\ a < 0

full_turn(a) == a # NaN /\ a >= Turn

plus(a, b) == IF a = NaN THEN NaN ELSE Round(a + b)

Calls == {"bearing", "azimuth", "elevation", "delta_azimuth", "delta_elevation"}

Call(which, a) == pc' = which /\ angleDeg' = a /\ loop' = "raise"

Raise ==
  /\ pc \in Calls
  /\ loop = "raise"
  /\ IF negative(angleDeg)
       THEN angleDeg' = plus(angleDeg, Turn) /\ UNCHANGED loop
       ELSE loop' = "lower" /\ UNCHANGED angleDeg
  /\ UNCHANGED <<order, pc, azimuthDeg, elevationDeg, json, last_read>>

Lower ==
  /\ pc \in Calls
  /\ loop = "lower"
  /\ full_turn(angleDeg)
  /\ angleDeg' = plus(angleDeg, -Turn)
  /\ UNCHANGED <<order, pc, loop, azimuthDeg, elevationDeg, json, last_read>>

Returns(which) ==
  /\ pc = which
  /\ loop = "lower"
  /\ ~full_turn(angleDeg)
  /\ UNCHANGED <<order, last_read>>

----------------------------------------------------------------------------
(* The handler.                                                            *)

\* Mutant: the size is checked against the offset of the last field.
FixedPartToOffset == 16 + 20

\* The bytes that are read of every order, up to the kinematics type.
FixedPart == 16 + 22

\* And up to the last coordinate of the type.
position_end(o) ==
  CASE o.kinematicsType \in {1, 2} -> 52
    [] o.kinematicsType \in {3, 4} -> 48
    [] OTHER -> 0

hasCartesianCoordinates(o) ==
  o.kinematicsType \in 1..4 /\ o.size >= position_end(o)

\* Mutant: the angle of the plane, not the nautical one.
bearing_unturned(goniometric) == plus(goniometric, -90 * Degree)

\* cartesian2target: the azimuth counts clockwise from the north.
bearing(goniometric) ==
  IF goniometric = NaN THEN NaN ELSE Round(90 * Degree - goniometric)

Discard ==
  /\ pc = "start"
  /\ order.size < FixedPart
  /\ pc' = "done"
  /\ UNCHANGED <<order, angleDeg, loop, azimuthDeg, elevationDeg, json, last_read>>

WithoutPosition ==
  /\ pc = "start"
  /\ order.size >= FixedPart
  /\ ~hasCartesianCoordinates(order)
  /\ last_read' = 37
  /\ Call("azimuth", azimuthDeg)
  /\ UNCHANGED <<order, azimuthDeg, elevationDeg, json>>

WithPosition ==
  /\ pc = "start"
  /\ order.size >= FixedPart
  /\ hasCartesianCoordinates(order)
  /\ last_read' = IF order.kinematicsType \in {1, 2} THEN 51 ELSE 47
  /\ Call("bearing", bearing(order.goniometric))
  /\ UNCHANGED <<order, azimuthDeg, elevationDeg, json>>

BearingKnown ==
  /\ Returns("bearing")
  /\ azimuthDeg' = angleDeg
  /\ elevationDeg' = order.slope
  /\ Call("azimuth", angleDeg)
  /\ UNCHANGED json

AzimuthNormalized ==
  /\ Returns("azimuth")
  /\ json' = [json EXCEPT !.az = angleDeg]
  /\ Call("elevation", elevationDeg)
  /\ UNCHANGED <<azimuthDeg, elevationDeg>>

Move ==
  /\ Returns("elevation")
  /\ order.cueingType = 1
  /\ json' = [ header |-> "MOVE",
                goTo |-> IF hasCartesianCoordinates(order) THEN "ABS" ELSE "HOME",
                az |-> json.az, el |-> angleDeg ]
  /\ pc' = "done"
  /\ UNCHANGED <<angleDeg, loop, azimuthDeg, elevationDeg>>

\* Any other cueing type.  encode_delta_u16 normalises the angles again.
Delta ==
  /\ Returns("elevation")
  /\ order.cueingType # 1
  /\ Call("delta_azimuth", azimuthDeg)
  /\ UNCHANGED <<azimuthDeg, elevationDeg, json>>

whole_degrees(code) == code * Degree

\* Mutant: the number is not cut to 16 bits.
codes_not_masked(a) ==
  IF a = NaN THEN {-2147483647 - 1}
  ELSE { code \in 0..360 :
           /\ 2 * whole_degrees(code) - Degree <= 2 * a
           /\ 2 * a < 2 * whole_degrees(code) + Degree }

\* lround: the nearest whole degree, the larger one of two; 359.5 goes to 360.
codes(a) ==
  IF a = NaN THEN UnspecifiedCodes
  ELSE { code \in 0..360 :
           /\ 2 * whole_degrees(code) - Degree <= 2 * a
           /\ 2 * a < 2 * whole_degrees(code) + Degree }

DeltaAzimuth ==
  /\ Returns("delta_azimuth")
  /\ \E code \in codes(angleDeg) : json' = [json EXCEPT !.az = code]
  /\ Call("delta_elevation", elevationDeg)
  /\ UNCHANGED <<azimuthDeg, elevationDeg>>

DeltaElevation ==
  /\ Returns("delta_elevation")
  /\ \E code \in codes(angleDeg) :
       json' = [header |-> "DELTA", goTo |-> "none", az |-> json.az, el |-> code]
  /\ pc' = "done"
  /\ UNCHANGED <<angleDeg, loop, azimuthDeg, elevationDeg>>

CueingNext ==
  \/ Raise
  \/ Lower
  \/ Discard
  \/ WithoutPosition
  \/ WithPosition
  \/ BearingKnown
  \/ AzimuthNormalized
  \/ Move
  \/ Delta
  \/ DeltaAzimuth
  \/ DeltaElevation

CueingSpec == CueingInit /\ [][CueingNext]_cueingVars

\* The delivery thread runs the handler to its end.
CueingFairSpec == CueingSpec /\ WF_cueingVars(CueingNext)

----------------------------------------------------------------------------
(* Properties.                                                             *)

\* The type invariant.  The angles of a DELTA are of 16 bits.
CueingTypeOK ==
  /\ order \in Order
  /\ pc \in {"start", "done"} \cup Calls
  /\ angleDeg \in Angles \cup {NaN}
  /\ loop \in {"raise", "lower"}
  /\ azimuthDeg \in Angles \cup {NaN}
  /\ elevationDeg \in Angles \cup {NaN}
  /\ json \in [ header : {"none", "MOVE", "DELTA"}, goTo : {"none", "ABS", "HOME"},
                az : Int \cup {NaN}, el : Int \cup {NaN} ]
  /\ json.header = "DELTA" => json.az \in Uint16 /\ json.el \in Uint16
  /\ last_read \in 0..51

\* The angles of a MOVE are in [0, 360), although adding 360 to a small
\* negative angle yields 360 itself in float arithmetic.
AnglesNormalized ==
  json.header = "MOVE" =>
    /\ json.az # NaN => 0 <= json.az /\ json.az < Turn
    /\ json.el # NaN => 0 <= json.el /\ json.el < Turn

\* The number of a command, in units.
in_units(header, value) == IF header = "DELTA" THEN whole_degrees(value) ELSE value

\* The numbers are doubled, for the half of a degree.
half_degree(header) == IF header = "DELTA" THEN Degree ELSE 0

points(header, value, angle, tolerance) ==
  angle # NaN =>
    \E turns \in {-Turn, 0, Turn} :
      LET off_by == 2 * in_units(header, value) - 2 * (angle + turns) IN
      /\ -2 * tolerance - half_degree(header) <= off_by
      /\ off_by <= 2 * tolerance + half_degree(header)

\* A command points where the position is, on the circle: the angles of a MOVE
\* up to the errors of the additions, those of a DELTA, which are whole
\* degrees, up to half a degree more; without a position it points to 0.
DirectionKept ==
  json.header # "none" =>
    IF hasCartesianCoordinates(order)
      THEN /\ order.goniometric # NaN =>
                points(json.header, json.az,
                       90 * Degree - order.goniometric, 2 * Error)
           /\ points(json.header, json.el, order.slope, Error)
      ELSE json.az = 0 /\ json.el = 0

\* What is left of a call of mod360: a negative angle is raised once, a full turn
\* is taken off once, and either loop looks once more.
steps_of_call ==
  IF loop = "raise" THEN IF angleDeg # NaN /\ angleDeg < 0 THEN 4 ELSE 3
  ELSE IF angleDeg = Turn THEN 2 ELSE 1

calls_after ==
  [ bearing |-> 4, azimuth |-> 3, elevation |-> 2, delta_azimuth |-> 1, delta_elevation |-> 0 ]

remaining ==
  CASE pc = "start" -> 21
    [] pc = "done" -> 0
    [] OTHER -> 4 * calls_after[pc] + steps_of_call

\* A conversion comes closer to its end with every step and ends after 21 of
\* them at most: a float sum never lands where one of the loops of mod360 needs a
\* second turn, and no angle is raised that was not negative.
EveryStepAdvances ==
  [][0 <= remaining' /\ remaining' < remaining /\ remaining <= 21]_cueingVars

\* No byte is read past the end of the datagram, whose kinematics type says
\* how many there are to read.
ReadsInside == last_read > 0 => last_read < order.size

\* Every order ends as a command or is discarded: no angle, a NaN neither, keeps
\* a loop of mod360 running.
EveryOrderConverted == <>(pc = "done")

=============================================================================
