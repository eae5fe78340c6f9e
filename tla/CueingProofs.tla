---------------------------- MODULE CueingProofs ----------------------------
(***************************************************************************)
(* The angles of a cueing order, for any precision of the floats: the      *)
(* invariant follows each angle through its call of mod360.                *)
(***************************************************************************)
EXTENDS CueingOrder, TLAPS

off(a, b, turns, tolerance) ==
  -tolerance <= a - b - turns /\ a - b - turns <= tolerance

\* One turn at most is added; it is taken off again only to arrive at 0.
Follows(a, b, tolerance) ==
  \/ off(a, b, 0, tolerance)
  \/ off(a, b, Turn, tolerance)
  \/ a = 0 /\ off(a, b, -Turn, tolerance)

positioned == hasCartesianCoordinates(order)

target == 90 * Degree - order.goniometric

\* mod360 left its first loop, and a call is about one of the two angles.
Progress ==
  /\ loop = "lower" /\ angleDeg # NaN => angleDeg >= 0
  /\ pc = "start" => /\ azimuthDeg = 0
                     /\ elevationDeg = 0
                     /\ last_read = 0
  /\ pc = "bearing" => positioned
  /\ pc \in {"start"} \cup Calls => json.header = "none"
  /\ pc \in {"azimuth", "delta_azimuth"} => angleDeg = azimuthDeg

\* The bearing before and after its call.
BearingFollows ==
  pc = "bearing" /\ order.goniometric # NaN =>
    /\ angleDeg # NaN
    /\ Follows(angleDeg, target, 2 * Error)
    /\ angleDeg < 0 => off(angleDeg, target, 0, Error)

AzimuthFollows ==
  pc \in Calls \ {"bearing"} =>
    /\ azimuthDeg # NaN => 0 <= azimuthDeg /\ azimuthDeg < Turn
    /\ ~positioned => azimuthDeg = 0
    /\ positioned /\ order.goniometric # NaN =>
         azimuthDeg # NaN /\ Follows(azimuthDeg, target, 2 * Error)

ElevationFollows ==
  /\ pc \in Calls \ {"bearing"} =>
       elevationDeg = IF positioned THEN order.slope ELSE 0
  /\ pc \in {"elevation", "delta_elevation"} =>
       /\ elevationDeg = 0 => angleDeg = 0
       /\ elevationDeg # NaN =>
            /\ angleDeg # NaN
            /\ Follows(angleDeg, elevationDeg, Error)
            /\ angleDeg < 0 => angleDeg = elevationDeg

JsonFollows ==
  /\ pc = "elevation" => json.az = azimuthDeg
  /\ pc = "delta_elevation" =>
       /\ json.az \in Uint16
       /\ azimuthDeg = 0 => json.az = 0
       /\ azimuthDeg # NaN =>
            /\ 2 * whole_degrees(json.az) - 2 * azimuthDeg <= Degree
            /\ -Degree <= 2 * whole_degrees(json.az) - 2 * azimuthDeg

CueingInv ==
  /\ CueingTypeOK
  /\ Progress
  /\ BearingFollows
  /\ AzimuthFollows
  /\ ElevationFollows
  /\ JsonFollows
  /\ AnglesNormalized
  /\ DirectionKept
  /\ ReadsInside

----------------------------------------------------------------------------
LEMMA Constants ==
  /\ Degree \in Int /\ Degree > 0
  /\ Turn \in Int /\ Turn = 360 * Degree
  /\ Error \in Nat
BY SMT, FloatArithmetic DEF Turn

LEMMA AnglesAreNumbers ==
  ASSUME NEW a \in Angles
  PROVE  a \in Int /\ a # NaN /\ -Turn <= a /\ a <= Turn
BY SMT, Constants, FloatArithmetic DEF Angles

LEMMA Rounded ==
  ASSUME NEW a \in Int, -Turn <= a, a <= Turn
  PROVE  /\ Round(a) \in Angles
         /\ a >= 0 => Round(a) >= 0
         /\ Round(a) - a \in -Error .. Error
BY SMT, Constants, FloatArithmetic DEF Angles

\* The sum of mod360's first loop, and the difference of its second.
LEMMA RaiseSum ==
  ASSUME NEW a \in Angles, a < 0
  PROVE  /\ plus(a, Turn) \in Angles
         /\ plus(a, Turn) >= 0
         /\ off(plus(a, Turn), a, Turn, Error)
<1>1. a \in Int /\ a # NaN /\ -Turn <= a
  BY AnglesAreNumbers
<1>2. a + Turn \in Int /\ 0 <= a + Turn /\ -Turn <= a + Turn /\ a + Turn <= Turn
  BY SMT, <1>1, Constants
<1>3. /\ Round(a + Turn) \in Angles
      /\ Round(a + Turn) >= 0
      /\ Round(a + Turn) - (a + Turn) \in -Error .. Error
  BY SMT, <1>2, Rounded
<1>4. Round(a + Turn) \in Int
  BY <1>3, AnglesAreNumbers
<1>5. off(Round(a + Turn), a, Turn, Error)
  BY SMT, <1>1, <1>3, <1>4, Constants DEF off
<1>6. plus(a, Turn) = Round(a + Turn)
  BY <1>1 DEF plus
<1> QED
  BY <1>3, <1>5, <1>6

LEMMA LowerSum ==
  ASSUME NEW a \in Angles \cup {NaN}, full_turn(a)
  PROVE  a = Turn /\ plus(a, -Turn) = 0
<1>1. a \in Angles /\ a # NaN /\ a >= Turn
  BY DEF full_turn
<1>2. a = Turn
  BY SMT, <1>1, AnglesAreNumbers, Constants
<1>3. a + -Turn = 0
  BY SMT, <1>2, Constants
<1>4. plus(a, -Turn) = Round(a + -Turn)
  BY <1>1 DEF plus
<1> QED
  BY <1>2, <1>3, <1>4, FloatArithmetic

\* 90 degrees minus an arcus tangent.
LEMMA BearingSum ==
  ASSUME NEW g \in -180 * Degree .. 180 * Degree
  PROVE  bearing(g) \in Angles /\ off(bearing(g), 90 * Degree - g, 0, Error)
<1>1. g \in Int /\ g # NaN
  BY SMT, Constants, FloatArithmetic
<1>2. /\ 90 * Degree - g \in Int
      /\ -Turn <= 90 * Degree - g
      /\ 90 * Degree - g <= Turn
  BY SMT, <1>1, Constants
<1>3. /\ Round(90 * Degree - g) \in Angles
      /\ Round(90 * Degree - g) - (90 * Degree - g) \in -Error .. Error
  BY SMT, <1>2, Rounded
<1>4. Round(90 * Degree - g) \in Int
  BY <1>3, AnglesAreNumbers
<1>5. off(Round(90 * Degree - g), 90 * Degree - g, 0, Error)
  BY SMT, <1>2, <1>3, <1>4, Constants DEF off
<1>6. bearing(g) = Round(90 * Degree - g)
  BY <1>1 DEF bearing
<1> QED
  BY <1>3, <1>5, <1>6

LEMMA WholeDegrees ==
  ASSUME NEW code \in Int
  PROVE  /\ whole_degrees(code) \in Int
         /\ code > 0 => whole_degrees(code) >= Degree
         /\ whole_degrees(0) = 0
BY SMT, Constants DEF whole_degrees

\* encode_delta_u16 is within half a degree of its angle.
LEMMA CodeIsNear ==
  ASSUME NEW a \in Angles \cup {NaN}, NEW code \in codes(a)
  PROVE  /\ code \in Uint16
         /\ a # NaN => /\ 2 * whole_degrees(code) - 2 * a <= Degree
                       /\ -Degree <= 2 * whole_degrees(code) - 2 * a
         /\ a = 0 => code = 0
<1>1. CASE a = NaN
  <2>1. code \in Uint16
    BY <1>1, FloatArithmetic DEF codes
  <2>2. 0 \in Int /\ a # 0
    BY <1>1, FloatArithmetic
  <2> QED
    BY <1>1, <2>1, <2>2
<1>2. CASE a # NaN
  <2>1. a \in Int
    BY <1>2, AnglesAreNumbers
  <2>2. code \in { c \in 0..360 : 2 * whole_degrees(c) - Degree <= 2 * a
                                  /\ 2 * a < 2 * whole_degrees(c) + Degree }
    BY SMT, <1>2 DEF codes
  <2>3. code \in 0..360
    BY SMT, <2>2
  <2>4. 2 * whole_degrees(code) - Degree <= 2 * a /\ 2 * a < 2 * whole_degrees(code) + Degree
    BY SMT, <2>2
  <2>5. whole_degrees(code) \in Int
    BY SMT, <2>3, WholeDegrees
  <2>6. code # 0 => whole_degrees(code) >= Degree
    BY SMT, <2>3, WholeDegrees
  <2>7. code \in Uint16
    BY SMT, <2>3 DEF Uint16
  <2>8. /\ 2 * whole_degrees(code) - 2 * a <= Degree
        /\ -Degree <= 2 * whole_degrees(code) - 2 * a
    BY SMT, <2>1, <2>4, <2>5, Constants
  <2>9. a = 0 => code = 0
    BY SMT, <2>3, <2>4, <2>5, <2>6, Constants
  <2> QED
    BY <2>7, <2>8, <2>9
<1> QED
  BY <1>1, <1>2

\* The types of the command, and what an update of it leaves.
JsonType ==
  [ header : {"none", "MOVE", "DELTA"}, goTo : {"none", "ABS", "HOME"},
    az : Int \cup {NaN}, el : Int \cup {NaN} ]

LEMMA AzimuthSet ==
  ASSUME NEW j \in JsonType, NEW value \in Int \cup {NaN}
  PROVE  LET k == [j EXCEPT !.az = value]
         IN k \in JsonType /\ k.az = value /\ k.header = j.header
BY SMT DEF JsonType

LEMMA Uint16AreNumbers == Uint16 \subseteq Int
BY SMT DEF Uint16

LEMMA JsonTyped == CueingInv => json \in JsonType
BY DEF CueingInv, CueingTypeOK, JsonType

\* The angles of an order are numbers, unless they are NaN.
LEMMA TargetIsNumber ==
  ASSUME order \in Order, order.goniometric # NaN
  PROVE  90 * Degree - order.goniometric \in Int
BY SMT, Constants DEF Order

LEMMA SlopeIsNumber ==
  ASSUME order \in Order, order.slope # NaN
  PROVE  order.slope \in Int
BY SMT, Constants DEF Order

\* A turn is added to a negative angle that is still near its target.
LEMMA FollowsRaised ==
  ASSUME NEW a \in Int, NEW b \in Int, NEW c \in Int,
         off(a, c, 0, Error), off(b, a, Turn, Error)
  PROVE  Follows(b, c, 2 * Error)
BY SMT, Constants DEF Follows, off

LEMMA FollowsLowered ==
  ASSUME NEW b \in Int, NEW tolerance \in Int, Follows(Turn, b, tolerance)
  PROVE  Follows(0, b, tolerance)
BY SMT, Constants DEF Follows, off

\* A call starts at the angle it is to normalise.
LEMMA FollowsAtOnce ==
  ASSUME NEW a \in Angles
  PROVE  a # NaN /\ Follows(a, a, Error)
BY SMT, AnglesAreNumbers, Constants DEF Follows, off

\* What is near an angle points where the angle points.
LEMMA MovePoints ==
  ASSUME NEW a \in Int, NEW b \in Int, NEW tolerance \in Int, Follows(a, b, tolerance)
  PROVE  points("MOVE", a, b, tolerance)
<1>1. PICK turns \in {-Turn, 0, Turn} : off(a, b, turns, tolerance)
  BY DEF Follows
<1>2. turns \in Int
  BY SMT, Constants
<1>3. /\ -2 * tolerance <= 2 * a - 2 * (b + turns)
      /\ 2 * a - 2 * (b + turns) <= 2 * tolerance
  BY SMT, <1>1, <1>2 DEF off
<1>4. in_units("MOVE", a) = a /\ half_degree("MOVE") = 0
  BY DEF in_units, half_degree
<1> QED
  BY SMT, <1>2, <1>3, <1>4 DEF points

LEMMA DeltaPoints ==
  ASSUME NEW code \in Int, NEW a \in Int, NEW b \in Int, NEW tolerance \in Int,
         Follows(a, b, tolerance),
         2 * whole_degrees(code) - 2 * a <= Degree,
         -Degree <= 2 * whole_degrees(code) - 2 * a
  PROVE  points("DELTA", code, b, tolerance)
<1>1. PICK turns \in {-Turn, 0, Turn} : off(a, b, turns, tolerance)
  BY DEF Follows
<1>2. turns \in Int /\ whole_degrees(code) \in Int
  BY SMT, Constants, WholeDegrees
<1>3. /\ -2 * tolerance - Degree <= 2 * whole_degrees(code) - 2 * (b + turns)
      /\ 2 * whole_degrees(code) - 2 * (b + turns) <= 2 * tolerance + Degree
  BY SMT, <1>1, <1>2, Constants DEF off
<1>4. in_units("DELTA", code) = whole_degrees(code) /\ half_degree("DELTA") = Degree
  BY DEF in_units, half_degree
<1> QED
  BY SMT, <1>2, <1>3, <1>4 DEF points

----------------------------------------------------------------------------
(* The invariant is kept by every step.                                    *)

LEMMA RaiseKeeps == CueingInv /\ Raise => CueingInv'
<1> SUFFICES ASSUME CueingInv, Raise PROVE CueingInv'
  OBVIOUS
<1>1. /\ pc \in Calls /\ pc' = pc
      /\ loop = "raise"
      /\ order' = order
      /\ azimuthDeg' = azimuthDeg
      /\ elevationDeg' = elevationDeg
      /\ json' = json
      /\ last_read' = last_read
  BY DEF Raise
<1>2. \/ angleDeg' = angleDeg /\ loop' = "lower" /\ ~negative(angleDeg)
      \/ /\ angleDeg \in Angles /\ angleDeg < 0
         /\ angleDeg' \in Angles /\ angleDeg' >= 0
         /\ off(angleDeg', angleDeg, Turn, Error)
         /\ loop' = loop
  <2>1. CASE negative(angleDeg)
    <3>1. angleDeg \in Angles /\ angleDeg < 0
      BY <2>1 DEF negative, CueingInv, CueingTypeOK
    <3> QED
      BY <2>1, <3>1, RaiseSum DEF Raise
  <2>2. CASE ~negative(angleDeg)
    BY <2>2 DEF Raise
  <2> QED
    BY <2>1, <2>2
<1>3. angleDeg \in Angles \cup {NaN} /\ azimuthDeg \in Angles \cup {NaN}
      /\ elevationDeg \in Angles \cup {NaN}
  BY DEF CueingInv, CueingTypeOK
<1>4. CueingTypeOK'
  BY SMT, <1>1, <1>2 DEF CueingInv, CueingTypeOK
<1>5. Progress'
  BY SMT, <1>1, <1>2, <1>3, AnglesAreNumbers, Constants
    DEF CueingInv, Progress, AzimuthFollows, positioned, Calls, negative
<1>6. BearingFollows'
  BY SMT, <1>1, <1>2, TargetIsNumber, AnglesAreNumbers, Constants, FollowsRaised
    DEF CueingInv, CueingTypeOK, BearingFollows, target, negative
<1>7. AzimuthFollows'
  BY SMT, <1>1 DEF CueingInv, AzimuthFollows, Calls, positioned, target
<1>8. ElevationFollows'
  BY SMT, <1>1, <1>2, <1>3, AnglesAreNumbers, Constants
    DEF CueingInv, ElevationFollows, positioned, Follows, off, negative
<1>9. JsonFollows'
  BY SMT, <1>1 DEF CueingInv, JsonFollows
<1>10. AnglesNormalized'
  BY SMT, <1>1 DEF CueingInv, AnglesNormalized
<1>11. DirectionKept'
  BY SMT, <1>1 DEF CueingInv, DirectionKept, points, in_units, half_degree
<1>12. ReadsInside'
  BY SMT, <1>1 DEF CueingInv, ReadsInside
<1> QED
  BY <1>4, <1>5, <1>6, <1>7, <1>8, <1>9, <1>10, <1>11, <1>12 DEF CueingInv

LEMMA LowerKeeps == CueingInv /\ Lower => CueingInv'
<1> SUFFICES ASSUME CueingInv, Lower PROVE CueingInv'
  OBVIOUS
<1>1. /\ pc \in Calls /\ pc' = pc
      /\ loop = "lower" /\ loop' = loop
      /\ angleDeg = Turn /\ angleDeg' = 0
      /\ order' = order
      /\ azimuthDeg' = azimuthDeg
      /\ elevationDeg' = elevationDeg
      /\ json' = json
      /\ last_read' = last_read
  BY LowerSum DEF Lower, CueingInv, CueingTypeOK
<1>2. angleDeg' \in Angles /\ angleDeg # NaN /\ azimuthDeg \in Angles \cup {NaN}
      /\ elevationDeg \in Angles \cup {NaN}
  BY SMT, <1>1, Constants, FloatArithmetic DEF CueingInv, CueingTypeOK, Angles
<1>3. CueingTypeOK'
  BY SMT, <1>1, <1>2 DEF CueingInv, CueingTypeOK
<1>4. Progress'
  BY SMT, <1>1, <1>2, AnglesAreNumbers, Constants
    DEF CueingInv, Progress, AzimuthFollows, positioned, Calls
<1>5. BearingFollows'
  <2>1. SUFFICES ASSUME pc = "bearing", order.goniometric # NaN
                PROVE  /\ Follows(0, target, 2 * Error)
                       /\ 0 # NaN
    BY <1>1, <1>2, Constants DEF BearingFollows, target
  <2>2. Follows(Turn, target, 2 * Error)
    BY <1>1, <2>1 DEF CueingInv, BearingFollows
  <2>3. target \in Int /\ 2 * Error \in Int
    BY SMT, <2>1, TargetIsNumber, Constants DEF CueingInv, CueingTypeOK, target
  <2> QED
    BY <2>2, <2>3, FollowsLowered, FloatArithmetic
<1>6. AzimuthFollows'
  BY SMT, <1>1 DEF CueingInv, AzimuthFollows, Calls, positioned, target
<1>7. ElevationFollows'
  BY SMT, <1>1, <1>2, AnglesAreNumbers, Constants
    DEF CueingInv, ElevationFollows, positioned, Follows, off
<1>8. JsonFollows'
  BY SMT, <1>1 DEF CueingInv, JsonFollows
<1>9. AnglesNormalized'
  BY SMT, <1>1 DEF CueingInv, AnglesNormalized
<1>10. DirectionKept'
  BY SMT, <1>1 DEF CueingInv, DirectionKept, points, in_units, half_degree
<1>11. ReadsInside'
  BY SMT, <1>1 DEF CueingInv, ReadsInside
<1> QED
  BY <1>3, <1>4, <1>5, <1>6, <1>7, <1>8, <1>9, <1>10, <1>11 DEF CueingInv

LEMMA DiscardKeeps == CueingInv /\ Discard => CueingInv'
<1> SUFFICES ASSUME CueingInv, Discard PROVE CueingInv'
  OBVIOUS
<1>1. /\ pc = "start" /\ pc' = "done"
      /\ order' = order
      /\ angleDeg' = angleDeg
      /\ loop' = loop
      /\ azimuthDeg' = azimuthDeg
      /\ elevationDeg' = elevationDeg
      /\ json' = json
      /\ last_read' = last_read
  BY DEF Discard
<1>2. CueingTypeOK'
  BY SMT, <1>1 DEF CueingInv, CueingTypeOK, Calls
<1>3. Progress'
  BY SMT, <1>1 DEF CueingInv, Progress, Calls
<1>4. BearingFollows'
  BY SMT, <1>1 DEF CueingInv, BearingFollows, target
<1>5. AzimuthFollows'
  BY SMT, <1>1 DEF CueingInv, AzimuthFollows, Calls, positioned, target
<1>6. ElevationFollows'
  BY SMT, <1>1 DEF CueingInv, ElevationFollows, Calls, positioned
<1>7. JsonFollows'
  BY SMT, <1>1 DEF CueingInv, JsonFollows
<1>8. AnglesNormalized'
  BY SMT, <1>1 DEF CueingInv, AnglesNormalized
<1>9. DirectionKept'
  BY SMT, <1>1 DEF CueingInv, DirectionKept, points, in_units, half_degree
<1>10. ReadsInside'
  BY SMT, <1>1 DEF CueingInv, ReadsInside
<1> QED
  BY <1>2, <1>3, <1>4, <1>5, <1>6, <1>7, <1>8, <1>9, <1>10 DEF CueingInv

LEMMA WithoutPositionKeeps == CueingInv /\ WithoutPosition => CueingInv'
<1> SUFFICES ASSUME CueingInv, WithoutPosition PROVE CueingInv'
  OBVIOUS
<1>1. /\ pc = "start" /\ pc' = "azimuth"
      /\ loop' = "raise" /\ angleDeg' = 0
      /\ azimuthDeg = 0 /\ elevationDeg = 0
      /\ ~positioned /\ last_read' = 37 /\ order.size >= FixedPart
      /\ json.header = "none"
      /\ order' = order
      /\ azimuthDeg' = azimuthDeg
      /\ elevationDeg' = elevationDeg
      /\ json' = json
  BY DEF WithoutPosition, Call, CueingInv, Progress, positioned
<1>2. order.size \in Nat /\ 0 \in Angles /\ 0 # NaN
  BY SMT, Constants, FloatArithmetic DEF CueingInv, CueingTypeOK, Order, Angles
<1>3. CueingTypeOK'
  BY SMT, <1>1, <1>2 DEF CueingInv, CueingTypeOK, Calls
<1>4. Progress'
  BY SMT, <1>1 DEF CueingInv, Progress, Calls, positioned
<1>5. BearingFollows'
  BY SMT, <1>1 DEF CueingInv, BearingFollows, target
<1>6. AzimuthFollows'
  BY SMT, <1>1, Constants DEF AzimuthFollows, positioned
<1>7. ElevationFollows'
  BY SMT, <1>1 DEF CueingInv, ElevationFollows, Calls, positioned
<1>8. JsonFollows'
  BY SMT, <1>1 DEF CueingInv, JsonFollows
<1>9. AnglesNormalized'
  BY <1>1 DEF AnglesNormalized
<1>10. DirectionKept'
  BY <1>1 DEF DirectionKept
<1>11. ReadsInside'
  BY SMT, <1>1, <1>2 DEF ReadsInside, FixedPart
<1> QED
  BY <1>3, <1>4, <1>5, <1>6, <1>7, <1>8, <1>9, <1>10, <1>11 DEF CueingInv

LEMMA WithPositionKeeps == CueingInv /\ WithPosition => CueingInv'
<1> SUFFICES ASSUME CueingInv, WithPosition PROVE CueingInv'
  OBVIOUS
<1>1. /\ pc = "start" /\ pc' = "bearing"
      /\ loop' = "raise" /\ angleDeg' = bearing(order.goniometric)
      /\ positioned
      /\ json.header = "none"
      /\ last_read' = IF order.kinematicsType \in {1, 2} THEN 51 ELSE 47
      /\ order' = order
      /\ azimuthDeg' = azimuthDeg
      /\ elevationDeg' = elevationDeg
      /\ json' = json
  BY DEF WithPosition, Call, CueingInv, Progress, positioned
<1>2. \/ order.goniometric = NaN /\ angleDeg' = NaN
      \/ /\ order.goniometric \in -180 * Degree .. 180 * Degree
         /\ angleDeg' \in Angles
         /\ off(angleDeg', target, 0, Error)
  BY <1>1, BearingSum DEF CueingInv, CueingTypeOK, Order, bearing, target
<1>3. /\ order.size \in Nat
      /\ order.kinematicsType \in {1, 2} => order.size >= 52
      /\ order.kinematicsType \notin {1, 2} => order.size >= 48
  BY SMT, <1>1 DEF CueingInv, CueingTypeOK, Order, positioned,
                   hasCartesianCoordinates, position_end
<1>4. CueingTypeOK'
  BY SMT, <1>1, <1>2 DEF CueingInv, CueingTypeOK, Calls
<1>5. Progress'
  BY SMT, <1>1 DEF CueingInv, Progress, Calls, positioned
<1>6. BearingFollows'
  BY SMT, <1>1, <1>2, TargetIsNumber, AnglesAreNumbers, Constants
    DEF CueingInv, CueingTypeOK, BearingFollows, target, Follows, off
<1>7. AzimuthFollows'
  BY SMT, <1>1 DEF CueingInv, AzimuthFollows, Calls, positioned, target
<1>8. ElevationFollows'
  BY SMT, <1>1 DEF CueingInv, ElevationFollows, Calls, positioned
<1>9. JsonFollows'
  BY SMT, <1>1 DEF CueingInv, JsonFollows
<1>10. AnglesNormalized'
  BY <1>1 DEF AnglesNormalized
<1>11. DirectionKept'
  BY <1>1 DEF DirectionKept
<1>12. ReadsInside'
  BY SMT, <1>1, <1>3 DEF ReadsInside
<1> QED
  BY <1>4, <1>5, <1>6, <1>7, <1>8, <1>9, <1>10, <1>11, <1>12 DEF CueingInv

LEMMA BearingKnownKeeps == CueingInv /\ BearingKnown => CueingInv'
<1> SUFFICES ASSUME CueingInv, BearingKnown PROVE CueingInv'
  OBVIOUS
<1>1. /\ pc = "bearing" /\ pc' = "azimuth"
      /\ loop = "lower" /\ loop' = "raise"
      /\ ~full_turn(angleDeg)
      /\ angleDeg' = angleDeg /\ azimuthDeg' = angleDeg
      /\ elevationDeg' = order.slope
      /\ positioned /\ json.header = "none"
      /\ order' = order
      /\ json' = json
      /\ last_read' = last_read
  BY DEF BearingKnown, Returns, Call, CueingInv, Progress, Calls
<1>2. angleDeg \in Angles \cup {NaN} /\ (angleDeg # NaN => angleDeg >= 0)
      /\ elevationDeg' \in Angles \cup {NaN}
  BY SMT, <1>1, Constants DEF CueingInv, CueingTypeOK, Progress, Order, Angles
<1>3. CueingTypeOK'
  BY SMT, <1>1, <1>2 DEF CueingInv, CueingTypeOK, Calls
<1>4. Progress'
  BY SMT, <1>1 DEF CueingInv, Progress, Calls, positioned
<1>5. BearingFollows'
  BY SMT, <1>1 DEF CueingInv, BearingFollows, target
<1>6. AzimuthFollows'
  BY SMT, <1>1, <1>2, AnglesAreNumbers, Constants
    DEF CueingInv, BearingFollows, AzimuthFollows, positioned, target, full_turn, Follows, off
<1>7. ElevationFollows'
  BY SMT, <1>1 DEF CueingInv, ElevationFollows, Calls, positioned
<1>8. JsonFollows'
  BY SMT, <1>1 DEF CueingInv, JsonFollows
<1>9. AnglesNormalized'
  BY <1>1 DEF AnglesNormalized
<1>10. DirectionKept'
  BY <1>1 DEF DirectionKept
<1>11. ReadsInside'
  BY SMT, <1>1 DEF CueingInv, ReadsInside
<1> QED
  BY <1>3, <1>4, <1>5, <1>6, <1>7, <1>8, <1>9, <1>10, <1>11 DEF CueingInv

LEMMA AzimuthNormalizedKeeps == CueingInv /\ AzimuthNormalized => CueingInv'
<1> SUFFICES ASSUME CueingInv, AzimuthNormalized PROVE CueingInv'
  OBVIOUS
<1>1. /\ pc = "azimuth" /\ pc' = "elevation"
      /\ loop = "lower" /\ loop' = "raise"
      /\ angleDeg = azimuthDeg /\ angleDeg' = elevationDeg
      /\ json' = [json EXCEPT !.az = azimuthDeg]
      /\ json.header = "none"
      /\ order' = order
      /\ azimuthDeg' = azimuthDeg
      /\ elevationDeg' = elevationDeg
      /\ last_read' = last_read
  BY DEF AzimuthNormalized, Returns, Call, CueingInv, Progress, Calls
<1>2. azimuthDeg \in Angles \cup {NaN} /\ elevationDeg \in Angles \cup {NaN}
  BY DEF CueingInv, CueingTypeOK
<1>3. json' \in JsonType /\ json'.az = azimuthDeg /\ json'.header = "none"
  BY SMT, <1>1, <1>2, JsonTyped, AnglesAreNumbers DEF JsonType
<1>4. CueingTypeOK'
  BY SMT, <1>1, <1>2, <1>3 DEF CueingInv, CueingTypeOK, JsonType, Calls
<1>5. Progress'
  BY SMT, <1>1, <1>3 DEF Progress
<1>6. BearingFollows'
  BY SMT, <1>1 DEF CueingInv, BearingFollows, target
<1>7. AzimuthFollows'
  BY SMT, <1>1 DEF CueingInv, AzimuthFollows, Calls, positioned, target
<1>8. ElevationFollows'
  BY SMT, <1>1, <1>2, FollowsAtOnce DEF CueingInv, ElevationFollows, positioned, Calls
<1>9. JsonFollows'
  BY SMT, <1>1, <1>3 DEF JsonFollows
<1>10. AnglesNormalized'
  BY <1>3 DEF AnglesNormalized
<1>11. DirectionKept'
  BY <1>3 DEF DirectionKept
<1>12. ReadsInside'
  BY SMT, <1>1 DEF CueingInv, ReadsInside
<1> QED
  BY <1>4, <1>5, <1>6, <1>7, <1>8, <1>9, <1>10, <1>11, <1>12 DEF CueingInv

LEMMA MoveKeeps == CueingInv /\ Move => CueingInv'
<1> SUFFICES ASSUME CueingInv, Move PROVE CueingInv'
  OBVIOUS
<1>1. /\ pc = "elevation" /\ pc' = "done"
      /\ loop = "lower" /\ ~full_turn(angleDeg)
      /\ json.az = azimuthDeg
      /\ json' = [ header |-> "MOVE", goTo |-> IF positioned THEN "ABS" ELSE "HOME",
                   az |-> json.az, el |-> angleDeg ]
      /\ order' = order
      /\ azimuthDeg' = azimuthDeg
      /\ elevationDeg' = elevationDeg
      /\ last_read' = last_read
      /\ angleDeg' = angleDeg
      /\ loop' = loop
  BY DEF Move, Returns, CueingInv, JsonFollows, positioned
<1>2. angleDeg \in Angles \cup {NaN} /\ azimuthDeg \in Angles \cup {NaN}
      /\ elevationDeg \in Angles \cup {NaN} /\ (angleDeg # NaN => angleDeg >= 0)
  BY <1>1 DEF CueingInv, CueingTypeOK, Progress
<1>3. /\ json' \in JsonType /\ json'.az = azimuthDeg /\ json'.el = angleDeg
      /\ json'.header = "MOVE"
  BY SMT, <1>1, <1>2, AnglesAreNumbers DEF JsonType
<1>4. /\ azimuthDeg # NaN => 0 <= azimuthDeg /\ azimuthDeg < Turn
      /\ ~positioned => azimuthDeg = 0 /\ elevationDeg = 0
      /\ positioned /\ order.goniometric # NaN =>
           azimuthDeg # NaN /\ Follows(azimuthDeg, target, 2 * Error)
      /\ positioned => elevationDeg = order.slope
      /\ elevationDeg = 0 => angleDeg = 0
      /\ elevationDeg # NaN => angleDeg # NaN /\ Follows(angleDeg, elevationDeg, Error)
  BY <1>1 DEF CueingInv, AzimuthFollows, ElevationFollows, Calls
<1>5. CueingTypeOK'
  BY SMT, <1>1, <1>3 DEF CueingInv, CueingTypeOK, JsonType, Calls
<1>6. Progress'
  BY SMT, <1>1 DEF CueingInv, Progress, Calls
<1>7. BearingFollows'
  BY SMT, <1>1 DEF CueingInv, BearingFollows, target
<1>8. AzimuthFollows'
  BY SMT, <1>1 DEF CueingInv, AzimuthFollows, Calls, positioned, target
<1>9. ElevationFollows'
  BY SMT, <1>1 DEF CueingInv, ElevationFollows, Calls, positioned
<1>10. JsonFollows'
  BY SMT, <1>1 DEF CueingInv, JsonFollows
<1>11. AnglesNormalized'
  BY SMT, <1>1, <1>2, <1>3, <1>4, AnglesAreNumbers, Constants
    DEF AnglesNormalized, full_turn
<1>12. DirectionKept'
  <2>1. order \in Order /\ order' = order
    BY <1>1 DEF CueingInv, CueingTypeOK
  <2>2. ASSUME positioned, order.goniometric # NaN
        PROVE  points("MOVE", azimuthDeg, target, 2 * Error)
    <3>1. azimuthDeg \in Int /\ Follows(azimuthDeg, target, 2 * Error)
      BY <2>2, <1>2, <1>4, AnglesAreNumbers
    <3>2. target \in Int /\ 2 * Error \in Int
      BY SMT, <2>1, <2>2, TargetIsNumber, Constants DEF target
    <3> QED
      BY <3>1, <3>2, MovePoints
  <2>3. ASSUME positioned, order.slope # NaN
        PROVE  points("MOVE", angleDeg, elevationDeg, Error)
    <3>1. angleDeg \in Int /\ Follows(angleDeg, elevationDeg, Error)
      BY <2>3, <1>2, <1>4, AnglesAreNumbers
    <3>2. elevationDeg \in Int /\ Error \in Int
      BY <2>3, <1>2, <1>4, AnglesAreNumbers, Constants
    <3> QED
      BY <3>1, <3>2, MovePoints
  <2> QED
    BY <2>1, <2>2, <2>3, <1>1, <1>3, <1>4 DEF DirectionKept, positioned, target, points
<1>13. ReadsInside'
  BY SMT, <1>1 DEF CueingInv, ReadsInside
<1> QED
  BY <1>5, <1>6, <1>7, <1>8, <1>9, <1>10, <1>11, <1>12, <1>13 DEF CueingInv

LEMMA DeltaKeeps == CueingInv /\ Delta => CueingInv'
<1> SUFFICES ASSUME CueingInv, Delta PROVE CueingInv'
  OBVIOUS
<1>1. /\ pc = "elevation" /\ pc' = "delta_azimuth"
      /\ loop = "lower" /\ loop' = "raise"
      /\ angleDeg' = azimuthDeg
      /\ order' = order
      /\ azimuthDeg' = azimuthDeg
      /\ elevationDeg' = elevationDeg
      /\ last_read' = last_read
      /\ json' = json
  BY DEF Delta, Returns, Call
<1>2. CueingTypeOK'
  BY SMT, <1>1 DEF CueingInv, CueingTypeOK, Calls
<1>3. Progress'
  BY SMT, <1>1 DEF CueingInv, Progress, Calls
<1>4. BearingFollows'
  BY SMT, <1>1 DEF CueingInv, BearingFollows, target
<1>5. AzimuthFollows'
  BY SMT, <1>1 DEF CueingInv, AzimuthFollows, Calls, positioned, target
<1>6. ElevationFollows'
  BY SMT, <1>1 DEF CueingInv, ElevationFollows, Calls, positioned
<1>7. JsonFollows'
  BY SMT, <1>1 DEF CueingInv, JsonFollows
<1>8. AnglesNormalized'
  BY SMT, <1>1 DEF CueingInv, AnglesNormalized
<1>9. DirectionKept'
  BY SMT, <1>1 DEF CueingInv, DirectionKept, points, in_units, half_degree
<1>10. ReadsInside'
  BY SMT, <1>1 DEF CueingInv, ReadsInside
<1> QED
  BY <1>2, <1>3, <1>4, <1>5, <1>6, <1>7, <1>8, <1>9, <1>10 DEF CueingInv

LEMMA DeltaAzimuthKeeps == CueingInv /\ DeltaAzimuth => CueingInv'
<1> SUFFICES ASSUME CueingInv, DeltaAzimuth PROVE CueingInv'
  OBVIOUS
<1>1. /\ pc = "delta_azimuth" /\ pc' = "delta_elevation"
      /\ loop = "lower" /\ loop' = "raise"
      /\ angleDeg = azimuthDeg /\ angleDeg' = elevationDeg
      /\ json.header = "none"
      /\ order' = order
      /\ azimuthDeg' = azimuthDeg
      /\ elevationDeg' = elevationDeg
      /\ last_read' = last_read
  BY DEF DeltaAzimuth, Returns, Call, CueingInv, Progress, Calls
<1>2. PICK code \in codes(angleDeg) : json' = [json EXCEPT !.az = code]
  BY DEF DeltaAzimuth
<1>3. /\ code \in Uint16
      /\ angleDeg # NaN => /\ 2 * whole_degrees(code) - 2 * angleDeg <= Degree
                           /\ -Degree <= 2 * whole_degrees(code) - 2 * angleDeg
      /\ angleDeg = 0 => code = 0
  BY <1>2, CodeIsNear DEF CueingInv, CueingTypeOK
<1>4. json' \in JsonType /\ json'.az = code /\ json'.header = "none"
  <2>1. code \in Int \cup {NaN}
    BY <1>3, Uint16AreNumbers
  <2> QED
    BY <2>1, <1>1, <1>2, JsonTyped, AzimuthSet
<1>5. azimuthDeg \in Angles \cup {NaN} /\ elevationDeg \in Angles \cup {NaN}
  BY DEF CueingInv, CueingTypeOK
<1>6. CueingTypeOK'
  BY SMT, <1>1, <1>4, <1>5 DEF CueingInv, CueingTypeOK, JsonType, Calls
<1>7. Progress'
  BY SMT, <1>1, <1>4 DEF Progress
<1>8. BearingFollows'
  BY SMT, <1>1 DEF CueingInv, BearingFollows, target
<1>9. AzimuthFollows'
  BY SMT, <1>1 DEF CueingInv, AzimuthFollows, Calls, positioned, target
<1>10. ElevationFollows'
  BY SMT, <1>1, <1>5, FollowsAtOnce DEF CueingInv, ElevationFollows, positioned, Calls
<1>11. JsonFollows'
  BY <1>1, <1>3, <1>4 DEF JsonFollows
<1>12. AnglesNormalized'
  BY <1>4 DEF AnglesNormalized
<1>13. DirectionKept'
  BY <1>4 DEF DirectionKept
<1>14. ReadsInside'
  BY SMT, <1>1 DEF CueingInv, ReadsInside
<1> QED
  BY <1>6, <1>7, <1>8, <1>9, <1>10, <1>11, <1>12, <1>13, <1>14 DEF CueingInv

LEMMA DeltaElevationKeeps == CueingInv /\ DeltaElevation => CueingInv'
<1> SUFFICES ASSUME CueingInv, DeltaElevation PROVE CueingInv'
  OBVIOUS
<1>1. /\ pc = "delta_elevation" /\ pc' = "done"
      /\ loop' = loop
      /\ order' = order
      /\ azimuthDeg' = azimuthDeg
      /\ elevationDeg' = elevationDeg
      /\ last_read' = last_read
      /\ angleDeg' = angleDeg
  BY DEF DeltaElevation, Returns
<1>2. PICK code \in codes(angleDeg) : json' = 
        [header |-> "DELTA", goTo |-> "none", az |-> json.az, el |-> code]
  BY DEF DeltaElevation
<1>3. /\ code \in Uint16
      /\ angleDeg # NaN => /\ 2 * whole_degrees(code) - 2 * angleDeg <= Degree
                           /\ -Degree <= 2 * whole_degrees(code) - 2 * angleDeg
      /\ angleDeg = 0 => code = 0
  BY <1>2, CodeIsNear DEF CueingInv, CueingTypeOK
<1>4. /\ json' \in JsonType /\ json'.el = code /\ json'.az = json.az
      /\ json'.header = "DELTA"
  <2>1. code \in Int \cup {NaN}
    BY <1>3, Uint16AreNumbers
  <2> QED
    BY SMT, <2>1, <1>2, JsonTyped DEF JsonType
<1>5. angleDeg \in Angles \cup {NaN} /\ azimuthDeg \in Angles \cup {NaN}
      /\ elevationDeg \in Angles \cup {NaN}
  BY DEF CueingInv, CueingTypeOK
<1>6. /\ json.az \in Uint16
      /\ azimuthDeg = 0 => json.az = 0
      /\ azimuthDeg # NaN =>
           /\ 2 * whole_degrees(json.az) - 2 * azimuthDeg <= Degree
           /\ -Degree <= 2 * whole_degrees(json.az) - 2 * azimuthDeg
      /\ ~positioned => azimuthDeg = 0 /\ elevationDeg = 0
      /\ positioned /\ order.goniometric # NaN =>
           azimuthDeg # NaN /\ Follows(azimuthDeg, target, 2 * Error)
      /\ positioned => elevationDeg = order.slope
      /\ elevationDeg = 0 => angleDeg = 0
      /\ elevationDeg # NaN => angleDeg # NaN /\ Follows(angleDeg, elevationDeg, Error)
  BY <1>1 DEF CueingInv, JsonFollows, AzimuthFollows, ElevationFollows, Calls
<1>7. CueingTypeOK'
  BY SMT, <1>1, <1>3, <1>4, <1>6 DEF CueingInv, CueingTypeOK, JsonType, Calls
<1>8. Progress'
  BY SMT, <1>1 DEF CueingInv, Progress, Calls
<1>9. BearingFollows'
  BY SMT, <1>1 DEF CueingInv, BearingFollows, target
<1>10. AzimuthFollows'
  BY SMT, <1>1 DEF CueingInv, AzimuthFollows, Calls, positioned, target
<1>11. ElevationFollows'
  BY SMT, <1>1 DEF CueingInv, ElevationFollows, Calls, positioned
<1>12. JsonFollows'
  BY SMT, <1>1 DEF CueingInv, JsonFollows
<1>13. AnglesNormalized'
  BY <1>4 DEF AnglesNormalized
<1>14. DirectionKept'
  <2>1. order \in Order /\ order' = order
    BY <1>1 DEF CueingInv, CueingTypeOK
  <2>2. ASSUME positioned, order.goniometric # NaN
        PROVE  points("DELTA", json.az, target, 2 * Error)
    <3>1. azimuthDeg \in Int /\ Follows(azimuthDeg, target, 2 * Error)
      BY <2>2, <1>5, <1>6, AnglesAreNumbers
    <3>2. target \in Int /\ 2 * Error \in Int
      BY SMT, <2>1, <2>2, TargetIsNumber, Constants DEF target
    <3>3. json.az \in Int
      BY <1>6, Uint16AreNumbers
    <3> QED
      BY <3>1, <3>2, <3>3, <1>6, DeltaPoints, FloatArithmetic
  <2>3. ASSUME positioned, order.slope # NaN
        PROVE  points("DELTA", code, elevationDeg, Error)
    <3>1. angleDeg \in Int /\ Follows(angleDeg, elevationDeg, Error)
      BY <2>3, <1>5, <1>6, AnglesAreNumbers
    <3>2. elevationDeg \in Int /\ Error \in Int
      BY <2>3, <1>5, <1>6, AnglesAreNumbers, Constants
    <3>3. code \in Int
      BY <1>3, Uint16AreNumbers
    <3> QED
      BY <3>1, <3>2, <3>3, <1>3, DeltaPoints, FloatArithmetic
  <2> QED
    BY <2>1, <2>2, <2>3, <1>1, <1>3, <1>4, <1>6
      DEF DirectionKept, positioned, target, points
<1>15. ReadsInside'
  BY SMT, <1>1 DEF CueingInv, ReadsInside
<1> QED
  BY <1>7, <1>8, <1>9, <1>10, <1>11, <1>12, <1>13, <1>14, <1>15 DEF CueingInv

LEMMA InvInit == CueingInit => CueingInv
<1> SUFFICES ASSUME CueingInit PROVE CueingInv
  OBVIOUS
<1>1. 0 \in Angles
  BY SMT, Constants DEF Angles
<1>2. json = [header |-> "none", goTo |-> "none", az |-> 0, el |-> 0]
  BY DEF CueingInit, Empty
<1>3. CueingTypeOK
  BY SMT, <1>1, <1>2, OrdersArePositions DEF CueingInit, CueingTypeOK
<1>4. Progress /\ BearingFollows /\ AzimuthFollows /\ ElevationFollows /\ JsonFollows
  BY SMT, <1>2 DEF CueingInit, Progress, BearingFollows, AzimuthFollows,
                   ElevationFollows, JsonFollows, Calls
<1>5. AnglesNormalized /\ DirectionKept /\ ReadsInside
  BY SMT, <1>2 DEF CueingInit, AnglesNormalized, DirectionKept, ReadsInside
<1> QED
  BY <1>3, <1>4, <1>5 DEF CueingInv

LEMMA InvStep == CueingInv /\ [CueingNext]_cueingVars => CueingInv'
<1> SUFFICES ASSUME CueingInv, [CueingNext]_cueingVars PROVE CueingInv'
  OBVIOUS
<1>1. CASE CueingNext
  BY <1>1, RaiseKeeps, LowerKeeps, DiscardKeeps, WithoutPositionKeeps, WithPositionKeeps,
     BearingKnownKeeps, AzimuthNormalizedKeeps, MoveKeeps, DeltaKeeps, DeltaAzimuthKeeps,
     DeltaElevationKeeps DEF CueingNext
<1>2. CASE UNCHANGED cueingVars
  BY <1>2
    DEF cueingVars, conversionVars, CueingInv, CueingTypeOK, Progress, BearingFollows,
     AzimuthFollows, ElevationFollows, JsonFollows, AnglesNormalized, DirectionKept,
     ReadsInside, positioned, target
<1> QED
  BY <1>1, <1>2

LEMMA CueingInvariant == CueingSpec => []CueingInv
BY InvInit, InvStep, PTL DEF CueingSpec

----------------------------------------------------------------------------
\* The conversion of a cueing order keeps its types: one turn added or taken
\* off is enough for every angle, and the angles of a DELTA are of 16 bits.
THEOREM CueingTypeCorrect == CueingSpec => []CueingTypeOK
<1>1. CueingInv => CueingTypeOK
  BY DEF CueingInv
<1> QED
  BY <1>1, CueingInvariant, PTL

\* For floats of any precision, mod360 leaves every angle of a MOVE in [0, 360).
THEOREM AnglesAreNormalized == CueingSpec => []AnglesNormalized
<1>1. CueingInv => AnglesNormalized
  BY DEF CueingInv
<1> QED
  BY <1>1, CueingInvariant, PTL

\* Whatever its position, the command of a cueing order points there, up to
\* two roundings and, for a DELTA, half a degree.
THEOREM DirectionIsKept == CueingSpec => []DirectionKept
<1>1. CueingInv => DirectionKept
  BY DEF CueingInv
<1> QED
  BY <1>1, CueingInvariant, PTL

\* Whatever the size and the kinematics type of an order, its handler reads no
\* byte past its end.
THEOREM ReadsAreInside == CueingSpec => []ReadsInside
<1>1. CueingInv => ReadsInside
  BY DEF CueingInv
<1> QED
  BY <1>1, CueingInvariant, PTL

-----------------------------------------------------------------------------
(* Termination: every step is one of the 21 that a conversion has at most. *)

\* What is left, call by call.
RemainingFacts ==
  /\ pc = "start" => remaining = 21
  /\ pc = "done" => remaining = 0
  /\ pc = "bearing" => remaining = 16 + steps_of_call
  /\ pc = "azimuth" => remaining = 12 + steps_of_call
  /\ pc = "elevation" => remaining = 8 + steps_of_call
  /\ pc = "delta_azimuth" => remaining = 4 + steps_of_call
  /\ pc = "delta_elevation" => remaining = steps_of_call
  /\ steps_of_call \in 1..4
  /\ pc \in {"start", "done", "bearing", "azimuth", "elevation",
             "delta_azimuth", "delta_elevation"}

LEMMA RemainingOf == CueingTypeOK => RemainingFacts
<1> SUFFICES ASSUME CueingTypeOK PROVE RemainingFacts
  OBVIOUS
<1>1. /\ calls_after["bearing"] = 4 /\ calls_after["azimuth"] = 3
      /\ calls_after["elevation"] = 2 /\ calls_after["delta_azimuth"] = 1
      /\ calls_after["delta_elevation"] = 0
  BY DEF calls_after
<1>2. steps_of_call \in 1..4
  BY DEF steps_of_call
<1>3. pc \in {"start", "done", "bearing", "azimuth", "elevation",
              "delta_azimuth", "delta_elevation"}
  BY DEF CueingTypeOK, Calls
<1> QED
  BY <1>1, <1>2, <1>3 DEF remaining, RemainingFacts

\* A call of mod360 that goes on has one step less to go.
LEMMA LoopAdvances ==
  ASSUME CueingTypeOK, Raise \/ Lower
  PROVE  steps_of_call' < steps_of_call
<1>1. angleDeg \in Angles \cup {NaN}
  BY DEF CueingTypeOK
<1>2. CASE Raise /\ negative(angleDeg)
  <2>1. /\ loop = "raise" /\ loop' = "raise"
        /\ angleDeg # NaN /\ angleDeg < 0
        /\ angleDeg' \in Angles /\ angleDeg' >= 0
    BY <1>1, <1>2, RaiseSum DEF Raise, negative
  <2>2. steps_of_call = 4
    BY <2>1 DEF steps_of_call
  <2>3. ~(angleDeg' < 0)
    BY <2>1, AnglesAreNumbers
  <2>4. steps_of_call' = 3
    BY <2>1, <2>3 DEF steps_of_call
  <2> QED
    BY <2>2, <2>4
<1>3. CASE Raise /\ ~negative(angleDeg)
  BY <1>3 DEF Raise, negative, steps_of_call
<1>4. CASE Lower
  <2>1. angleDeg = Turn /\ angleDeg' = 0 /\ loop = "lower" /\ loop' = "lower"
    BY <1>1, <1>4, LowerSum DEF Lower
  <2>2. 0 # Turn
    BY Constants
  <2> QED
    BY <2>1, <2>2 DEF steps_of_call
<1> QED
  BY <1>2, <1>3, <1>4

LEMMA StepAdvances ==
  ASSUME CueingTypeOK, CueingTypeOK', CueingNext
  PROVE  0 <= remaining' /\ remaining' < remaining /\ remaining <= 21
<1>1. RemainingFacts /\ RemainingFacts'
  BY RemainingOf, PTL
<1>2. CASE Raise \/ Lower
  <2>1. pc' = pc /\ pc \in Calls
    BY <1>2 DEF Raise, Lower
  <2> QED
    BY <1>1, <1>2, <2>1, LoopAdvances DEF Calls, RemainingFacts
<1>3. CASE Discard \/ WithoutPosition \/ WithPosition
  BY <1>1, <1>3 DEF Discard, WithoutPosition, WithPosition, Call, RemainingFacts
<1>4. CASE BearingKnown \/ AzimuthNormalized \/ Move \/ Delta \/ DeltaAzimuth \/ DeltaElevation
  BY <1>1, <1>4
    DEF BearingKnown, AzimuthNormalized, Move, Delta, DeltaAzimuth, DeltaElevation,
        Returns, Call, RemainingFacts
<1> QED
  BY <1>2, <1>3, <1>4 DEF CueingNext

\* Whatever the floats round to, no angle keeps a loop of mod360 running: a
\* conversion has 21 steps at most.
THEOREM ConversionsAdvance == CueingSpec => EveryStepAdvances
<1> DEFINE Advances == 0 <= remaining' /\ remaining' < remaining /\ remaining <= 21
<1>1. CueingInv /\ CueingInv' /\ [CueingNext]_cueingVars => [Advances]_cueingVars
  BY StepAdvances DEF CueingInv
<1> QED
  BY <1>1, CueingInvariant, PTL DEF CueingSpec, EveryStepAdvances

=============================================================================
