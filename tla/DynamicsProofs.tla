---------------------------- MODULE DynamicsProofs ----------------------------
(***************************************************************************)
(* For every field, every mass, drag, wall, threshold, force and window:   *)
(* the drone stays in the field, is drawn inside the frame, and rests      *)
(* exactly when nothing acts on it.                                        *)
(***************************************************************************)
EXTENDS Dynamics, TLAPS

(* \div by a positive number gives an integer, between the bounds that the *)
(* divisor gives it.                                                       *)
LEMMA DivInt ==
  ASSUME NEW a \in Int, NEW b \in Int, b > 0
  PROVE  a \div b \in Int
BY SMT

LEMMA DivBounds ==
  ASSUME NEW a \in Int, NEW b \in Int, b > 0, NEW c \in Int, 0 <= a, a < b * c
  PROVE  /\ 0 <= a \div b
         /\ a \div b < c
<1>1. /\ a \div b \in Int
      /\ b * (a \div b) <= a
      /\ a < b * (a \div b) + b
  BY SMT
<1>2. ASSUME a \div b < 0 PROVE FALSE
  BY <1>1, <1>2, SMT
<1>3. ASSUME a \div b >= c PROVE FALSE
  BY <1>1, <1>3, SMT
<1> QED
  BY <1>1, <1>2, <1>3, SMT

(* The rounding of the next position gives an integer.                     *)
LEMMA QuotientInt ==
  ASSUME NEW a \in Int, NEW b \in Int, b > 0
  PROVE  Quotient(a, b) \in Int
<1>1. /\ a \div b \in Int
      /\ (a + b - 1) \div b \in Int
  BY DivInt, SMT
<1> QED
  BY <1>1 DEF Quotient

-----------------------------------------------------------------------------
(* The force of the walls is finite wherever the drone does not touch them.*)
LEMMA RepulsiveInt ==
  ASSUME NEW d \in Int, d > 0
  PROVE  repulsive_force(d) \in Int
<1>1. Scale \in Int /\ Area \in Int
  BY DynamicsAssumption
<1>2. Scale * Scale * (Area - d) \in Int
  BY <1>1, SMT
<1> QED
  BY <1>2, DivInt DEF repulsive_force

LEMMA WallsInt ==
  ASSUME p1 \in 0..Size, ~AtLow, ~AtHigh
  PROVE  Walls \in Int
<1>1. Size \in Int /\ Area \in Int
  BY DynamicsAssumption
<1>2. CASE p1 < Area
  <2>1. p1 > 0
    BY <1>1, <1>2 DEF AtLow
  <2>2. repulsive_force(p1) \in Int
    BY <2>1, RepulsiveInt
  <2> QED
    BY <1>2, <2>2 DEF Walls
<1>3. CASE ~(p1 < Area) /\ p1 > Size - Area
  <2>1. Size - p1 \in Int /\ Size - p1 > 0
    BY <1>1, <1>3 DEF AtHigh
  <2>2. repulsive_force(Size - p1) \in Int
    BY <2>1, RepulsiveInt
  <2>3. -repulsive_force(Size - p1) \in Int
    BY <2>2, SMT
  <2> QED
    BY <1>3, <2>3 DEF Walls
<1>4. CASE ~(p1 < Area) /\ ~(p1 > Size - Area)
  BY <1>4 DEF Walls
<1> QED
  BY <1>2, <1>3, <1>4

(* The position computed is a number, whatever acts on the drone.          *)
LEMMA ComputedInt ==
  ASSUME TypeOK, NEW threshold \in Int
  PROVE  Computed(threshold) \in Int
<1>1. /\ Size \in Int /\ Inertia \in Int /\ Inertia > 0 /\ Drag \in Int /\ Drag >= 0
      /\ MaxForce \in Int
  BY DynamicsAssumption
<1>2. p1 \in Int /\ p2 \in Int /\ force \in Int /\ p1 \in 0..Size
  BY <1>1 DEF TypeOK
<1>3. CASE AtLow
  BY <1>1, <1>3 DEF Computed
<1>4. CASE ~AtLow /\ AtHigh
  BY <1>4 DEF Computed
<1>5. CASE ~AtLow /\ ~AtHigh /\ Resting(threshold)
  BY <1>2, <1>5 DEF Computed
<1>6. CASE ~AtLow /\ ~AtHigh /\ ~Resting(threshold)
  <2>1. Walls \in Int
    BY <1>2, <1>6, WallsInt
  <2>2. Inertia * Velocity \in Int
    BY <1>1, <1>2 DEF Velocity
  <2>3. /\ Walls + force + Inertia * Velocity \in Int
        /\ Inertia + Drag \in Int /\ Inertia + Drag > 0
    BY <1>1, <1>2, <2>1, <2>2
  <2>4. Quotient(Walls + force + Inertia * Velocity, Inertia + Drag) \in Int
    BY <2>3, QuotientInt
  <2>5. p1 + Quotient(Walls + force + Inertia * Velocity, Inertia + Drag) \in Int
    BY <1>2, <2>4
  <2> QED
    BY <1>6, <2>5 DEF Computed
<1> QED
  BY <1>3, <1>4, <1>5, <1>6

(* The borders bring any position back into the field.                     *)
LEMMA EnforcedInside ==
  ASSUME NEW p \in Int
  PROVE  Enforced(p) \in 0..Size
BY DynamicsAssumption DEF Enforced

(* No key takes the force beyond its limit.                                *)
LEMMA ClampedBounded ==
  ASSUME NEW f \in Int
  PROVE  Clamped(f) \in -MaxForce..MaxForce
BY DynamicsAssumption DEF Clamped

LEMMA ForceBounded ==
  ASSUME TypeOK, NEW key \in Keys
  PROVE  update_force(force, key) \in -MaxForce..MaxForce
<1>1. /\ MaxForce \in Int /\ MaxForce >= 0 /\ Step \in Int /\ Diag \in Int
      /\ force \in Int
  BY DynamicsAssumption DEF TypeOK
<1>2. CASE key \in Moves
  <2>1. Adds[axis][key] \in Int
    BY <1>1, <1>2 DEF Adds, Moves, TypeOK
  <2>2. force + Adds[axis][key] \in Int
    BY <1>1, <2>1
  <2>3. Clamped(force + Adds[axis][key]) \in -MaxForce..MaxForce
    BY <2>2, ClampedBounded
  <2>4. key # "s"
    BY <1>2 DEF Moves
  <2> QED
    BY <1>2, <2>3, <2>4 DEF update_force
<1>3. CASE key = "s"
  BY <1>1, <1>3 DEF update_force
<1>4. CASE key \notin Moves /\ key # "s"
  <2>1. Clamped(force) \in -MaxForce..MaxForce
    BY <1>1, ClampedBounded
  <2> QED
    BY <1>4, <2>1 DEF update_force
<1> QED
  BY <1>2, <1>3, <1>4

-----------------------------------------------------------------------------
(* Type correctness: the drone never leaves the field, not even when it    *)
(* overshoots a wall or the wall's force is infinite, and the force of the *)
(* user stays within its limits.                                           *)
THEOREM TypeCorrect == Spec => []TypeOK
<1>1. Init => TypeOK
  BY DynamicsAssumption DEF Init, TypeOK
<1>2. TypeOK /\ [Next]_vars => TypeOK'
  <2> SUFFICES ASSUME TypeOK, [Next]_vars PROVE TypeOK'
    OBVIOUS
  <2>1. CASE Drone
    <3>1. Threshold \in Int
      BY DynamicsAssumption
    <3>2. Enforced(Computed(Threshold)) \in 0..Size
      BY <3>1, ComputedInt, EnforcedInside
    <3> QED
      BY <2>1, <3>2 DEF Drone, Iterate, TypeOK
  <2>2. ASSUME NEW key \in Keys, Press(key) PROVE TypeOK'
    BY <2>2, ForceBounded DEF Press, TypeOK
  <2>3. CASE UNCHANGED vars
    BY <2>3 DEF vars, TypeOK
  <2> QED
    BY <2>1, <2>2, <2>3 DEF Next
<1> QED
  BY <1>1, <1>2, PTL DEF Spec

(* A position in the field is projected inside the frame, at every size of *)
(* the window.                                                             *)
LEMMA ProjectionInside ==
  ASSUME NEW p \in 0..Size, NEW w \in Windows
  PROVE  Projection(p, w) \in 1..(w - 2)
<1>1. Size \in Int /\ Size > 0 /\ w \in Int /\ w - 3 \in Int /\ w - 3 >= 0
  BY DynamicsAssumption
<1> DEFINE v == w - 3
           a == 2 * p * v + Size
           b == 2 * Size
<1>2. p \in Int /\ 0 <= p /\ p <= Size /\ v \in Int /\ v >= 0
  BY <1>1
<1> HIDE DEF v
<1>3. 0 <= p * v /\ p * v \in Int /\ Size * v \in Int
  BY <1>1, <1>2
<1>4. p * v <= Size * v
  BY <1>1, <1>2
<1>5. 2 * p * v = 2 * (p * v)
  BY <1>2
<1>6. a \in Int /\ 0 <= a /\ a <= 2 * (Size * v) + Size
  BY <1>1, <1>3, <1>4, <1>5
<1>7. b * (v + 1) = 2 * (Size * v) + 2 * Size
  BY <1>1, <1>2
<1>8. b \in Int /\ b > 0 /\ v + 1 \in Int
  BY <1>1, <1>2
<1> HIDE DEF a, b
<1>9. a < b * (v + 1)
  BY <1>1, <1>3, <1>6, <1>7
<1>10. PICK q \in Int : q = a \div b /\ 0 <= q /\ q < v + 1
  BY <1>6, <1>8, <1>9, DivBounds, DivInt
<1>11. Projection(p, w) = 1 + q
  BY <1>10 DEF Projection, Rounded, a, b, v
<1>12. 1 + q \in 1..(w - 2)
  BY <1>1, <1>10 DEF v
<1> QED
  BY <1>11, <1>12

(* Whatever the user does, the drone is drawn inside the frame.            *)
THEOREM AlwaysDrawnInside == Spec => []DrawnInside
<1>1. TypeOK => DrawnInside
  BY ProjectionInside DEF TypeOK, DrawnInside
<1> QED
  BY <1>1, TypeCorrect, PTL
-----------------------------------------------------------------------------
(* Rounding away from zero loses no force: the quotient is 0 only for 0.   *)
LEMMA QuotientZero ==
  ASSUME NEW a \in Int, NEW b \in Int, b > 0
  PROVE  Quotient(a, b) = 0 <=> a = 0
<1>1. CASE a >= 0
  <2>1. PICK q \in Int : q = (a + b - 1) \div b
    BY DivInt, SMT
  <2>2. b * q <= a + b - 1 /\ a + b - 1 < b * q + b
    BY <2>1, SMT
  <2>3. q = 0 <=> a = 0
    <3>1. ASSUME q = 0 PROVE a = 0
      BY <1>1, <2>2, <3>1, SMT
    <3>2. ASSUME a = 0 PROVE q = 0
      <4>1. b * q < b /\ 0 < b * q + b
        BY <2>2, <3>2, SMT
      <4>2. ~(q >= 1)
        <5>1. ASSUME q >= 1 PROVE b * q >= b
          BY <5>1, SMT
        <5> QED
          BY <4>1, <5>1, SMT
      <4>3. ~(q <= -1)
        <5>1. ASSUME q <= -1 PROVE b * q <= -b
          BY <5>1, SMT
        <5> QED
          BY <4>1, <5>1, SMT
      <4> QED
        BY <4>2, <4>3, SMT
    <3> QED
      BY <3>1, <3>2
  <2> QED
    BY <1>1, <2>1, <2>3 DEF Quotient
<1>2. CASE ~(a >= 0)
  <2>1. PICK q \in Int : q = a \div b
    BY DivInt, SMT
  <2>2. b * q <= a
    BY <2>1, SMT
  <2>3. q # 0
    BY <1>2, <2>2, SMT
  <2> QED
    BY <1>2, <2>1, <2>3 DEF Quotient
<1> QED
  BY <1>1, <1>2

(***************************************************************************)
(* A drone at rest, out of the reach of the walls, is at rest after the    *)
(* next iteration exactly if there is no force: the threshold holds it and *)
(* swallows no force however small.  (With walls that reach two units the  *)
(* border cannot put it back where it was.)                                *)
(***************************************************************************)
THEOREM RestIsExact ==
  ASSUME Area > 1
  PROVE  Spec => [][Drone /\ AtRest => (AtRest' <=> force = 0)]_vars
<1>1. TypeOK /\ Drone /\ AtRest => (AtRest' <=> force = 0)
  <2> SUFFICES ASSUME TypeOK, Drone, AtRest PROVE AtRest' <=> force = 0
    OBVIOUS
  <2>1. /\ Size \in Int /\ Inertia \in Int /\ Inertia > 0 /\ Drag \in Int /\ Drag >= 0
        /\ Area \in Int /\ Threshold \in Int /\ Size > 1
    BY DynamicsAssumption
  <2>2. p1 \in Int /\ force \in Int /\ p1 = p2 /\ Area <= p1 /\ p1 <= Size - Area
    BY <2>1, DynamicsAssumption DEF TypeOK, AtRest
  <2>3. ~AtLow /\ ~AtHigh /\ Walls = 0 /\ Velocity = 0
    BY <2>1, <2>2 DEF AtLow, AtHigh, Walls, Velocity
  <2> DEFINE q == Quotient(force, Inertia + Drag)
  <2>4. q \in Int /\ (q = 0 <=> force = 0)
    BY <2>1, <2>2, QuotientInt, QuotientZero
  <2>5. Computed(Threshold) = p1 + q
    <3>1. Walls + force + Inertia * Velocity = force
      BY <2>1, <2>2, <2>3
    <3>2. CASE Resting(Threshold)
      <4>1. q = 0
        BY <2>4, <3>2 DEF Resting
      <4> HIDE DEF q
      <4> QED
        BY <2>2, <2>3, <3>2, <4>1 DEF Computed
    <3>3. CASE ~Resting(Threshold)
      BY <2>3, <3>1, <3>3 DEF Computed
    <3> QED
      BY <3>2, <3>3
  <2> HIDE DEF q
  <2>6. p1' = Enforced(p1 + q) /\ p2' = p1
    BY <2>5 DEF Drone, Iterate
  <2>7. Enforced(p1 + q) = p1 <=> q = 0
    BY <2>1, <2>2, <2>4 DEF Enforced
  <2> QED
    BY <2>1, <2>2, <2>4, <2>6, <2>7 DEF AtRest
<1> QED
  BY <1>1, TypeCorrect, PTL
=============================================================================
