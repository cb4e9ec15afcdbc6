------------------------------- MODULE Dynamics -------------------------------
(***************************************************************************)
(* What input, drone and map compute along one axis: the force the keys    *)
(* give, the next position, the border, the column or row of the screen.   *)
(*                                                                         *)
(* Floats are integers of some small unit.  One iteration of the drone     *)
(* solves M a + K v = F for the next position:                             *)
(*     p' = (F - M/T^2 (p2 - 2 p1) + K/T p1) / (M/T^2 + K/T)               *)
(*        = p1 + (F + Inertia (p1 - p2)) / (Inertia + Drag)                *)
(* with Inertia = M/T^2 and Drag = K/T.  The quotient is rounded away from *)
(* zero, so that drag alone never brings a velocity to 0, as with floats;  *)
(* the threshold has to.                                                   *)
(***************************************************************************)
EXTENDS Integers

CONSTANTS
  Size,          \* SIMULATION_WIDTH and SIMULATION_HEIGHT
  Inertia, Drag,
  Area, Scale,   \* area_of_effect, function_scale
  Threshold,     \* ZERO_THRESHOLD times T
  Step, Diag,    \* force_step, and what diag makes of it
  MaxForce,
  Windows        \* the sizes of the map's window, borders included

ASSUME DynamicsAssumption ==
  /\ Size \in Nat /\ Size > 1
  /\ Inertia \in Nat \ {0} /\ Drag \in Nat
  /\ Area \in Nat /\ Scale \in Nat /\ Threshold \in Nat
  /\ Scale * Scale + 1 >= Area  \* no repulsive force is rounded to 0
  /\ Step \in Nat /\ Diag \in Nat /\ MaxForce \in Nat
  /\ \A w \in Windows : w \in Nat /\ w >= 3

VARIABLES
  axis,   \* "x" or "y"
  force,  \* the user's force, as in shared memory
  p1, p2  \* the last two positions

vars == <<axis, force, p1, p2>>

Init ==
  /\ axis \in {"x", "y"}
  /\ force = 0
  /\ p1 \in 1..(Size - 1)
  /\ p2 = p1

-----------------------------------------------------------------------------
(* input: update_force *)

\* What a key adds to the force: left and up are negative.
Adds == [x |-> [q |-> -Diag, w |-> 0,     e |-> Diag,
                a |-> -Step,              d |-> Step,
                z |-> -Diag, x |-> 0,     c |-> Diag],
         y |-> [q |-> -Diag, w |-> -Step, e |-> -Diag,
                a |-> 0,                  d |-> 0,
                z |-> Diag,  x |-> Step,  c |-> Diag]]

Moves == {"q", "w", "e", "a", "d", "z", "x", "c"}

\* s and the space bar stop; any other key, or none, leaves the force alone.
Keys == Moves \cup {"s", "other"}

Unclamped(f) == f  \* mutant

Clamped(f) == IF f > MaxForce THEN MaxForce ELSE IF f < -MaxForce THEN -MaxForce ELSE f

update_force(f, key) ==
  IF key = "s" THEN 0
  ELSE IF key \in Moves THEN Clamped(f + Adds[axis][key])
  ELSE Clamped(f)

Press(key) ==
  /\ force' = update_force(force, key)
  /\ UNCHANGED <<axis, p1, p2>>

-----------------------------------------------------------------------------
(* drone *)

Quotient(a, b) == IF a >= 0 THEN (a + b - 1) \div b ELSE a \div b

\* Scale (Area - d) / (d / Scale), for d # 0.
repulsive_force(d) == (Scale * Scale * (Area - d)) \div d

\* Against a wall the division by 0 gives an infinite force.
AtLow == p1 = 0 /\ Area > 0
AtHigh == ~(p1 < Area) /\ p1 = Size /\ Area > 0

Walls ==
  IF p1 < Area THEN repulsive_force(p1)
  ELSE IF p1 > Size - Area THEN -repulsive_force(Size - p1)
  ELSE 0

Velocity == p1 - p2

RestingUnderForce(threshold) ==  \* mutant: the force is not looked at
  /\ Velocity < threshold /\ Velocity > -threshold
  /\ ~AtLow /\ ~AtHigh /\ Walls = 0

\* Slow, and nothing but drag acts on it.
Resting(threshold) ==
  /\ Velocity < threshold /\ Velocity > -threshold
  /\ ~AtLow /\ ~AtHigh /\ Walls = 0
  /\ force = 0

\* The position before the borders are enforced.  An infinite force carries
\* the drone beyond the other wall.
Computed(threshold) ==
  IF AtLow THEN Size + 1
  ELSE IF AtHigh THEN -1
  ELSE IF Resting(threshold) THEN p1
  ELSE p1 + Quotient(Walls + force + Inertia * Velocity, Inertia + Drag)

\* Beyond the right wall: one unit inside it.  Beyond the bottom: y = 1.
Enforced(p) ==
  IF p > Size THEN (IF axis = "x" THEN Size - 1 ELSE 1)
  ELSE IF p < 0 THEN 1
  ELSE p

Iterate(threshold) ==
  /\ p1' = Enforced(Computed(threshold))
  /\ p2' = p1
  /\ UNCHANGED <<axis, force>>

NoThreshold == Iterate(0)  \* mutant
Drone == Iterate(Threshold)

-----------------------------------------------------------------------------
Next == Drone \/ \E key \in Keys : Press(key)

Spec == Init /\ [][Next]_vars

\* The drone sleeps T between two iterations, and then goes on.
FairSpec == Spec /\ WF_vars(Drone)

-----------------------------------------------------------------------------
(* map *)

\* round(1 + p (w - 3) / Size): rounded to the nearest, halves away from 0.
Rounded(p, w, border) == 1 + (2 * p * (w - border) + Size) \div (2 * Size)
BorderOfTwo(p, w) == Rounded(p, w, 2)  \* mutant
Projection(p, w) == Rounded(p, w, 3)

-----------------------------------------------------------------------------
TypeOK ==
  /\ axis \in {"x", "y"}
  /\ force \in -MaxForce..MaxForce
  /\ p1 \in 0..Size
  /\ p2 \in 0..Size

(***************************************************************************)
(* Whatever the force, the drone is drawn inside the frame of the map, at  *)
(* every size of the window: overshooting a wall, or an infinite force     *)
(* against it, never takes it out of the field.                            *)
(***************************************************************************)
DrawnInside == \A w \in Windows : Projection(p1, w) \in 1..(w - 2)

(***************************************************************************)
(* When the user no longer applies a force, the drone comes to rest, out of*)
(* the reach of the walls.                                                 *)
(***************************************************************************)
AtRest == p1 = p2 /\ p1 \in Area..(Size - Area)

ComesToRest == <>[](force = 0) => <>[]AtRest

(***************************************************************************)
(* The rule that stops a slow drone does not swallow a small force: as long*)
(* as there is one, the drone does not stand still in the open field.      *)
(***************************************************************************)
ForceMoves == <>[](force # 0) => []<>~AtRest

(***************************************************************************)
(* drone.c:222: "when the position is less than 0 it's then set at 1", and *)
(* "The same goes for all the other walls."  Violated: beyond the bottom,  *)
(* y is set to 1 as well, at the opposite wall.                            *)
(***************************************************************************)
PutBackInside ==
  [][Drone /\ ~AtLow /\ Computed(Threshold) > Size => p1' = Size - 1]_vars
=============================================================================
