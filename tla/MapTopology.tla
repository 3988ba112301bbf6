---------------------------- MODULE MapTopology ----------------------------
(***************************************************************************)
(* Map and its topologies but the sphere: a unit that moves over an edge   *)
(* of the map comes back in over another one, and is turned with its       *)
(* velocity where the edges are glued with a twist.  Heights and the       *)
(* turning of units by themselves do not matter here.                      *)
(*                                                                         *)
(* The loops of resolvePosition that add or subtract a width until the     *)
(* position is on the map are written by what they compute, a remainder,   *)
(* and how often they run, a quotient.                                     *)
(***************************************************************************)
EXTENDS Integers

CONSTANTS
    Left, Bottom,       \* the map's least coordinates
    Right, Top,         \* those just beyond its greatest
    Topologies,
    Speed               \* bound: the greatest component of a velocity

Width == Right - Left
Height == Top - Bottom

ASSUME MapAssumption ==
    /\ {Left, Bottom, Right, Top} \subseteq Int /\ Left < Right /\ Bottom < Top
    /\ Topologies \subseteq {"plane", "cylinder", "torus", "mobius", "klein", "crosscut"}
    /\ Speed \in Nat

VARIABLES topology, position, velocity, facing
vars == <<topology, position, velocity, facing>>

Columns == Left .. Right - 1
Rows == Bottom .. Top - 1
Area == [x : Columns, y : Rows]
Steps(n) == [x : -n .. n, y : -n .. n]
Plus(p, q) == [x |-> p.x + q.x, y |-> p.y + q.y]
Minus(p, q) == [x |-> p.x - q.x, y |-> p.y - q.y]
Square(p) == p.x * p.x + p.y * p.y

\* An orientation is a product of reflections: which axes are turned round
Orientation == [x : {1, -1}, y : {1, -1}]
Identity == [x |-> 1, y |-> 1]
Times(o, p) == [x |-> o.x * p.x, y |-> o.y * p.y]

ReflectX(x) == Right - (x - Left + 1)
ReflectY(y) == Top - (y - Bottom + 1)

\* Mutant: the column just beyond the map is taken for one of it
ClampXLate(x) == IF x < Left THEN Left ELSE IF x > Right THEN Right - 1 ELSE x
ClampX(x) == IF x < Left THEN Left ELSE IF x >= Right THEN Right - 1 ELSE x
ClampY(y) == IF y < Bottom THEN Bottom ELSE IF y >= Top THEN Top - 1 ELSE y

\* Where the loops end, and how often they have run, counted downwards if they
\* were those that add
WrapX(x) == Left + ((x - Left) % Width)
WrapY(y) == Bottom + ((y - Bottom) % Height)
RoundX(x) == (x - Left) \div Width
RoundY(y) == (y - Bottom) \div Height
Odd(n) == n % 2 = 1
Sign(n) == IF Odd(n) THEN -1 ELSE 1

Resolved(x, y, o, truncated) ==
    [point |-> [x |-> x, y |-> y], turn |-> o, truncated |-> truncated]

Plane(p) ==
    Resolved(ClampX(p.x), ClampY(p.y), Identity, p.x \notin Columns \/ p.y \notin Rows)

Cylinder(p) == Resolved(WrapX(p.x), ClampY(p.y), Identity, p.y \notin Rows)

Torus(p) == Resolved(WrapX(p.x), WrapY(p.y), Identity, FALSE)

\* Mutant: the orientation is not told of the reflection
MobiusUnturned(p) ==
    LET y == IF Odd(RoundX(p.x)) THEN ReflectY(p.y) ELSE p.y
    IN  Resolved(WrapX(p.x), ClampY(y), Identity, y \notin Rows)
Mobius(p) ==
    LET y == IF Odd(RoundX(p.x)) THEN ReflectY(p.y) ELSE p.y
    IN  Resolved(WrapX(p.x), ClampY(y), [x |-> 1, y |-> Sign(RoundX(p.x))], y \notin Rows)

\* The turns over the bottom and over the top edge are not the same
TurnOverY(n) ==
    IF n < 0 THEN [x |-> Sign(n), y |-> 1] ELSE [x |-> 1, y |-> Sign(n)]

Klein(p) ==
    LET n == RoundY(p.y)
        x == WrapX(p.x)
    IN  Resolved(IF Odd(n) THEN ReflectX(x) ELSE x, WrapY(p.y), TurnOverY(n), FALSE)

Crosscut(p) ==
    LET m == RoundX(p.x)
        y == IF Odd(m) THEN ReflectY(p.y) ELSE p.y
        n == RoundY(y)
        x == WrapX(p.x)
    IN  Resolved(IF Odd(n) THEN ReflectX(x) ELSE x, WrapY(y),
                 Times(TurnOverY(n), [x |-> 1, y |-> Sign(m)]), FALSE)

ResolvePosition(p) ==
    CASE topology = "plane"    -> Plane(p)
      [] topology = "cylinder" -> Cylinder(p)
      [] topology = "torus"    -> Torus(p)
      [] topology = "mobius"   -> Mobius(p)
      [] topology = "klein"    -> Klein(p)
      [] topology = "crosscut" -> Crosscut(p)

AddToPosition(p, inc) == ResolvePosition(Plus(p, inc))

\* Mutant: the third way goes back only to where it came from
MobiusDifferenceNear(a, b) ==
    LET straight == Minus(a, b)
        leftward == Minus([x |-> a.x - Width, y |-> ReflectY(a.y)], b)
        rightward == [leftward EXCEPT !.x = @ + Width]
    IN  IF Square(straight) <= Square(leftward) /\ Square(straight) <= Square(rightward)
        THEN straight
        ELSE IF Square(leftward) <= Square(rightward) THEN leftward ELSE rightward

\* Of the three ways there, straight or over an edge, the shortest
MobiusDifference(a, b) ==
    LET straight == Minus(a, b)
        leftward == Minus([x |-> a.x - Width, y |-> ReflectY(a.y)], b)
        rightward == [leftward EXCEPT !.x = @ + 2 * Width]
    IN  IF Square(straight) <= Square(leftward) /\ Square(straight) <= Square(rightward)
        THEN straight
        ELSE IF Square(leftward) <= Square(rightward) THEN leftward ELSE rightward
\* Elsewhere than on these two it is a fatal error, "not implemented"
GetShortestDifference(a, b) ==
    IF topology = "mobius" THEN MobiusDifference(a, b) ELSE Minus(a, b)

-----------------------------------------------------------------------------
Init ==
    /\ topology \in Topologies
    /\ position \in Area /\ velocity = [x |-> 0, y |-> 0] /\ facing = Identity

\* A motion handler sets the velocity
Steer ==
    /\ velocity' \in Steps(Speed)
    /\ UNCHANGED <<topology, position, facing>>

Transform ==
    LET to == AddToPosition(position, velocity)
    IN  /\ position' = to.point
        /\ velocity' = Times(to.turn, velocity)
        /\ facing' = Times(to.turn, facing)
        /\ UNCHANGED topology

Next == Steer \/ Transform
Spec == Init /\ [][Next]_vars

-----------------------------------------------------------------------------
\* Types; in particular, "this method guaranteed to yield a point inside the map"
\* (Map::addToPosition), for every topology.
TypeOK ==
    /\ topology \in Topologies /\ position \in Area
    /\ velocity \in Steps(Speed) /\ facing \in Orientation

\* Two moves end where one move by both ends, turned as much: whether a unit
\* crosses an edge in one tick or in two, goes over it and back, or goes around
\* the map, it comes to the same place and faces the same way.  So it is unless
\* an edge stops it, on the maps whose edges are glued alike from either side.
Alike == {"plane", "cylinder", "torus", "mobius"}
StepsAddUp ==
    topology \in Alike =>
      LET first == AddToPosition(position, velocity)
      IN  \A more \in Steps(2 * Speed) :
            LET second == AddToPosition(first.point, Times(first.turn, more))
                both == AddToPosition(position, Plus(velocity, more))
            IN  first.truncated \/ second.truncated \/
                (both.point = second.point /\ both.turn = Times(second.turn, first.turn))

\* "Technically, it returns the shortest vector x such that addToPosition(op2,x)
\* ==op1" (Map::getShortestDifference), where it is implemented.
WayIsShortest ==
    topology \in {"plane", "mobius"} =>
      \A goal \in Area :
        LET way == GetShortestDifference(goal, position)
        IN  /\ AddToPosition(position, way).point = goal
            /\ \A step \in [x : -Width .. Width, y : -Height .. Height] :
                 AddToPosition(position, step).point = goal => Square(way) <= Square(step)
=============================================================================
