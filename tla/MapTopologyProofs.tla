------------------------- MODULE MapTopologyProofs -------------------------
(* Proofs about MapTopology for maps of every size and place. *)
EXTENDS MapTopology, TLAPS

\* Z is what velocities and points off the map range over
Z == [x : Int, y : Int]

\* Quotient and remainder are the only ones, which is what makes wrapping in two
\* moves and wrapping in one the same.
LEMMA RemainderUnique ==
    ASSUME NEW w \in Nat, w > 0, NEW n \in Int, NEW q \in Int, NEW r \in 0 .. w - 1,
           n = w * q + r
    PROVE  n \div w = q /\ n % w = r
<1> DEFINE p == n \div w
           s == n % w
<1>1. p \in Int /\ s \in 0 .. w - 1 /\ n = w * p + s
    OBVIOUS
<1> HIDE DEF p, s
<1>2. w * (p - q) = r - s
    BY <1>1
<1>3. p - q < 1
  <2> SUFFICES ASSUME p - q >= 1 PROVE FALSE
      BY <1>1
  <2>1. w * (p - q) >= w
      BY <1>1
  <2> QED
      BY <1>1, <1>2, <2>1
<1>4. q - p < 1
  <2> SUFFICES ASSUME q - p >= 1 PROVE FALSE
      BY <1>1
  <2>1. w * (q - p) >= w
      BY <1>1
  <2> QED
      BY <1>1, <1>2, <2>1
<1>5. p = q
    BY <1>1, <1>3, <1>4
<1> QED
    BY <1>1, <1>5 DEF p, s

\* Wrapping what has been wrapped, moved on, comes to where wrapping it once
\* would have come, after as many rounds.
LEMMA WrapTwice ==
    ASSUME NEW w \in Nat, w > 0, NEW a \in Int, NEW m \in Int
    PROVE  /\ (a + m) % w = ((a % w) + m) % w
           /\ (a + m) \div w = (a \div w) + ((a % w) + m) \div w
<1> DEFINE q == a \div w
           r == a % w
           u == (r + m) \div w
           v == (r + m) % w
<1>1. q \in Int /\ r \in 0 .. w - 1 /\ a = w * q + r
    OBVIOUS
<1> HIDE DEF q, r
<1>2. u \in Int /\ v \in 0 .. w - 1 /\ r + m = w * u + v
    BY <1>1
<1> HIDE DEF u, v
<1>3. a + m = w * (q + u) + v
  <2>1. w * (q + u) = w * q + w * u
      BY <1>1, <1>2
  <2> QED
      BY <1>1, <1>2, <2>1
<1>4. (a + m) \div w = q + u /\ (a + m) % w = v
  <2>1. a + m \in Int /\ q + u \in Int
      BY <1>1, <1>2
  <2> QED
      BY <1>2, <1>3, <2>1, RemainderUnique, Zenon
<1> QED
    BY <1>1, <1>4 DEF q, r, u, v

LEMMA Sizes ==
    /\ Left \in Int /\ Right \in Int /\ Bottom \in Int /\ Top \in Int
    /\ Width \in Nat /\ Width > 0 /\ Height \in Nat /\ Height > 0
BY MapAssumption DEF Width, Height

\* Wrapped coordinates are on the map, and wrapping in two moves is wrapping in
\* one.
LEMMA WrapsX ==
    ASSUME NEW x \in Int
    PROVE  /\ WrapX(x) \in Columns /\ WrapX(x) \in Int /\ RoundX(x) \in Int
           /\ \A m \in Int : /\ WrapX(x + m) = WrapX(WrapX(x) + m)
                             /\ RoundX(x + m) = RoundX(x) + RoundX(WrapX(x) + m)
<1> DEFINE a == x - Left
           r == a % Width
<1>1. a \in Int /\ x = Left + a
    BY Sizes
<1> HIDE DEF a
<1>2. r \in 0 .. Width - 1 /\ a \div Width \in Int
    BY <1>1, Sizes
<1>3. \A m \in Int : /\ (a + m) % Width = (r + m) % Width
                     /\ (a + m) \div Width = (a \div Width) + (r + m) \div Width
  <2> SUFFICES ASSUME NEW m \in Int
               PROVE  /\ (a + m) % Width = ((a % Width) + m) % Width
                      /\ (a + m) \div Width = (a \div Width) + ((a % Width) + m) \div Width
      OBVIOUS
  <2>1. a \in Int /\ Width \in Nat /\ Width > 0
      BY <1>1, Sizes
  <2> QED
      BY <2>1, WrapTwice, Zenon
<1>4. WrapX(x) = Left + r /\ RoundX(x) = a \div Width
    BY DEF WrapX, RoundX, a
<1> HIDE DEF r
<1>5. Left + r \in Columns /\ Left + r \in Int
    BY <1>2, Sizes DEF Columns, Width
<1>6. ASSUME NEW m \in Int
      PROVE  /\ WrapX(x + m) = WrapX(WrapX(x) + m)
             /\ RoundX(x + m) = RoundX(x) + RoundX(WrapX(x) + m)
  <2>1. (x + m) - Left = a + m /\ ((Left + r) + m) - Left = r + m
      BY <1>1, <1>2, Sizes
  <2>2. /\ WrapX(x + m) = Left + ((a + m) % Width)
        /\ WrapX((Left + r) + m) = Left + ((r + m) % Width)
      BY <2>1, Zenon DEF WrapX
  <2>3. /\ RoundX(x + m) = (a + m) \div Width
        /\ RoundX((Left + r) + m) = (r + m) \div Width
      BY <2>1, Zenon DEF RoundX
  <2> QED
      BY <1>3, <1>4, <2>2, <2>3, Zenon
<1> QED
    BY <1>2, <1>4, <1>5, <1>6

LEMMA WrapsY ==
    ASSUME NEW y \in Int
    PROVE  /\ WrapY(y) \in Rows /\ WrapY(y) \in Int /\ RoundY(y) \in Int
           /\ \A m \in Int : /\ WrapY(y + m) = WrapY(WrapY(y) + m)
                             /\ RoundY(y + m) = RoundY(y) + RoundY(WrapY(y) + m)
<1> DEFINE a == y - Bottom
           r == a % Height
<1>1. a \in Int /\ y = Bottom + a
    BY Sizes
<1> HIDE DEF a
<1>2. r \in 0 .. Height - 1 /\ a \div Height \in Int
    BY <1>1, Sizes
<1>3. \A m \in Int : /\ (a + m) % Height = (r + m) % Height
                     /\ (a + m) \div Height = (a \div Height) + (r + m) \div Height
  <2> SUFFICES ASSUME NEW m \in Int
               PROVE  /\ (a + m) % Height = ((a % Height) + m) % Height
                      /\ (a + m) \div Height = (a \div Height) + ((a % Height) + m) \div Height
      OBVIOUS
  <2>1. a \in Int /\ Height \in Nat /\ Height > 0
      BY <1>1, Sizes
  <2> QED
      BY <2>1, WrapTwice, Zenon
<1>4. WrapY(y) = Bottom + r /\ RoundY(y) = a \div Height
    BY DEF WrapY, RoundY, a
<1> HIDE DEF r
<1>5. Bottom + r \in Rows /\ Bottom + r \in Int
    BY <1>2, Sizes DEF Rows, Height
<1>6. ASSUME NEW m \in Int
      PROVE  /\ WrapY(y + m) = WrapY(WrapY(y) + m)
             /\ RoundY(y + m) = RoundY(y) + RoundY(WrapY(y) + m)
  <2>1. (y + m) - Bottom = a + m /\ ((Bottom + r) + m) - Bottom = r + m
      BY <1>1, <1>2, Sizes
  <2>2. /\ WrapY(y + m) = Bottom + ((a + m) % Height)
        /\ WrapY((Bottom + r) + m) = Bottom + ((r + m) % Height)
      BY <2>1, Zenon DEF WrapY
  <2>3. /\ RoundY(y + m) = (a + m) \div Height
        /\ RoundY((Bottom + r) + m) = (r + m) \div Height
      BY <2>1, Zenon DEF RoundY
  <2> QED
      BY <1>3, <1>4, <2>2, <2>3, Zenon
<1> QED
    BY <1>2, <1>4, <1>5, <1>6

\* Clamped coordinates are on the map, and reflected ones are where they were.
LEMMA Clamps ==
    /\ \A x \in Int : ClampX(x) \in Columns /\ (x \in Columns => ClampX(x) = x)
    /\ \A y \in Int : ClampY(y) \in Rows /\ (y \in Rows => ClampY(y) = y)
BY Sizes DEF ClampX, ClampY, Columns, Rows, Width, Height

LEMMA Reflects ==
    /\ \A x \in Int : ReflectX(x) \in Int
    /\ \A y \in Int : ReflectY(y) \in Int
    /\ \A x \in Columns : x \in Int /\ ReflectX(x) \in Columns
    /\ \A y \in Rows : y \in Int /\ ReflectY(y) \in Rows
BY Sizes DEF ReflectX, ReflectY, Columns, Rows

LEMMA Signs ==
    ASSUME NEW n \in Int
    PROVE  /\ Sign(n) \in {1, -1} /\ Sign(n) = (IF Odd(n) THEN -1 ELSE 1)
           /\ \A k \in Int :
                Odd(n + k) <=> (Odd(n) /\ ~Odd(k)) \/ (~Odd(n) /\ Odd(k))
BY DEF Sign, Odd

-----------------------------------------------------------------------------
\* Wherever a unit is sent, it comes out on the map, whatever the topology.
LEMMA ResolvedInside ==
    ASSUME topology \in Topologies, NEW p \in Z
    PROVE  /\ ResolvePosition(p).point \in Area
           /\ ResolvePosition(p).turn \in Orientation
<1> DEFINE r == ResolvePosition(p)
<1>0. p.x \in Int /\ p.y \in Int
    BY DEF Z
<1>1. topology \in {"plane", "cylinder", "torus", "mobius", "klein", "crosscut"}
    BY MapAssumption
<1>2. ASSUME NEW x \in Columns, NEW y \in Rows, NEW o \in Orientation, NEW t
      PROVE  Resolved(x, y, o, t).point \in Area /\ Resolved(x, y, o, t).turn = o
    BY DEF Resolved, Area
<1>3. Identity \in Orientation
    BY DEF Identity, Orientation
<1>4. CASE topology = "plane"
    BY <1>0, <1>2, <1>3, <1>4, Clamps DEF ResolvePosition, Plane
<1>5. CASE topology = "cylinder"
    BY <1>0, <1>2, <1>3, <1>5, Clamps, WrapsX DEF ResolvePosition, Cylinder
<1>6. CASE topology = "torus"
  <2>1. WrapX(p.x) \in Columns /\ WrapY(p.y) \in Rows
      BY <1>0, WrapsX, WrapsY, Zenon
  <2>2. ResolvePosition(p) = Resolved(WrapX(p.x), WrapY(p.y), Identity, FALSE)
      BY <1>6 DEF ResolvePosition, Torus
  <2> QED
      BY <1>3, <2>1, <2>2 DEF Resolved, Area
<1>7. CASE topology = "mobius"
  <2> DEFINE y == IF Odd(RoundX(p.x)) THEN ReflectY(p.y) ELSE p.y
             o == [x |-> 1, y |-> Sign(RoundX(p.x))]
  <2>1. WrapX(p.x) \in Columns /\ RoundX(p.x) \in Int /\ y \in Int
      BY <1>0, WrapsX, Reflects
  <2>2. ClampY(y) \in Rows /\ o \in Orientation
      BY <1>0, <2>1, Clamps, Signs DEF Orientation
  <2>3. ResolvePosition(p) = Resolved(WrapX(p.x), ClampY(y), o, y \notin Rows)
      BY <1>7 DEF ResolvePosition, Mobius
  <2> HIDE DEF y, o
  <2> QED
      BY <1>2, <2>1, <2>2, <2>3
<1>8. ASSUME NEW n \in Int
      PROVE  TurnOverY(n) \in Orientation
    BY <1>8, Signs DEF TurnOverY, Orientation
<1>9. CASE topology = "klein"
  <2> DEFINE n == RoundY(p.y)
             x == IF Odd(n) THEN ReflectX(WrapX(p.x)) ELSE WrapX(p.x)
  <2>1. n \in Int /\ x \in Columns /\ WrapY(p.y) \in Rows
      BY <1>0, WrapsX, WrapsY, Reflects, Zenon
  <2>2. ResolvePosition(p) = Resolved(x, WrapY(p.y), TurnOverY(n), FALSE)
      BY <1>9 DEF ResolvePosition, Klein
  <2>3. TurnOverY(n) \in Orientation
      BY <1>8, <2>1
  <2> HIDE DEF x, n
  <2> QED
      BY <2>1, <2>2, <2>3 DEF Resolved, Area
<1>10. CASE topology = "crosscut"
  <2> DEFINE m == RoundX(p.x)
             y == IF Odd(m) THEN ReflectY(p.y) ELSE p.y
             n == RoundY(y)
             x == IF Odd(n) THEN ReflectX(WrapX(p.x)) ELSE WrapX(p.x)
             o == Times(TurnOverY(n), [x |-> 1, y |-> Sign(m)])
  <2>1. m \in Int /\ y \in Int /\ x \in Columns
      BY <1>0, WrapsX, Reflects, Zenon
  <2>2. n \in Int /\ WrapY(y) \in Rows
      BY <2>1, WrapsY
  <2>3. o \in Orientation
    <3>1. PICK i \in {1, -1}, j \in {1, -1} : TurnOverY(n) = [x |-> i, y |-> j]
        BY <1>8, <2>2 DEF Orientation
    <3>2. o = [x |-> i * 1, y |-> j * Sign(m)]
        BY <3>1 DEF Times
    <3>3. Sign(m) = 1 \/ Sign(m) = -1
        BY <2>1, Signs
    <3>4. i * 1 \in {1, -1} /\ j * Sign(m) \in {1, -1}
        BY <3>1, <3>3
    <3> QED
        BY <3>2, <3>4 DEF Orientation
  <2>4. ResolvePosition(p) = Resolved(x, WrapY(y), o, FALSE)
      BY <1>10 DEF ResolvePosition, Crosscut
  <2> HIDE DEF x, y, n, m, o
  <2> QED
      BY <2>1, <2>2, <2>3, <2>4 DEF Resolved, Area
<1> QED
    BY <1>1, <1>4, <1>5, <1>6, <1>7, <1>9, <1>10

LEMMA Sums ==
    ASSUME NEW p \in Z, NEW q \in Z
    PROVE  Plus(p, q) \in Z
BY DEF Plus, Z

LEMMA Points ==
    /\ Area \subseteq Z
    /\ \A n \in Nat : Steps(n) \subseteq Z
BY Reflects DEF Area, Steps, Z

LEMMA Turned ==
    ASSUME NEW o \in Orientation, NEW n \in Nat, NEW v \in Steps(n)
    PROVE  Times(o, v) \in Steps(n)
<1>1. PICK i \in {1, -1}, j \in {1, -1} : o = [x |-> i, y |-> j]
    BY DEF Orientation
<1>2. v = [x |-> v.x, y |-> v.y] /\ v.x \in -n .. n /\ v.y \in -n .. n
    BY DEF Steps
<1>3. Times(o, v) = [x |-> i * v.x, y |-> j * v.y]
    BY <1>1 DEF Times
<1>4. i * v.x \in -n .. n /\ j * v.y \in -n .. n
    BY <1>1, <1>2
<1> QED
    BY <1>3, <1>4 DEF Steps

LEMMA TurnedTwice ==
    ASSUME NEW o \in Orientation, NEW q \in Orientation
    PROVE  Times(o, q) \in Orientation
<1>1. PICK i \in {1, -1}, j \in {1, -1} : o = [x |-> i, y |-> j]
    BY DEF Orientation
<1>2. PICK k \in {1, -1}, l \in {1, -1} : q = [x |-> k, y |-> l]
    BY DEF Orientation
<1>3. Times(o, q) = [x |-> i * k, y |-> j * l]
    BY <1>1, <1>2 DEF Times
<1>4. i * k \in {1, -1} /\ j * l \in {1, -1}
    BY <1>1, <1>2
<1> QED
    BY <1>3, <1>4 DEF Orientation

\* A unit never leaves the map ("This method guaranteed to yield a point inside
\* the map, even at the cost of truncation"), nor gains or loses speed over an
\* edge, on maps of any size, anywhere.
THEOREM UnitsStayInside == Spec => []TypeOK
<1>1. Init => TypeOK
  <2> SUFFICES ASSUME Init PROVE TypeOK
      OBVIOUS
  <2>1. velocity \in Steps(Speed)
      BY MapAssumption DEF Init, Steps
  <2>2. facing \in Orientation
      BY DEF Init, Identity, Orientation
  <2> QED
      BY <2>1, <2>2 DEF Init, TypeOK
<1>2. TypeOK /\ [Next]_vars => TypeOK'
  <2> SUFFICES ASSUME TypeOK, [Next]_vars PROVE TypeOK'
      OBVIOUS
  <2>1. CASE Steer
      BY <2>1 DEF Steer, TypeOK
  <2>2. CASE Transform
    <3> DEFINE to == AddToPosition(position, velocity)
    <3>1. Plus(position, velocity) \in Z
        BY Points, Sums, MapAssumption DEF TypeOK
    <3>2. topology \in Topologies
        BY DEF TypeOK
    <3>3. to.point \in Area /\ to.turn \in Orientation
        BY <3>1, <3>2, ResolvedInside DEF AddToPosition
    <3>4. velocity' \in Steps(Speed) /\ facing' \in Orientation
        BY <2>2, <3>3, Turned, TurnedTwice, MapAssumption DEF Transform, TypeOK
    <3> QED
        BY <2>2, <3>3, <3>4 DEF Transform, TypeOK
  <2>3. CASE UNCHANGED vars
      BY <2>3 DEF vars, TypeOK
  <2> QED
      BY <2>1, <2>2, <2>3 DEF Next
<1> QED
    BY <1>1, <1>2, PTL DEF Spec

-----------------------------------------------------------------------------
\* What one move and two moves come to.
AddUp(first, second, both) ==
    first.truncated \/ second.truncated \/
    (both.point = second.point /\ both.turn = Times(second.turn, first.turn))

LEMMA Unturned ==
    ASSUME NEW m \in Z
    PROVE  Times(Identity, m) = m /\ Times(Identity, Identity) = Identity
<1>1. m = [x |-> m.x, y |-> m.y] /\ 1 * m.x = m.x /\ 1 * m.y = m.y
    BY DEF Z
<1> QED
    BY <1>1 DEF Times, Identity

LEMMA PlaneAddsUp ==
    ASSUME NEW a \in Z, NEW m \in Z
    PROVE  AddUp(Plane(a), Plane(Plus(Plane(a).point, Times(Plane(a).turn, m))),
                 Plane(Plus(a, m)))
<1> SUFFICES ASSUME a.x \in Columns, a.y \in Rows
             PROVE  AddUp(Plane(a), Plane(Plus(Plane(a).point, Times(Plane(a).turn, m))),
                          Plane(Plus(a, m)))
    BY DEF AddUp, Plane, Resolved
<1>1. Plane(a).point = a /\ Plane(a).turn = Identity
    BY Clamps DEF Plane, Resolved, Z
<1> QED
    BY <1>1, Unturned DEF AddUp, Plane, Resolved

LEMMA CylinderAddsUp ==
    ASSUME NEW a \in Z, NEW m \in Z
    PROVE  AddUp(Cylinder(a), Cylinder(Plus(Cylinder(a).point, Times(Cylinder(a).turn, m))),
                 Cylinder(Plus(a, m)))
<1> SUFFICES ASSUME a.y \in Rows
             PROVE  AddUp(Cylinder(a),
                          Cylinder(Plus(Cylinder(a).point, Times(Cylinder(a).turn, m))),
                          Cylinder(Plus(a, m)))
    BY DEF AddUp, Cylinder, Resolved
<1> DEFINE b == [x |-> WrapX(a.x) + m.x, y |-> a.y + m.y]
<1>1. /\ Cylinder(a).point = [x |-> WrapX(a.x), y |-> a.y]
      /\ Cylinder(a).turn = Identity
    BY Clamps DEF Cylinder, Resolved, Z
<1>2. Plus(Cylinder(a).point, Times(Cylinder(a).turn, m)) = b
    BY <1>1, Unturned DEF Plus
<1>3. WrapX(a.x + m.x) = WrapX(WrapX(a.x) + m.x)
    BY WrapsX DEF Z
<1>4. Cylinder(b).point = Cylinder(Plus(a, m)).point
    BY <1>3 DEF Cylinder, Resolved, Plus
<1>5. Cylinder(b).turn = Identity /\ Cylinder(Plus(a, m)).turn = Identity
    BY DEF Cylinder, Resolved
<1> HIDE DEF b
<1> QED
    BY <1>1, <1>2, <1>4, <1>5, Unturned DEF AddUp

LEMMA TorusAddsUp ==
    ASSUME NEW a \in Z, NEW m \in Z
    PROVE  AddUp(Torus(a), Torus(Plus(Torus(a).point, Times(Torus(a).turn, m))),
                 Torus(Plus(a, m)))
<1> DEFINE b == [x |-> WrapX(a.x) + m.x, y |-> WrapY(a.y) + m.y]
<1>1. /\ Torus(a).point = [x |-> WrapX(a.x), y |-> WrapY(a.y)]
      /\ Torus(a).turn = Identity
    BY DEF Torus, Resolved
<1>2. Plus(Torus(a).point, Times(Torus(a).turn, m)) = b
    BY <1>1, Unturned DEF Plus
<1>3. /\ WrapX(a.x + m.x) = WrapX(WrapX(a.x) + m.x)
      /\ WrapY(a.y + m.y) = WrapY(WrapY(a.y) + m.y)
    BY WrapsX, WrapsY DEF Z
<1>4. Torus(b).point = Torus(Plus(a, m)).point
    BY <1>3 DEF Torus, Resolved, Plus
<1>5. Torus(b).turn = Identity /\ Torus(Plus(a, m)).turn = Identity
    BY DEF Torus, Resolved
<1> HIDE DEF b
<1> QED
    BY <1>1, <1>2, <1>4, <1>5, Unturned DEF AddUp

\* Over the edge and over it again the strip is as it was; the way up is the way
\* down in between.
LEMMA MobiusAddsUp ==
    ASSUME NEW a \in Z, NEW m \in Z
    PROVE  AddUp(Mobius(a), Mobius(Plus(Mobius(a).point, Times(Mobius(a).turn, m))),
                 Mobius(Plus(a, m)))
<1> DEFINE n == RoundX(a.x)
           y == IF Odd(n) THEN ReflectY(a.y) ELSE a.y
           b == [x |-> WrapX(a.x) + m.x, y |-> y + Sign(n) * m.y]
           k == RoundX(b.x)
           w == IF Odd(k) THEN ReflectY(b.y) ELSE b.y
           c == Plus(a, m)
           z == IF Odd(RoundX(c.x)) THEN ReflectY(c.y) ELSE c.y
<1>0. /\ a.x \in Int /\ a.y \in Int /\ m.x \in Int /\ m.y \in Int
      /\ c = [x |-> a.x + m.x, y |-> a.y + m.y]
    BY DEF Z, Plus
<1>1. n \in Int /\ WrapX(a.x) \in Int
    BY <1>0, WrapsX
<1>2. y \in Int /\ (Sign(n) = 1 \/ Sign(n) = -1)
    BY <1>0, <1>1, Reflects, Signs
<1>3. b.x \in Int /\ b.y \in Int /\ k \in Int
  <2>1. Sign(n) * m.y \in Int
      BY <1>0, <1>2
  <2>2. b.x = WrapX(a.x) + m.x /\ b.y = y + Sign(n) * m.y
      OBVIOUS
  <2>3. b.x \in Int /\ b.y \in Int
      BY <1>0, <1>1, <1>2, <2>1, <2>2
  <2> HIDE DEF b
  <2> QED
      BY <2>3, WrapsX
<1>4. RoundX(c.x) = n + k /\ WrapX(c.x) = WrapX(b.x)
  <2>1. c.x = a.x + m.x /\ b.x = WrapX(a.x) + m.x
      BY <1>0
  <2>2. /\ RoundX(a.x + m.x) = RoundX(a.x) + RoundX(WrapX(a.x) + m.x)
        /\ WrapX(a.x + m.x) = WrapX(WrapX(a.x) + m.x)
      BY <1>0, WrapsX, Zenon
  <2> HIDE DEF c, b
  <2> QED
      BY <2>1, <2>2 DEF n, k
<1>5. Odd(n + k) <=> (Odd(n) /\ ~Odd(k)) \/ (~Odd(n) /\ Odd(k))
    BY <1>1, <1>3, Signs
<1>6. Sign(n) = (IF Odd(n) THEN -1 ELSE 1)
    BY DEF Sign
<1>7. z = w
  <2>1. CASE Odd(n)
    <3>1. b.y = ReflectY(a.y) - m.y
        BY <1>0, <1>2, <1>6, <2>1, Reflects
    <3>2. ReflectY(b.y) = a.y + m.y /\ b.y = ReflectY(a.y + m.y)
        BY <1>0, <3>1, Sizes DEF ReflectY
    <3> QED
        BY <1>0, <1>4, <1>5, <2>1, <3>2
  <2>2. CASE ~Odd(n)
    <3>1. b.y = a.y + m.y
        BY <1>0, <1>6, <2>2
    <3> QED
        BY <1>0, <1>4, <1>5, <2>2, <3>1
  <2> QED
      BY <2>1, <2>2
<1>8. Sign(n + k) = Sign(k) * Sign(n)
    BY <1>5 DEF Sign
<1>9. Mobius(a) = Resolved(WrapX(a.x), ClampY(y), [x |-> 1, y |-> Sign(n)], y \notin Rows)
    BY DEF Mobius
<1>10. Mobius(b) = Resolved(WrapX(b.x), ClampY(w), [x |-> 1, y |-> Sign(k)], w \notin Rows)
    BY DEF Mobius
<1>11. Mobius(c) = Resolved(WrapX(c.x), ClampY(z), [x |-> 1, y |-> Sign(n + k)], z \notin Rows)
    BY <1>4 DEF Mobius
<1> HIDE DEF n, k, w, z, c
<1>12. CASE y \notin Rows
  <2>1. Mobius(a).truncated <=> y \notin Rows
      BY DEF Mobius, Resolved, n
  <2>2. Mobius(a).truncated
      BY <1>12, <2>1
  <2> QED
      BY <2>2, Zenon DEF AddUp
<1>13. CASE y \in Rows
  <2>1. ClampY(y) = y
      BY <1>2, <1>13, Clamps
  <2>2. /\ Mobius(a).point = [x |-> WrapX(a.x), y |-> y]
        /\ Mobius(a).turn = [x |-> 1, y |-> Sign(n)]
      BY <1>9, <2>1 DEF Resolved
  <2>3. 1 * m.x = m.x
      BY <1>0
  <2>4. Plus(Mobius(a).point, Times(Mobius(a).turn, m)) = b
      BY <2>2, <2>3 DEF Plus, Times
  <2>5. Mobius(c).point = Mobius(b).point
      BY <1>4, <1>7, <1>10, <1>11 DEF Resolved
  <2>6. Mobius(c).turn = Times(Mobius(b).turn, Mobius(a).turn)
      BY <1>8, <1>10, <1>11, <2>2 DEF Resolved, Times
  <2> HIDE DEF b
  <2> QED
      BY <2>4, <2>5, <2>6 DEF AddUp, c
<1> QED
    BY <1>12, <1>13

\* A unit that crosses edges in two moves comes to the same place, facing the
\* same way, as in one, on maps of any size, wherever it starts and however far
\* it goes: plane, cylinder, torus and Moebius strip are glued without a seam.
THEOREM NoSeam == Spec => []StepsAddUp
<1>1. TypeOK => StepsAddUp
  <2> SUFFICES ASSUME TypeOK, topology \in Alike, NEW more \in Steps(2 * Speed)
               PROVE  LET first == AddToPosition(position, velocity)
                          second == AddToPosition(first.point, Times(first.turn, more))
                          both == AddToPosition(position, Plus(velocity, more))
                      IN  AddUp(first, second, both)
      BY DEF StepsAddUp, AddUp
  <2> DEFINE a == Plus(position, velocity)
  <2>1. position \in Z /\ velocity \in Z /\ more \in Z
      BY Points, MapAssumption DEF TypeOK
  <2>2. a \in Z
      BY <2>1, Sums
  <2>3. Plus(position, Plus(velocity, more)) = Plus(a, more)
      BY <2>1 DEF Plus, Z
  <2> HIDE DEF a
  <2>4. CASE topology = "plane"
    <3>1. \A p, q : AddToPosition(p, q) = Plane(Plus(p, q))
        BY <2>4 DEF AddToPosition, ResolvePosition
    <3>2. AddUp(Plane(a), Plane(Plus(Plane(a).point, Times(Plane(a).turn, more))),
                Plane(Plus(a, more)))
        BY <2>1, <2>2, PlaneAddsUp
    <3>3. AddToPosition(position, velocity) = Plane(a)
        BY <3>1 DEF a
    <3> QED
        BY <2>3, <3>1, <3>2, <3>3, Zenon
  <2>5. CASE topology = "cylinder"
    <3>1. \A p, q : AddToPosition(p, q) = Cylinder(Plus(p, q))
        BY <2>5 DEF AddToPosition, ResolvePosition
    <3>2. AddUp(Cylinder(a), Cylinder(Plus(Cylinder(a).point, Times(Cylinder(a).turn, more))),
                Cylinder(Plus(a, more)))
        BY <2>1, <2>2, CylinderAddsUp
    <3>3. AddToPosition(position, velocity) = Cylinder(a)
        BY <3>1 DEF a
    <3> QED
        BY <2>3, <3>1, <3>2, <3>3, Zenon
  <2>6. CASE topology = "torus"
    <3>1. \A p, q : AddToPosition(p, q) = Torus(Plus(p, q))
        BY <2>6 DEF AddToPosition, ResolvePosition
    <3>2. AddUp(Torus(a), Torus(Plus(Torus(a).point, Times(Torus(a).turn, more))),
                Torus(Plus(a, more)))
        BY <2>1, <2>2, TorusAddsUp
    <3>3. AddToPosition(position, velocity) = Torus(a)
        BY <3>1 DEF a
    <3> QED
        BY <2>3, <3>1, <3>2, <3>3, Zenon
  <2>7. CASE topology = "mobius"
    <3>1. \A p, q : AddToPosition(p, q) = Mobius(Plus(p, q))
        BY <2>7 DEF AddToPosition, ResolvePosition
    <3>2. AddUp(Mobius(a), Mobius(Plus(Mobius(a).point, Times(Mobius(a).turn, more))),
                Mobius(Plus(a, more)))
        BY <2>1, <2>2, MobiusAddsUp
    <3>3. AddToPosition(position, velocity) = Mobius(a)
        BY <3>1 DEF a
    <3> QED
        BY <2>3, <3>1, <3>2, <3>3, Zenon
  <2> QED
      BY <2>4, <2>5, <2>6, <2>7 DEF Alike
<1> QED
    BY <1>1, UnitsStayInside, PTL
-----------------------------------------------------------------------------
\* Of two numbers, the one nearer to 0 has the lesser square.
LEMMA Nearer ==
    ASSUME NEW a \in Int, NEW b \in Int,
           (0 <= a /\ a <= b) \/ (b <= a /\ a <= 0)
    PROVE  a * a <= b * b
<1>1. CASE 0 <= a /\ a <= b
  <2>1. a * a <= a * b
      BY <1>1
  <2>2. a * b <= b * b
      BY <1>1
  <2> QED
      BY <2>1, <2>2
<1>2. CASE b <= a /\ a <= 0
  <2> DEFINE c == -a
             d == -b
  <2>1. c \in Int /\ d \in Int /\ 0 <= c /\ c <= d /\ a = -c /\ b = -d
      BY <1>2
  <2> HIDE DEF c, d
  <2>2. c * c <= c * d
      BY <2>1
  <2>3. c * d <= d * d
      BY <2>1
  <2>4. a * a = c * c /\ b * b = d * d
      BY <2>1
  <2> QED
      BY <2>1, <2>2, <2>3, <2>4
<1> QED
    BY <1>1, <1>2

\* A way that is as near to 0 in both coordinates is no longer.
LEMMA Shorter ==
    ASSUME NEW p \in Z, NEW q \in Z,
           (0 <= p.x /\ p.x <= q.x) \/ (q.x <= p.x /\ p.x <= 0),
           (0 <= p.y /\ p.y <= q.y) \/ (q.y <= p.y /\ p.y <= 0)
    PROVE  Square(p) <= Square(q)
<1>1. p.x \in Int /\ q.x \in Int /\ p.y \in Int /\ q.y \in Int
    BY DEF Z
<1>2. p.x * p.x <= q.x * q.x
    BY <1>1, Nearer
<1>3. p.y * p.y <= q.y * q.y
    BY <1>1, Nearer
<1>4. /\ p.x * p.x \in Int /\ q.x * q.x \in Int
      /\ p.y * p.y \in Int /\ q.y * q.y \in Int
    BY <1>1
<1> QED
    BY <1>2, <1>3, <1>4 DEF Square

\* A unit on the map that is stopped at an edge has gone no less far than to where
\* it is stopped; a step may be taken upside down.
LEMMA Stopped ==
    /\ \A a, b \in Columns : \A s \in Int :
          ClampX(a + s) = b => (0 <= b - a /\ b - a <= s) \/ (s <= b - a /\ b - a <= 0)
    /\ \A a, b \in Rows : \A s \in Int :
          ClampY(a + s) = b => (0 <= b - a /\ b - a <= s) \/ (s <= b - a /\ b - a <= 0)
    /\ \A a, b \in Rows : \A s \in Int :
          ClampY(ReflectY(a + s)) = b =>
            \/ 0 <= ReflectY(b) - a /\ ReflectY(b) - a <= s
            \/ s <= ReflectY(b) - a /\ ReflectY(b) - a <= 0
BY Sizes DEF ClampX, ClampY, ReflectY, Columns, Rows, Width, Height

\* A step of at most a width goes around at most once, and the other way round that
\* is where it comes out.
LEMMA RoundOnce ==
    ASSUME NEW a \in Columns, NEW s \in -Width .. Width
    PROVE  /\ RoundX(a + s) \in {-1, 0, 1}
           /\ WrapX(a + s) = a + s - Width * RoundX(a + s)
<1> DEFINE n == (a + s) - Left
           q == n \div Width
           r == n % Width
<1>1. n \in Int /\ n >= -Width /\ n < 2 * Width
    BY Sizes DEF Columns, Width
<1> HIDE DEF n
<1>2. q \in Int /\ r \in 0 .. Width - 1 /\ n = Width * q + r
    BY <1>1, Sizes
<1> HIDE DEF q, r
<1>3. q < 2
  <2> SUFFICES ASSUME q >= 2 PROVE FALSE
      BY <1>2
  <2>1. Width * q >= Width * 2
      BY <1>2, Sizes
  <2> QED
      BY <1>1, <1>2, <2>1, Sizes
<1>4. q > -2
  <2> SUFFICES ASSUME q <= -2 PROVE FALSE
      BY <1>2
  <2>1. Width * q <= Width * (-2)
      BY <1>2, Sizes
  <2> QED
      BY <1>1, <1>2, <2>1, Sizes
<1>5. q \in {-1, 0, 1}
    BY <1>2, <1>3, <1>4
<1>6. RoundX(a + s) = q /\ WrapX(a + s) = Left + r
    BY DEF RoundX, WrapX, n, q, r
<1>7. Width * q \in Int /\ a \in Int /\ s \in Int /\ n = a + s - Left
    BY <1>5, Sizes DEF Columns, n
<1> QED
    BY <1>2, <1>5, <1>6, <1>7, Sizes

\* On the plane the straight way leads there, and none shorter: an edge only stops what
\* goes too far.
LEMMA PlaneShortest ==
    ASSUME NEW a \in Area, NEW b \in Area
    PROVE  /\ Plane(Plus(b, Minus(a, b))).point = a
           /\ \A s \in Z : Plane(Plus(b, s)).point = a => Square(Minus(a, b)) <= Square(s)
<1>1. /\ a = [x |-> a.x, y |-> a.y] /\ a.x \in Columns /\ a.y \in Rows
      /\ b.x \in Columns /\ b.y \in Rows
    BY DEF Area
<1>2. a.x \in Int /\ a.y \in Int /\ b.x \in Int /\ b.y \in Int
    BY <1>1, Reflects
<1>3. Minus(a, b) \in Z /\ Minus(a, b).x = a.x - b.x /\ Minus(a, b).y = a.y - b.y
    BY <1>2 DEF Minus, Z
<1>4. Plus(b, Minus(a, b)) = a
    BY <1>1, <1>2 DEF Plus, Minus
<1>5. Plane(a).point = a
    BY <1>1, <1>2, Clamps DEF Plane, Resolved
<1>6. ASSUME NEW s \in Z, Plane(Plus(b, s)).point = a
      PROVE  Square(Minus(a, b)) <= Square(s)
  <2>1. s.x \in Int /\ s.y \in Int
      BY DEF Z
  <2>2. ClampX(b.x + s.x) = a.x /\ ClampY(b.y + s.y) = a.y
      BY <1>6 DEF Plane, Plus, Resolved
  <2>3. (0 <= a.x - b.x /\ a.x - b.x <= s.x) \/ (s.x <= a.x - b.x /\ a.x - b.x <= 0)
      BY <1>1, <2>1, <2>2, Stopped
  <2>4. (0 <= a.y - b.y /\ a.y - b.y <= s.y) \/ (s.y <= a.y - b.y /\ a.y - b.y <= 0)
      BY <1>1, <2>1, <2>2, Stopped
  <2> QED
      BY <1>3, <2>3, <2>4, Shorter
<1> QED
    BY <1>4, <1>5, <1>6

\* The ways over one edge and over the other, upside down
Leftward(a, b) == [x |-> (a.x - Width) - b.x, y |-> ReflectY(a.y) - b.y]
Rightward(a, b) == [x |-> (a.x + Width) - b.x, y |-> ReflectY(a.y) - b.y]

\* Rounds that matter here, and whether they reflect
LEMMA Odds == ~Odd(0) /\ Odd(1) /\ Odd(-1)
<1>1. ~Odd(0) /\ Odd(1)
    BY DEF Odd
<1>2. PICK m \in Int : m = -1
    OBVIOUS
<1>3. 2 \in Nat /\ 2 > 0 /\ 1 \in 0 .. 2 - 1 /\ m = 2 * m + 1
    BY <1>2
<1>4. m % 2 = 1
    BY <1>3, RemainderUnique, Zenon
<1>5. Odd(m)
    BY <1>4 DEF Odd
<1> QED
    BY <1>1, <1>2, <1>5

LEMMA WaysTyped ==
    ASSUME NEW a \in Area, NEW b \in Area
    PROVE  {Minus(a, b), Leftward(a, b), Rightward(a, b)} \subseteq Z
<1>1. /\ a.x \in Int /\ a.y \in Int /\ b.x \in Int /\ b.y \in Int /\ ReflectY(a.y) \in Int
      /\ Width \in Int
    BY Reflects, Sizes DEF Area
<1> QED
    BY <1>1 DEF Minus, Leftward, Rightward, Z

\* Each of the three ways leads there: the first over no edge, the others over one.
LEMMA ThreeWays ==
    ASSUME NEW a \in Area, NEW b \in Area,
           NEW way \in {Minus(a, b), Leftward(a, b), Rightward(a, b)}
    PROVE  Mobius(Plus(b, way)).point = a
<1>1. /\ a = [x |-> a.x, y |-> a.y] /\ a.x \in Columns /\ a.y \in Rows
      /\ b.x \in Columns /\ b.y \in Rows
    BY DEF Area
<1>2. /\ a.x \in Int /\ a.y \in Int /\ b.x \in Int /\ b.y \in Int
      /\ ReflectY(a.y) \in Rows /\ ReflectY(a.y) \in Int /\ Width \in Int
    BY <1>1, Reflects, Sizes
<1>3. \A k \in Int : RoundX(a.x + Width * k) = k /\ WrapX(a.x + Width * k) = a.x
  <2> SUFFICES ASSUME NEW k \in Int
               PROVE  RoundX(a.x + Width * k) = k /\ WrapX(a.x + Width * k) = a.x
      OBVIOUS
  <2>1. Width * k \in Int /\ a.x - Left \in 0 .. Width - 1
      BY <1>1, <1>2, Sizes DEF Columns, Width
  <2>2. (a.x + Width * k) - Left \in Int
        /\ (a.x + Width * k) - Left = Width * k + (a.x - Left)
      BY <1>2, <2>1, Sizes
  <2>3. /\ ((a.x + Width * k) - Left) \div Width = k
        /\ ((a.x + Width * k) - Left) % Width = a.x - Left
      BY <2>1, <2>2, Sizes, RemainderUnique
  <2>4. Left + (a.x - Left) = a.x
      BY <1>2, Sizes
  <2> QED
      BY <2>3, <2>4 DEF RoundX, WrapX
<1>4. ~Odd(0) /\ Odd(1) /\ Odd(-1)
    BY Odds
<1>5. /\ ClampY(a.y) = a.y /\ ReflectY(ReflectY(a.y)) = a.y
    BY <1>1, <1>2, Clamps, Sizes DEF ReflectY
<1>6. CASE way = Minus(a, b)
  <2>1. Plus(b, way) = [x |-> a.x, y |-> a.y] /\ a.x = a.x + Width * 0
      BY <1>2, <1>6 DEF Plus, Minus
  <2>2. RoundX(a.x) = 0 /\ WrapX(a.x) = a.x
      BY <1>3, <2>1
  <2> QED
      BY <1>1, <1>4, <1>5, <2>1, <2>2 DEF Mobius, Resolved
<1>7. CASE way = Leftward(a, b)
  <2>1. /\ Plus(b, way) = [x |-> a.x - Width, y |-> ReflectY(a.y)]
        /\ a.x - Width = a.x + Width * (-1)
      BY <1>2, <1>7 DEF Plus, Leftward
  <2>2. RoundX(a.x - Width) = -1 /\ WrapX(a.x - Width) = a.x
      BY <1>3, <2>1
  <2> QED
      BY <1>1, <1>4, <1>5, <2>1, <2>2 DEF Mobius, Resolved
<1>8. CASE way = Rightward(a, b)
  <2>1. /\ Plus(b, way) = [x |-> a.x + Width, y |-> ReflectY(a.y)]
        /\ a.x + Width = a.x + Width * 1
      BY <1>2, <1>8 DEF Plus, Rightward
  <2>2. RoundX(a.x + Width) = 1 /\ WrapX(a.x + Width) = a.x
      BY <1>3, <2>1
  <2> QED
      BY <1>1, <1>4, <1>5, <2>1, <2>2 DEF Mobius, Resolved
<1> QED
    BY <1>6, <1>7, <1>8

\* Whatever leads there without going around twice is no shorter than the one of the
\* three that goes over the same edge.
LEMMA NoneShorter ==
    ASSUME NEW a \in Area, NEW b \in Area, NEW s \in Z, s.x \in -Width .. Width,
           Mobius(Plus(b, s)).point = a
    PROVE  \E way \in {Minus(a, b), Leftward(a, b), Rightward(a, b)} : Square(way) <= Square(s)
<1>1. /\ a = [x |-> a.x, y |-> a.y] /\ a.x \in Columns /\ a.y \in Rows
      /\ b.x \in Columns /\ b.y \in Rows
    BY DEF Area
<1>2. /\ a.x \in Int /\ a.y \in Int /\ b.x \in Int /\ b.y \in Int
      /\ ReflectY(a.y) \in Rows /\ ReflectY(a.y) \in Int /\ Width \in Int
      /\ s.x \in Int /\ s.y \in Int
    BY <1>1, Reflects, Sizes DEF Z
<1> DEFINE n == RoundX(b.x + s.x)
<1>3. n \in {-1, 0, 1} /\ WrapX(b.x + s.x) = b.x + s.x - Width * n
    BY <1>1, RoundOnce
<1>4. /\ WrapX(b.x + s.x) = a.x
      /\ ClampY(IF Odd(n) THEN ReflectY(b.y + s.y) ELSE b.y + s.y) = a.y
    BY DEF Mobius, Plus, Resolved
<1> HIDE DEF n
<1>5. ~Odd(0) /\ Odd(1) /\ Odd(-1)
    BY Odds
<1>6. CASE n = 0
  <2>1. s.x = a.x - b.x
      BY <1>2, <1>3, <1>4, <1>6
  <2>2. (0 <= a.y - b.y /\ a.y - b.y <= s.y) \/ (s.y <= a.y - b.y /\ a.y - b.y <= 0)
      BY <1>1, <1>2, <1>4, <1>5, <1>6, Stopped
  <2>3. Minus(a, b) \in Z /\ Minus(a, b).x = a.x - b.x /\ Minus(a, b).y = a.y - b.y
      BY <1>2 DEF Minus, Z
  <2>4. (0 <= a.x - b.x /\ a.x - b.x <= s.x) \/ (s.x <= a.x - b.x /\ a.x - b.x <= 0)
      BY <1>2, <2>1
  <2> QED
      BY <2>2, <2>3, <2>4, Shorter
<1> DEFINE e == ReflectY(a.y) - b.y
<1>7. ASSUME n # 0
      PROVE  (0 <= e /\ e <= s.y) \/ (s.y <= e /\ e <= 0)
    BY <1>1, <1>2, <1>3, <1>4, <1>5, <1>7, Stopped
<1>8. CASE n = -1
  <2>1. s.x = (a.x - Width) - b.x
      BY <1>2, <1>3, <1>4, <1>8
  <2>2. (0 <= e /\ e <= s.y) \/ (s.y <= e /\ e <= 0)
      BY <1>7, <1>8
  <2>3. /\ Leftward(a, b) \in Z /\ Leftward(a, b).x = s.x
        /\ Leftward(a, b).y = e
      BY <1>2, <2>1 DEF Leftward, Z
  <2>4. (0 <= s.x /\ s.x <= s.x) \/ (s.x <= s.x /\ s.x <= 0)
      BY <1>2
  <2> QED
      BY <2>2, <2>3, <2>4, Shorter
<1>9. CASE n = 1
  <2>1. s.x = (a.x + Width) - b.x
      BY <1>2, <1>3, <1>4, <1>9
  <2>2. (0 <= e /\ e <= s.y) \/ (s.y <= e /\ e <= 0)
      BY <1>7, <1>9
  <2>3. /\ Rightward(a, b) \in Z /\ Rightward(a, b).x = s.x
        /\ Rightward(a, b).y = e
      BY <1>2, <2>1 DEF Rightward, Z
  <2>4. (0 <= s.x /\ s.x <= s.x) \/ (s.x <= s.x /\ s.x <= 0)
      BY <1>2
  <2> QED
      BY <2>2, <2>3, <2>4, Shorter
<1> QED
    BY <1>3, <1>6, <1>8, <1>9

\* getShortestDifference picks one of the three, and none of them is shorter.
LEMMA MobiusPicks ==
    ASSUME NEW a \in Area, NEW b \in Area
    PROVE  LET ways == {Minus(a, b), Leftward(a, b), Rightward(a, b)}
           IN  /\ MobiusDifference(a, b) \in ways
               /\ \A way \in ways : Square(MobiusDifference(a, b)) <= Square(way)
<1> DEFINE l == Minus([x |-> a.x - Width, y |-> ReflectY(a.y)], b)
           r == [l EXCEPT !.x = @ + 2 * Width]
<1>1. a.x \in Int /\ a.y \in Int /\ b.x \in Int /\ b.y \in Int /\ ReflectY(a.y) \in Int
      /\ Width \in Int
    BY Reflects, Sizes DEF Area
<1>2. l = Leftward(a, b) /\ r = Rightward(a, b)
  <2>1. l = Leftward(a, b)
      BY DEF Minus, Leftward
  <2>2. ((a.x - Width) - b.x) + 2 * Width = (a.x + Width) - b.x
      BY <1>1
  <2> QED
      BY <2>1, <2>2 DEF Leftward, Rightward
<1>3. \A p \in Z : Square(p) \in Int
    BY DEF Z, Square
<1>4. Minus(a, b) \in Z /\ Leftward(a, b) \in Z /\ Rightward(a, b) \in Z
    BY WaysTyped
<1>5. /\ Square(Minus(a, b)) \in Int /\ Square(Leftward(a, b)) \in Int
      /\ Square(Rightward(a, b)) \in Int
    BY <1>3, <1>4
<1>6. MobiusDifference(a, b) =
        IF Square(Minus(a, b)) <= Square(l) /\ Square(Minus(a, b)) <= Square(r)
        THEN Minus(a, b) ELSE IF Square(l) <= Square(r) THEN l ELSE r
    BY DEF MobiusDifference
<1> HIDE DEF l, r
<1> QED
    BY <1>2, <1>5, <1>6

\* What getShortestDifference returns is a way to the goal, and no way there that goes
\* at most once around is shorter, on planes and Moebius strips of any size.
THEOREM ShortestWay == Spec => []WayIsShortest
<1>1. ASSUME TypeOK PROVE WayIsShortest
  <2> DEFINE Leads(way, goal) == AddToPosition(position, way).point = goal
  <2> SUFFICES ASSUME topology \in {"plane", "mobius"}, NEW goal \in Area
               PROVE  LET way == GetShortestDifference(goal, position)
                      IN  /\ Leads(way, goal)
                          /\ \A step \in [x : -Width .. Width, y : -Height .. Height] :
                               Leads(step, goal) => Square(way) <= Square(step)
      BY DEF WayIsShortest
  <2>1. position \in Area
      BY <1>1 DEF TypeOK
  <2>2. \A step \in [x : -Width .. Width, y : -Height .. Height] :
           step \in Z /\ step.x \in -Width .. Width
      BY Sizes DEF Z
  <2>3. CASE topology = "plane"
    <3>1. \A way : Leads(way, goal) <=> Plane(Plus(position, way)).point = goal
        BY <2>3 DEF AddToPosition, ResolvePosition
    <3>2. GetShortestDifference(goal, position) = Minus(goal, position)
        BY <2>3 DEF GetShortestDifference
    <3> HIDE DEF Leads
    <3> QED
        BY <2>1, <2>2, <3>1, <3>2, PlaneShortest
  <2>4. CASE topology = "mobius"
    <3>1. \A way : Leads(way, goal) <=> Mobius(Plus(position, way)).point = goal
        BY <2>4 DEF AddToPosition, ResolvePosition
    <3> DEFINE way == MobiusDifference(goal, position)
               ways == {Minus(goal, position), Leftward(goal, position),
                        Rightward(goal, position)}
    <3>2. GetShortestDifference(goal, position) = way
        BY <2>4 DEF GetShortestDifference
    <3>3. way \in ways /\ \A other \in ways : Square(way) <= Square(other)
        BY <2>1, MobiusPicks
    <3> HIDE DEF Leads, way
    <3>4. Leads(way, goal)
        BY <2>1, <3>1, <3>3, ThreeWays
    <3>5. \A p \in Z : Square(p) \in Int
        BY DEF Z, Square
    <3>6. ways \subseteq Z
        BY <2>1, WaysTyped
    <3>7. ASSUME NEW step \in [x : -Width .. Width, y : -Height .. Height], Leads(step, goal)
          PROVE  Square(way) <= Square(step)
      <4>1. PICK other \in ways : Square(other) <= Square(step)
          BY <2>1, <2>2, <3>1, <3>7, NoneShorter
      <4>2. Square(way) <= Square(other)
          BY <3>3, <4>1
      <4>3. /\ Square(way) \in Int /\ Square(other) \in Int /\ Square(step) \in Int
          BY <2>2, <3>3, <3>5, <3>6, <4>1
      <4> QED
          BY <4>1, <4>2, <4>3
    <3> QED
        BY <3>2, <3>4, <3>7
  <2> QED
      BY <2>3, <2>4
<1> QED
    BY <1>1, UnitsStayInside, PTL
=============================================================================
