--------------------------- MODULE GameLoopProofs ---------------------------
(***************************************************************************)
(* Theorems about GameLoop.  The inductive invariant LoopInv says, for     *)
(* every client that stays, what each message on its way and what waits to *)
(* be sent will do to its view: complete the next tick, or prepare it.     *)
(* That is a statement about all views that are settled to a tick, so that *)
(* it survives whatever else happens before the client reads.  It needs    *)
(* what the client makes of a sequence of updates, for which sequences are *)
(* gone through by counting up: Seq(Update) has no induction that can be   *)
(* cited, a set of numbers has.                                            *)
(***************************************************************************)
EXTENDS GameLoop, SequenceTheorems, FiniteSetTheorems, WellFoundedInduction, TLAPS

-----------------------------------------------------------------------------
(* Numbers *)

\* Induction on a set of numbers: the one that starts at 0 and goes on to n.
LEMMA CountUp ==
    ASSUME NEW n \in Nat, NEW S, 0 \in S, \A i \in 0 .. n - 1 : i \in S => i + 1 \in S
    PROVE  \A i \in 0 .. n : i \in S
<1> DEFINE Missed == (0 .. n) \ S
           Less == {ss \in Nat \X Nat : ss[1] < ss[2]}
<1> SUFFICES ASSUME Missed # {} PROVE FALSE
    OBVIOUS
<1>1. IsWellFoundedOn(Less, Nat)
    BY NatLessThanWellFounded DEF OpToRel
<1>2. Missed \subseteq Nat
    OBVIOUS
<1> HIDE DEF Less
<1>3. PICK i \in Missed : \A j \in Missed : ~(<<j, i>> \in Less)
    BY <1>1, <1>2, WFMin
<1>4. i # 0 /\ i - 1 \in 0 .. n - 1
    OBVIOUS
<1>5. i - 1 \notin Missed
  <2>1. \A j, k \in Nat : j < k => <<j, k>> \in Less
      BY DEF Less
  <2>2. i \in Nat /\ i - 1 \in Nat /\ i - 1 < i
      BY <1>4
  <2>3. <<i - 1, i>> \in Less
      BY <2>1, <2>2
  <2> QED
      BY <1>3, <2>3
<1> QED
    BY <1>4, <1>5

\* Quotient and remainder are the only ones.
LEMMA RemainderUnique ==
    ASSUME NEW w \in Nat, w > 0, NEW n \in Int, NEW q \in Int, NEW r \in 0 .. w - 1,
           n = w * q + r
    PROVE  n % w = r
<1> DEFINE p == n \div w
           s == n % w
<1>1. p \in Int /\ s \in 0 .. w - 1 /\ n = w * p + s
    OBVIOUS
<1> HIDE DEF p, s
<1>2. w * (p - q) = r - s
    BY <1>1
<1>3. p - q < 1
  <2> SUFFICES ASSUME p - q >= 1 PROVE FALSE
      BY <1>1
  <2>1. w * (p - q) >= w
      BY <1>1
  <2> QED
      BY <1>1, <1>2, <2>1
<1>4. q - p < 1
  <2> SUFFICES ASSUME q - p >= 1 PROVE FALSE
      BY <1>1
  <2>1. w * (q - p) >= w
      BY <1>1
  <2> QED
      BY <1>1, <1>2, <2>1
<1> QED
    BY <1>1, <1>3, <1>4 DEF s

\* A move along a round map stays on it, and moving on and back is no move.
LEMMA MoveAndBack ==
    ASSUME NEW p \in Positions, NEW v \in Int
    PROVE  /\ Moved(p, v) \in Positions
           /\ Moved(Moved(p, v), -v) = p
           /\ Moved(Moved(p, -v), v) = p
<1>1. Width \in Nat /\ Width > 0
    BY GameLoopAssumption
<1>2. ASSUME NEW w \in Int
      PROVE  Moved(p, w) \in Positions /\ Moved(Moved(p, w), -w) = p
  <2> DEFINE q == (p + w) \div Width
             r == (p + w) % Width
  <2>1. p \in 0 .. Width - 1
      BY DEF Positions
  <2>2. q \in Int /\ r \in 0 .. Width - 1 /\ p + w = Width * q + r
      BY <1>1, <2>1
  <2> HIDE DEF q
  <2> HIDE DEF r
  <2>3. Width * (-q) = - (Width * q)
      BY <1>1, <2>2
  <2>4. r - w = Width * (-q) + p
      BY <1>1, <2>1, <2>2, <2>3
  <2>5. (r + (-w)) % Width = p
    <3>1. r + (-w) \in Int /\ r + (-w) = Width * (-q) + p /\ -q \in Int
        BY <2>2, <2>4
    <3> QED
        BY <1>1, <2>1, <3>1, RemainderUnique
  <2> QED
      BY <2>2, <2>5 DEF Moved, Positions, r
<1>3. Moved(Moved(p, -v), -(-v)) = p /\ -(-v) = v
    BY <1>2
<1> QED
    BY <1>2, <1>3

\* Within the limits of acceleration a velocity stays one.
LEMMA DrivenType ==
    ASSUME NEW unit \in Unit, NEW fate
    PROVE  /\ Driven(unit, fate) \in Unit
           /\ Driven(unit, fate).target = unit.target
           /\ Driven(unit, fate).position = Moved(unit.position, Driven(unit, fate).velocity)
<1> DEFINE change == IF unit.target = NoTarget THEN 0 ELSE unit.target - unit.velocity
           within == IF change > Acceleration THEN Acceleration
                     ELSE IF change < -Acceleration THEN -Acceleration ELSE change
           velocity == IF fate = "collides" THEN 0 ELSE unit.velocity + within
<1>1. /\ Velocities \subseteq Int /\ 0 \in Velocities /\ Acceleration \in Nat
      /\ \A v, w \in Velocities : v .. w \subseteq Velocities
    BY GameLoopAssumption
<1>2. unit.velocity \in Velocities /\ unit.target \in Velocities \cup {NoTarget}
      /\ unit.position \in Positions
    BY DEF Unit, Targets
<1>3. unit.velocity + within \in Velocities
  <2>1. CASE unit.target = NoTarget
    <3>1. change = 0
        BY <2>1
    <3> HIDE DEF change
    <3>2. within = 0
        BY <1>1, <3>1
    <3> HIDE DEF within
    <3>3. unit.velocity \in Int
        BY <1>1, <1>2
    <3> QED
        BY <1>2, <3>2, <3>3
  <2>2. CASE unit.target \in Velocities /\ unit.target # NoTarget
    <3>1. unit.velocity \in Int /\ unit.target \in Int
        BY <1>1, <1>2, <2>2
    <3>2. \/ unit.velocity + within \in unit.velocity .. unit.target
          \/ unit.velocity + within \in unit.target .. unit.velocity
        BY <1>1, <2>2, <3>1
    <3> QED
        BY <1>1, <1>2, <2>2, <3>2
  <2> QED
      BY <1>2, <2>1, <2>2
<1>4. velocity \in Velocities
    BY <1>1, <1>3
<1>5. Driven(unit, fate) =
         [unit EXCEPT !.velocity = velocity, !.position = Moved(@, velocity)]
    BY DEF Driven
<1> HIDE DEF velocity
<1>6. Moved(unit.position, velocity) \in Positions
    BY <1>1, <1>2, <1>4, MoveAndBack
<1> QED
    BY <1>4, <1>5, <1>6 DEF Unit

-----------------------------------------------------------------------------
(* Applying updates one after the other *)

\* The views that a client goes through as it applies the first n of some updates
IsRunTo(n, r, view, updates) ==
    r = [i \in 0 .. n |-> IF i = 0 THEN view ELSE ApplyUpdate(r[i - 1], updates[i])]
IsRun(r, view, updates) == IsRunTo(Len(updates), r, view, updates)

\* There is a run over every sequence, and only one; the client's view is its end.
LEMMA RunExists ==
    ASSUME NEW view, NEW updates, Len(updates) \in Nat
    PROVE  \E r : IsRun(r, view, updates)
<1> DEFINE n == Len(updates)
           S == {k \in 0 .. n : \E r : IsRunTo(k, r, view, updates)}
<1>1. \E r : IsRunTo(0, r, view, updates)
  <2> DEFINE r == [i \in {0} |-> view]
  <2>1. IsRunTo(0, r, view, updates)
      BY DEF IsRunTo
  <2> QED
      BY <2>1
<1>2. ASSUME NEW k \in 0 .. n - 1, \E r : IsRunTo(k, r, view, updates)
      PROVE  \E r : IsRunTo(k + 1, r, view, updates)
  <2>1. PICK r : IsRunTo(k, r, view, updates)
      BY <1>2
  <2> DEFINE q == [i \in 0 .. k + 1 |->
                     IF i = k + 1 THEN ApplyUpdate(r[k], updates[k + 1]) ELSE r[i]]
  <2>2. \A i \in 0 .. k : q[i] = r[i]
      OBVIOUS
  <2>3. ASSUME NEW i \in 0 .. k + 1
        PROVE  q[i] = IF i = 0 THEN view ELSE ApplyUpdate(q[i - 1], updates[i])
    <3>1. CASE i = k + 1
        BY <2>2, <3>1
    <3>2. CASE i # k + 1
      <4>1. q[i] = r[i] /\ i \in 0 .. k
          BY <2>2, <3>2
      <4>2. r[i] = IF i = 0 THEN view ELSE ApplyUpdate(r[i - 1], updates[i])
          BY <2>1, <4>1 DEF IsRunTo
      <4>3. i # 0 => q[i - 1] = r[i - 1]
          BY <2>2, <4>1
      <4> QED
          BY <4>1, <4>2, <4>3
    <3> QED
        BY <3>1, <3>2
  <2>4. IsRunTo(k + 1, q, view, updates)
      BY <2>3 DEF IsRunTo
  <2> QED
      BY <2>4
<1>3. n \in Nat /\ 0 \in S /\ \A k \in 0 .. n - 1 : k \in S => k + 1 \in S
    BY <1>1, <1>2
<1> HIDE DEF S
<1>4. \A k \in 0 .. n : k \in S
    BY <1>3, CountUp
<1>5. n \in 0 .. n
    BY <1>3
<1> QED
    BY <1>4, <1>5 DEF S, IsRun

\* Two runs over the same sequence are the same at every number.
LEMMA RunUnique ==
    ASSUME NEW view, NEW updates, Len(updates) \in Nat,
           NEW r, NEW q, IsRun(r, view, updates), IsRun(q, view, updates)
    PROVE  r = q
<1> DEFINE n == Len(updates)
           S == {k \in 0 .. n : r[k] = q[k]}
<1>1. 0 \in S
    BY DEF IsRun, IsRunTo
<1>2. ASSUME NEW k \in 0 .. n - 1, k \in S
      PROVE  k + 1 \in S
  <2>1. k + 1 \in 0 .. n /\ k + 1 # 0 /\ (k + 1) - 1 = k
      OBVIOUS
  <2>2. r[k + 1] = ApplyUpdate(r[k], updates[k + 1])
      BY <2>1 DEF IsRun, IsRunTo
  <2>3. q[k + 1] = ApplyUpdate(q[k], updates[k + 1])
      BY <2>1 DEF IsRun, IsRunTo
  <2> QED
      BY <1>2, <2>1, <2>2, <2>3
<1> HIDE DEF S
<1>3. \A k \in 0 .. n : k \in S
    BY <1>1, <1>2, CountUp
<1>4. \A k \in 0 .. n : r[k] = q[k]
    BY <1>3 DEF S
<1>5. /\ r = [i \in 0 .. n |-> r[i]]
      /\ q = [i \in 0 .. n |-> q[i]]
    BY DEF IsRun, IsRunTo
<1> QED
    BY <1>4, <1>5

\* The last view of a run is what the updates make of the first.
LEMMA RunEnds ==
    ASSUME NEW view, NEW updates, Len(updates) \in Nat, NEW r, IsRun(r, view, updates)
    PROVE  ApplyUpdates(view, updates) = r[Len(updates)]
<1> DEFINE q == CHOOSE f : f = [i \in 0 .. Len(updates) |->
                     IF i = 0 THEN view ELSE ApplyUpdate(f[i - 1], updates[i])]
<1>1. IsRun(q, view, updates)
    BY DEF IsRun, IsRunTo
<1>2. ApplyUpdates(view, updates) = q[Len(updates)]
    BY DEF ApplyUpdates
<1> QED
    BY <1>1, <1>2, RunUnique

\* What a run of more updates does.
LEMMA ApplyMore ==
    ASSUME NEW view, NEW T, NEW some \in Seq(T), NEW more \in Seq(T)
    PROVE  ApplyUpdates(view, some \o more) = ApplyUpdates(ApplyUpdates(view, some), more)
<1> DEFINE all == some \o more
           middle == ApplyUpdates(view, some)
<1>1. /\ Len(some) \in Nat /\ Len(more) \in Nat /\ Len(all) = Len(some) + Len(more)
      /\ \A i \in 1 .. Len(some) + Len(more) :
           all[i] = IF i <= Len(some) THEN some[i] ELSE more[i - Len(some)]
    BY ConcatProperties, LenProperties
<1>2. PICK r : IsRun(r, view, some)
    BY <1>1, RunExists
<1>3. r[Len(some)] = middle
    BY <1>1, <1>2, RunEnds
<1> HIDE DEF all, middle
<1>4. PICK q : IsRun(q, middle, more)
    BY <1>1, RunExists
<1>5. ApplyUpdates(middle, more) = q[Len(more)]
    BY <1>1, <1>4, RunEnds
<1> DEFINE p == [i \in 0 .. Len(all) |-> IF i <= Len(some) THEN r[i] ELSE q[i - Len(some)]]
<1>6. ASSUME NEW i \in 0 .. Len(all)
      PROVE  p[i] = IF i = 0 THEN view ELSE ApplyUpdate(p[i - 1], all[i])
  <2>1. CASE i <= Len(some)
    <3> HIDE DEF p
    <3>0. i \in 0 .. Len(some)
        BY <1>1, <2>1
    <3>1. r[i] = IF i = 0 THEN view ELSE ApplyUpdate(r[i - 1], some[i])
        BY <1>2, <3>0 DEF IsRun, IsRunTo
    <3> USE DEF p
    <3>2. p[i] = r[i] /\ (i # 0 => p[i - 1] = r[i - 1] /\ all[i] = some[i])
        BY <1>1, <2>1
    <3> QED
        BY <3>1, <3>2
  <2>2. CASE i > Len(some)
    <3> DEFINE j == i - Len(some)
    <3>1. j \in 1 .. Len(more) /\ all[i] = more[j] /\ p[i] = q[j]
        BY <1>1, <2>2
    <3>2. q[j] = ApplyUpdate(q[j - 1], more[j])
        BY <1>1, <1>4, <3>1 DEF IsRun, IsRunTo
    <3>3. q[0] = middle
        BY <1>1, <1>4 DEF IsRun, IsRunTo
    <3>4. p[i - 1] = q[j - 1]
      <4>1. CASE j = 1
          BY <1>1, <1>3, <2>2, <3>3, <4>1
      <4>2. CASE j # 1
        <5>1. i - 1 > Len(some) /\ i - 1 \in 0 .. Len(all) /\ (i - 1) - Len(some) = j - 1
            BY <1>1, <2>2, <4>2
        <5> QED
            BY <1>1, <5>1
      <4> QED
          BY <4>1, <4>2
    <3>5. i # 0
        BY <1>1, <2>2
    <3> QED
        BY <3>1, <3>2, <3>4, <3>5
  <2> QED
      BY <1>1, <2>1, <2>2
<1>7. IsRun(p, view, all)
    BY <1>6 DEF IsRun, IsRunTo
<1>8. p[Len(all)] = q[Len(more)]
  <2>1. CASE Len(more) = 0
    <3>1. q[0] = middle
        BY <1>1, <1>4 DEF IsRun, IsRunTo
    <3> QED
        BY <1>1, <1>3, <2>1, <3>1
  <2>2. CASE Len(more) # 0
    <3>1. /\ Len(all) > Len(some) /\ Len(all) \in 0 .. Len(all)
          /\ Len(all) - Len(some) = Len(more)
        BY <1>1, <2>2
    <3> QED
        BY <1>1, <3>1
  <2> QED
      BY <2>1, <2>2
<1> HIDE DEF p
<1>9. ApplyUpdates(view, all) = p[Len(all)]
  <2>1. Len(all) \in Nat
      BY <1>1
  <2> QED
      BY <1>7, <2>1, RunEnds
<1> QED
    BY <1>5, <1>8, <1>9 DEF all, middle

\* No updates change nothing, and one is applied as it is.
LEMMA ApplyNone == \A view : ApplyUpdates(view, <<>>) = view
<1> SUFFICES ASSUME NEW view PROVE ApplyUpdates(view, <<>>) = view
    OBVIOUS
<1>1. Len(<<>>) = 0
    BY EmptySeq
<1>2. PICK r : IsRun(r, view, <<>>)
    BY <1>1, RunExists
<1>3. r[0] = view
    BY <1>1, <1>2 DEF IsRun, IsRunTo
<1> QED
    BY <1>1, <1>2, <1>3, RunEnds

\* A message of one update.
LEMMA ApplyOne ==
    ASSUME NEW view, NEW T, NEW update \in T
    PROVE  ApplyUpdates(view, <<update>>) = ApplyUpdate(view, update)
<1> DEFINE ups == <<update>>
<1>1. Len(ups) = 1 /\ ups[1] = update
    OBVIOUS
<1>2. PICK r : IsRun(r, view, ups)
    BY <1>1, RunExists
<1> HIDE DEF ups
<1>3. r[0] = view /\ r[1] = ApplyUpdate(r[0], ups[1])
    BY <1>1, <1>2 DEF IsRun, IsRunTo
<1> QED
    BY <1>1, <1>2, <1>3, RunEnds DEF ups

-----------------------------------------------------------------------------
(* What a client's view has to do with the units of the world *)

\* The units of a world: a function from some of the ids
IsUnits(us) == DOMAIN us \subseteq Units /\ us \in [DOMAIN us -> Unit]

ViewUnit == [position : Positions, velocity : Velocities, target : Targets,
             altered : BOOLEAN]

\* A view that nothing has been wrong with
View(t, f) == [timeNow |-> t, units |-> f, mistaken |-> FALSE]
IsView(v) ==
    /\ v = View(v.timeNow, v.units)
    /\ v.timeNow \in Nat
    /\ v.units \in [DOMAIN v.units -> ViewUnit]

\* A view has the units of a world, with their velocities and targets
Shows(v, us) ==
    /\ IsView(v) /\ DOMAIN v.units = DOMAIN us
    /\ \A u \in DOMAIN us : /\ v.units[u].velocity = us[u].velocity
                            /\ v.units[u].target = us[u].target

\* The view of a client that has applied all the updates of a tick: a unit is
\* where it is or one move behind, and where it is if its status was just sent
Settled(v, us) ==
    /\ Shows(v, us)
    /\ \A u \in DOMAIN us :
         /\ v.units[u].position \in {us[u].position, Moved(us[u].position, -us[u].velocity)}
         /\ v.units[u].altered => v.units[u].position = us[u].position

\* The view of a client that has moved its units on but has no update yet: it
\* has moved some that the world has not
Ahead(v, us) ==
    /\ Shows(v, us)
    /\ \A u \in DOMAIN us :
         /\ v.units[u].position \in {us[u].position, Moved(us[u].position, us[u].velocity)}
         /\ ~v.units[u].altered

\* The fields of such a view, by name.
LEMMA ViewFields ==
    \A t, f : View(t, f).timeNow = t /\ View(t, f).units = f /\ ~View(t, f).mistaken
BY DEF View

\* What the operators of the client's game do to such a view, for units that
\* it knows, or does not know, as it should.
LEMMA ViewEndTick ==
    ASSUME NEW t, NEW f
    PROVE  EndTick(View(t, f)) = View(t + 1, [u \in DOMAIN f |-> IncrementState(f[u])])
<1> DEFINE v == View(t, f)
           g == [u \in DOMAIN v.units |-> IncrementState(v.units[u])]
           x == [v EXCEPT !.timeNow = t + 1]
<1>1. PICK no : no = FALSE
    OBVIOUS
<1>2. v = [timeNow |-> t, units |-> f, mistaken |-> no]
    BY <1>1 DEF View
<1>3. v.timeNow = t /\ v.units = f
    BY ViewFields
<1>4. EndTick(v) = [v EXCEPT !.timeNow = v.timeNow + 1, !.units = g]
    BY DEF EndTick
<1>5. g = [u \in DOMAIN f |-> IncrementState(f[u])]
    BY <1>3 DEF g
<1> HIDE DEF g, v
<1>6. x = [timeNow |-> t + 1, units |-> f, mistaken |-> no]
    BY <1>2
<1>7. [v EXCEPT !.timeNow = t + 1, !.units = g] = [x EXCEPT !.units = g]
    OBVIOUS
<1> HIDE DEF x
<1>8. [x EXCEPT !.units = g] = [timeNow |-> t + 1, units |-> g, mistaken |-> no]
    BY <1>6
<1>9. EndTick(v) = View(t + 1, g)
    BY <1>1, <1>3, <1>4, <1>7, <1>8, Zenon DEF View
<1> QED
    BY <1>5, <1>9 DEF v

\* An order that was accepted gives the unit its target.
LEMMA ViewAccepted ==
    ASSUME NEW t, NEW f, NEW o, o.unit \in DOMAIN f
    PROVE  ApplyUpdate(View(t, f), Accepted(o)) = View(t, [f EXCEPT ![o.unit].target = o.velocity])
<1>1. ApplyUpdate(View(t, f), Accepted(o)) = OrderAccepted(View(t, f), Accepted(o))
    BY DEF ApplyUpdate, Accepted
<1> QED
    BY <1>1 DEF OrderAccepted, Accepted, View

WithAdded(f, u, b) ==
    [k \in DOMAIN f \cup {u} |->
       IF k = u THEN Updated(StatusOf(b), NoTarget, FALSE) ELSE f[k]]

\* A unit that is new is added as it was sent.
LEMMA ViewAdded ==
    ASSUME NEW t, NEW f, NEW u, NEW b, u \notin DOMAIN f
    PROVE  ApplyUpdate(View(t, f), Added(u, b)) = View(t, WithAdded(f, u, b))
<1> DEFINE v == View(t, f)
           o == Added(u, b)
           m == v.mistaken \/ o.unit \in DOMAIN v.units
           g == [k \in DOMAIN v.units \cup {o.unit} |->
                     IF k = o.unit THEN Updated(o.status, NoTarget, FALSE) ELSE v.units[k]]
           x == [v EXCEPT !.mistaken = m]
<1>1. PICK no : no = FALSE
    OBVIOUS
<1>2. v = [timeNow |-> t, units |-> f, mistaken |-> no]
    BY <1>1 DEF View
<1>3. v.units = f /\ v.mistaken = FALSE
    BY ViewFields
<1>4. o.unit = u /\ o.status = StatusOf(b)
    BY DEF Added
<1>5. m = FALSE
    BY <1>3, <1>4
<1>6. ApplyUpdate(v, o) = UnitAdded(v, o)
    BY DEF ApplyUpdate, Added
<1>7. UnitAdded(v, o) = [v EXCEPT !.mistaken = m, !.units = g]
    BY DEF UnitAdded
<1> HIDE DEF v, o
<1>8. g = WithAdded(f, u, b)
    BY <1>3, <1>4 DEF WithAdded
<1> HIDE DEF g, m
<1>9. x = [timeNow |-> t, units |-> f, mistaken |-> m]
    BY <1>2
<1>10. [v EXCEPT !.mistaken = m, !.units = g] = [x EXCEPT !.units = g]
    OBVIOUS
<1> HIDE DEF x
<1>11. [x EXCEPT !.units = g] = [timeNow |-> t, units |-> g, mistaken |-> m]
    BY <1>9
<1>12. ApplyUpdate(v, o) = View(t, g)
    BY <1>5, <1>6, <1>7, <1>10, <1>11, Zenon DEF View
<1> QED
    BY <1>8, <1>12 DEF v, o

WithAltered(f, u, b) == [f EXCEPT ![u] = Updated(StatusOf(b), f[u].target, TRUE)]

\* A unit that is known gets the status that was sent, and keeps its target.
LEMMA ViewAltered ==
    ASSUME NEW t, NEW f, NEW u, NEW b, u \in DOMAIN f
    PROVE  ApplyUpdate(View(t, f), Altered(u, b)) = View(t, WithAltered(f, u, b))
<1>1. ApplyUpdate(View(t, f), Altered(u, b)) = UnitAltered(View(t, f), Altered(u, b))
    BY DEF ApplyUpdate, Altered
<1> QED
    BY <1>1 DEF UnitAltered, Altered, View, WithAltered

\* A unit that is known goes.
LEMMA ViewRemoved ==
    ASSUME NEW t, NEW f, NEW u, u \in DOMAIN f
    PROVE  ApplyUpdate(View(t, f), Removed(u)) = View(t, Restrict(f, DOMAIN f \ {u}))
<1>1. ApplyUpdate(View(t, f), Removed(u)) = UnitRemoved(View(t, f), Removed(u))
    BY DEF ApplyUpdate, Removed
<1> QED
    BY <1>1 DEF UnitRemoved, Removed, View

\* What is put together as a view is one.
LEMMA ViewsAre ==
    ASSUME NEW t \in Nat, NEW f, f \in [DOMAIN f -> ViewUnit]
    PROVE  IsView(View(t, f)) /\ View(t, f).timeNow = t /\ View(t, f).units = f
           /\ ~View(t, f).mistaken
<1>1. View(t, f).timeNow = t /\ View(t, f).units = f /\ ~View(t, f).mistaken
    BY ViewFields
<1> QED
    BY <1>1 DEF IsView

\* Positions and velocities are numbers, whatever the constants are.
LEMMA VelocitiesAreNumbers ==
    /\ Velocities \subseteq Int /\ Width \in Nat /\ Width > 0
    /\ \A unit \in Unit : unit.velocity \in Int /\ unit.position \in Positions
<1>1. Velocities \subseteq Int /\ Width \in Nat /\ Width > 0
    BY GameLoopAssumption
<1> QED
    BY <1>1 DEF Unit

\* endTick: what was settled is ahead.
LEMMA EndTickGoesAhead ==
    ASSUME NEW v, NEW us, IsUnits(us), Settled(v, us)
    PROVE  Ahead(EndTick(v), us) /\ EndTick(v).timeNow = v.timeNow + 1
<1> DEFINE w == EndTick(v)
<1>1. IsView(v) /\ DOMAIN v.units = DOMAIN us
    BY DEF Settled, Shows
<1> DEFINE g == [u \in DOMAIN us |-> IncrementState(v.units[u])]
<1>2. w = View(v.timeNow + 1, g)
  <2>1. v = View(v.timeNow, v.units)
      BY <1>1 DEF IsView
  <2>2. EndTick(View(v.timeNow, v.units)) =
            View(v.timeNow + 1, [u \in DOMAIN v.units |-> IncrementState(v.units[u])])
      BY ViewEndTick
  <2> QED
      BY <1>1, <2>1, <2>2
<1>a. w.units = g
    BY <1>2, ViewFields
<1> HIDE DEF w
<1>3. ASSUME NEW u \in DOMAIN us
      PROVE  /\ w.units[u] \in ViewUnit /\ ~w.units[u].altered
             /\ w.units[u].velocity = us[u].velocity /\ w.units[u].target = us[u].target
             /\ w.units[u].position \in {us[u].position, Moved(us[u].position, us[u].velocity)}
  <2> DEFINE b == v.units[u]
             p == us[u].position
             s == us[u].velocity
  <2>1. b \in ViewUnit /\ w.units[u] = IncrementState(b)
      BY <1>1, <1>a DEF IsView
  <2>2. us[u] \in Unit /\ p \in Positions /\ s \in Int
      BY VelocitiesAreNumbers DEF IsUnits
  <2>3. /\ b.velocity = s /\ b.target = us[u].target
        /\ b.position \in {p, Moved(p, -s)} /\ (b.altered => b.position = p)
      BY DEF Settled, Shows
  <2>4. /\ Moved(p, s) \in Positions /\ Moved(Moved(p, -s), s) = p
      BY <2>2, MoveAndBack
  <2>5. CASE b.altered
    <3>1. w.units[u] = [b EXCEPT !.altered = FALSE]
        BY <2>1, <2>5 DEF IncrementState
    <3> HIDE DEF b, w, p, s
    <3> QED
        BY <2>1, <2>3, <2>5, <3>1 DEF ViewUnit, p, s
  <2>6. CASE ~b.altered
    <3>1. w.units[u] = [b EXCEPT !.position = Moved(@, b.velocity)]
        BY <2>1, <2>6 DEF IncrementState
    <3> HIDE DEF b, w
    <3>2. Moved(b.position, b.velocity) \in {p, Moved(p, s)}
        BY <2>3, <2>4
    <3>3. p \in Positions
        BY <2>2
    <3> QED
        BY <2>1, <2>3, <2>4, <2>6, <3>1, <3>2, <3>3 DEF ViewUnit
  <2> QED
      BY <2>5, <2>6
<1>4. g \in [DOMAIN g -> ViewUnit] /\ DOMAIN g = DOMAIN us
  <2> HIDE DEF g
  <2>1. \A u \in DOMAIN us : g[u] \in ViewUnit
      BY <1>3, <1>a
  <2>2. g = [u \in DOMAIN us |-> g[u]]
      BY DEF g
  <2> QED
      BY <2>1, <2>2
<1>5. IsView(w) /\ w.timeNow = v.timeNow + 1
  <2> HIDE DEF g
  <2>1. v.timeNow + 1 \in Nat
      BY <1>1 DEF IsView
  <2> QED
      BY <1>2, <1>4, <2>1, ViewsAre
<1> HIDE DEF g
<1>6. Ahead(w, us)
    BY <1>3, <1>4, <1>5, <1>a DEF Ahead, Shows
<1> QED
    BY <1>5, <1>6 DEF w

\* orderAccepted: the target is the one that the server has given the unit.
LEMMA AcceptedStaysAhead ==
    ASSUME NEW w, NEW us, IsUnits(us), Ahead(w, us),
           NEW order \in Order, order.unit \in DOMAIN us
    PROVE  LET x == ApplyUpdate(w, Accepted(order))
           IN  /\ Ahead(x, [us EXCEPT ![order.unit].target = order.velocity])
               /\ x.timeNow = w.timeNow
<1> DEFINE x == ApplyUpdate(w, Accepted(order))
           ws == [us EXCEPT ![order.unit].target = order.velocity]
           o == order.unit
<1>1. IsView(w) /\ DOMAIN w.units = DOMAIN us
    BY DEF Ahead, Shows
<1> DEFINE g == [w.units EXCEPT ![o].target = order.velocity]
<1>2. x = View(w.timeNow, g)
  <2>1. w = View(w.timeNow, w.units)
      BY <1>1 DEF IsView
  <2>2. ApplyUpdate(View(w.timeNow, w.units), Accepted(order)) = View(w.timeNow, g)
      BY <1>1, ViewAccepted
  <2> QED
      BY <2>1, <2>2
<1>3. x.units = g
    BY <1>2, ViewFields
<1> HIDE DEF x
<1>4. order.velocity \in Targets
    BY DEF Order, Targets
<1>5. DOMAIN ws = DOMAIN us
    OBVIOUS
<1>6. ASSUME NEW u \in DOMAIN us
      PROVE  /\ x.units[u] \in ViewUnit /\ ~x.units[u].altered
             /\ x.units[u].velocity = ws[u].velocity /\ x.units[u].target = ws[u].target
             /\ x.units[u].position \in {ws[u].position, Moved(ws[u].position, ws[u].velocity)}
  <2> DEFINE b == w.units[u]
             a == us[u]
  <2>1. b \in ViewUnit /\ a \in Unit
      BY <1>1 DEF IsView, IsUnits
  <2>2. /\ b.velocity = a.velocity /\ b.target = a.target /\ ~b.altered
        /\ b.position \in {a.position, Moved(a.position, a.velocity)}
      BY DEF Ahead, Shows
  <2>3. /\ x.units[u] = IF u = o THEN [b EXCEPT !.target = order.velocity] ELSE b
        /\ ws[u] = IF u = o THEN [a EXCEPT !.target = order.velocity] ELSE a
      BY <1>1, <1>3
  <2> HIDE DEF ws, a, b, g
  <2> QED
      BY <1>4, <2>1, <2>2, <2>3 DEF ViewUnit, Unit
<1>7. g \in [DOMAIN g -> ViewUnit] /\ DOMAIN g = DOMAIN us
  <2>1. g = [u \in DOMAIN us |-> g[u]]
      BY <1>1
  <2> HIDE DEF g
  <2>2. \A u \in DOMAIN us : g[u] \in ViewUnit
      BY <1>3, <1>6
  <2> QED
      BY <2>1, <2>2
<1>8. IsView(x) /\ x.timeNow = w.timeNow
  <2> HIDE DEF g
  <2>1. w.timeNow \in Nat
      BY <1>1 DEF IsView
  <2> QED
      BY <1>2, <1>7, <2>1, ViewsAre
<1> HIDE DEF g, ws
<1>9. Ahead(x, ws)
    BY <1>3, <1>5, <1>6, <1>7, <1>8 DEF Ahead, Shows
<1> QED
    BY <1>8, <1>9 DEF x, ws

-----------------------------------------------------------------------------
(* What the orders in a queue do *)

\* The worlds that the server goes through as it obeys the first n orders
CarriesTo(n, r, queue) ==
    r = [i \in 0 .. n |-> IF i = 0 THEN [units |-> units, updates |-> <<>>]
                          ELSE Obeyed(r[i - 1], queue[i])]

\* The worlds that the server goes through exist, however long the queue.
LEMMA CarryExists ==
    ASSUME NEW queue, NEW n \in Nat
    PROVE  \E r : CarriesTo(n, r, queue)
<1> DEFINE S == {k \in 0 .. n : \E r : CarriesTo(k, r, queue)}
<1>1. \E r : CarriesTo(0, r, queue)
  <2> DEFINE r == [i \in {0} |-> [units |-> units, updates |-> <<>>]]
  <2>1. CarriesTo(0, r, queue)
      BY DEF CarriesTo
  <2> QED
      BY <2>1
<1>2. ASSUME NEW k \in 0 .. n - 1, \E r : CarriesTo(k, r, queue)
      PROVE  \E r : CarriesTo(k + 1, r, queue)
  <2>1. PICK r : CarriesTo(k, r, queue)
      BY <1>2
  <2> DEFINE q == [i \in 0 .. k + 1 |->
                     IF i = k + 1 THEN Obeyed(r[k], queue[k + 1]) ELSE r[i]]
             start == [units |-> units, updates |-> <<>>]
  <2>2. \A i \in 0 .. k : q[i] = r[i]
      OBVIOUS
  <2>3. ASSUME NEW i \in 0 .. k + 1
        PROVE  q[i] = IF i = 0 THEN start ELSE Obeyed(q[i - 1], queue[i])
    <3> HIDE DEF start
    <3>1. CASE i = k + 1
        BY <2>2, <3>1
    <3>2. CASE i # k + 1
      <4>1. q[i] = r[i] /\ i \in 0 .. k
          BY <2>2, <3>2
      <4>2. r[i] = IF i = 0 THEN start ELSE Obeyed(r[i - 1], queue[i])
          BY <2>1, <4>1 DEF CarriesTo, start
      <4>3. i # 0 => q[i - 1] = r[i - 1]
          BY <2>2, <4>1
      <4> QED
          BY <4>1, <4>2, <4>3
    <3> QED
        BY <3>1, <3>2
  <2>4. CarriesTo(k + 1, q, queue)
    <3> HIDE DEF start
    <3>1. q = [i \in 0 .. k + 1 |-> IF i = 0 THEN start ELSE Obeyed(q[i - 1], queue[i])]
        BY <2>3
    <3> QED
        BY <3>1 DEF CarriesTo, start
  <2> QED
      BY <2>4
<1>3. 0 \in S /\ \A k \in 0 .. n - 1 : k \in S => k + 1 \in S
    BY <1>1, <1>2
<1> HIDE DEF S
<1>4. \A k \in 0 .. n : k \in S
    BY <1>3, CountUp
<1>5. n \in 0 .. n
    OBVIOUS
<1> QED
    BY <1>4, <1>5 DEF S

\* The orders for a unit among the first k of a queue
OrdersFor(u, queue, k) == {i \in 1 .. k : queue[i].unit = u}

\* What the first k orders of a queue have made of the world: every unit has
\* the target of the last order for it, and the updates bring a client that is
\* ahead of the units to be ahead of what they have become
WellCarried(world, queue, k) ==
    /\ IsUnits(world.units) /\ DOMAIN world.units = DOMAIN units
    /\ world.updates \in Seq(Update)
    /\ \A w : Ahead(w, units) =>
         /\ Ahead(ApplyUpdates(w, world.updates), world.units)
         /\ ApplyUpdates(w, world.updates).timeNow = w.timeNow
    /\ \A u \in DOMAIN units :
         /\ world.units[u].position = units[u].position
         /\ world.units[u].velocity = units[u].velocity
         /\ OrdersFor(u, queue, k) = {} => world.units[u].target = units[u].target
         /\ OrdersFor(u, queue, k) # {} =>
              \E m \in OrdersFor(u, queue, k) :
                 /\ \A j \in OrdersFor(u, queue, k) : j <= m
                 /\ world.units[u].target = queue[m].velocity

\* One more order.
LEMMA OneMoreOrder ==
    ASSUME IsUnits(units), NEW queue \in Seq(Order), NEW k \in Nat, k + 1 <= Len(queue),
           NEW world, world = [units |-> world.units, updates |-> world.updates],
           WellCarried(world, queue, k)
    PROVE  LET next == Obeyed(world, queue[k + 1])
           IN  /\ next = [units |-> next.units, updates |-> next.updates]
               /\ WellCarried(next, queue, k + 1)
<1> DEFINE order == queue[k + 1]
           o == order.unit
           next == Obeyed(world, order)
           us == world.units
<1>1. Len(queue) \in Nat /\ k + 1 \in 1 .. Len(queue) /\ order \in Order
    BY LenProperties, ElementOfSeq
<1>2. o \in Units /\ order.velocity \in Velocities /\ order.velocity \in Targets
    BY <1>1 DEF Order, Targets
<1>3. \A u : OrdersFor(u, queue, k + 1) =
                IF u = o THEN OrdersFor(u, queue, k) \cup {k + 1} ELSE OrdersFor(u, queue, k)
    BY DEF OrdersFor
<1>4. \A u : \A j \in OrdersFor(u, queue, k) : j < k + 1
    BY DEF OrdersFor
<1>5. CASE o \notin DOMAIN us
  <2>1. next = world
      BY <1>5 DEF Obeyed
  <2>2. \A u \in DOMAIN units : OrdersFor(u, queue, k + 1) = OrdersFor(u, queue, k)
      BY <1>3, <1>5 DEF WellCarried
  <2> HIDE DEF next, order, o
  <2> QED
      BY <2>1, <2>2 DEF WellCarried, order, next
<1>6. CASE o \in DOMAIN us
  <2> DEFINE ws == [us EXCEPT ![o].target = order.velocity]
             more == Accepted(order)
  <2>1. next = [units |-> ws, updates |-> Append(world.updates, more)]
      BY <1>6 DEF Obeyed
  <2>2. next.units = ws /\ next.updates = Append(world.updates, more)
      BY <2>1
  <2>3. more \in Update
      BY <1>2 DEF Accepted, Update
  <2>4. world.updates \in Seq(Update) /\ IsUnits(us) /\ DOMAIN us = DOMAIN units
      BY DEF WellCarried
  <2> HIDE DEF more, next
  <2>5. Append(world.updates, more) \in Seq(Update)
        /\ Append(world.updates, more) = world.updates \o <<more>>
      BY <2>3, <2>4, AppendProperties, AppendIsConcat
  <2>6. DOMAIN ws = DOMAIN units
      BY <2>4
  <2>7. \A u \in DOMAIN units :
           ws[u] = IF u = o THEN [us[u] EXCEPT !.target = order.velocity] ELSE us[u]
      BY <2>4
  <2>8. \A u \in DOMAIN units : us[u] \in Unit
      BY <2>4 DEF IsUnits
  <2> HIDE DEF order
  <2>9. \A u \in DOMAIN units :
           /\ ws[u] \in Unit /\ ws[u].position = us[u].position
           /\ ws[u].velocity = us[u].velocity
           /\ ws[u].target = IF u = o THEN order.velocity ELSE us[u].target
    <3> HIDE DEF us, ws, o
    <3> QED
        BY <1>2, <2>7, <2>8 DEF Unit
  <2>10. ws = [u \in DOMAIN units |-> ws[u]]
      BY <2>4
  <2>11. IsUnits(ws)
    <3> HIDE DEF ws
    <3> QED
        BY <2>4, <2>6, <2>9, <2>10 DEF IsUnits
  <2>12. ASSUME NEW w, Ahead(w, units)
         PROVE  /\ Ahead(ApplyUpdates(w, next.updates), ws)
                /\ ApplyUpdates(w, next.updates).timeNow = w.timeNow
    <3> DEFINE x == ApplyUpdates(w, world.updates)
    <3>1. Ahead(x, us) /\ x.timeNow = w.timeNow
        BY <2>12 DEF WellCarried
    <3> DEFINE one == <<more>>
               old == world.updates
    <3>2. one \in Seq(Update) /\ old \in Seq(Update)
        BY <2>3, <2>4
    <3>3. ApplyUpdates(w, next.updates) = ApplyUpdates(x, <<more>>)
      <4> HIDE DEF one, old
      <4>1. ApplyUpdates(w, old \o one) = ApplyUpdates(ApplyUpdates(w, old), one)
          BY <3>2, ApplyMore
      <4> QED
          BY <2>2, <2>5, <4>1, Zenon DEF old, one
    <3> HIDE DEF x
    <3>4. ApplyUpdates(x, <<more>>) = ApplyUpdate(x, more)
        BY <2>3, ApplyOne
    <3>5. Ahead(ApplyUpdate(x, more), ws) /\ ApplyUpdate(x, more).timeNow = x.timeNow
        BY <1>1, <1>6, <2>4, <3>1, AcceptedStaysAhead DEF more, order
    <3> QED
        BY <3>1, <3>3, <3>4, <3>5
  <2>13. ASSUME NEW u \in DOMAIN units
         PROVE  /\ ws[u].position = units[u].position
                /\ ws[u].velocity = units[u].velocity
                /\ OrdersFor(u, queue, k + 1) = {} => ws[u].target = units[u].target
                /\ OrdersFor(u, queue, k + 1) # {} =>
                      \E m \in OrdersFor(u, queue, k + 1) :
                         /\ \A j \in OrdersFor(u, queue, k + 1) : j <= m
                         /\ ws[u].target = queue[m].velocity
    <3>1. /\ us[u].position = units[u].position /\ us[u].velocity = units[u].velocity
          /\ OrdersFor(u, queue, k) = {} => us[u].target = units[u].target
          /\ OrdersFor(u, queue, k) # {} =>
                \E m \in OrdersFor(u, queue, k) :
                   /\ \A j \in OrdersFor(u, queue, k) : j <= m
                   /\ us[u].target = queue[m].velocity
        BY DEF WellCarried
    <3>2. /\ ws[u].position = us[u].position /\ ws[u].velocity = us[u].velocity
          /\ ws[u].target = IF u = o THEN order.velocity ELSE us[u].target
        BY <2>9
    <3> HIDE DEF us, ws, o
    <3>3. CASE u = o
      <4>1. k + 1 \in OrdersFor(u, queue, k + 1)
          BY <1>3, <3>3
      <4>2. \A j \in OrdersFor(u, queue, k + 1) : j <= k + 1
          BY DEF OrdersFor
      <4>3. ws[u].target = queue[k + 1].velocity
          BY <3>2, <3>3 DEF order
      <4> QED
          BY <3>1, <3>2, <4>1, <4>2, <4>3
    <3>4. CASE u # o
      <4>1. OrdersFor(u, queue, k + 1) = OrdersFor(u, queue, k)
          BY <1>3, <3>4
      <4> QED
          BY <3>1, <3>2, <3>4, <4>1
    <3> QED
        BY <3>3, <3>4
  <2> HIDE DEF ws
  <2>14. WellCarried(next, queue, k + 1)
      BY <2>2, <2>5, <2>6, <2>11, <2>12, <2>13 DEF WellCarried
  <2> QED
      BY <2>1, <2>2, <2>14 DEF next, order
<1> QED
    BY <1>5, <1>6

\* All the orders of a queue.
LEMMA QueueCarried ==
    ASSUME IsUnits(units), NEW queue \in Seq(Order)
    PROVE  WellCarried(Carried(queue), queue, Len(queue))
<1> DEFINE n == Len(queue)
           r == CHOOSE r : r = [i \in 0 .. n |->
                    IF i = 0 THEN [units |-> units, updates |-> <<>>]
                    ELSE Obeyed(r[i - 1], queue[i])]
           S == {k \in 0 .. n : /\ r[k] = [units |-> r[k].units, updates |-> r[k].updates]
                                /\ WellCarried(r[k], queue, k)}
<1>1. n \in Nat
    BY LenProperties
<1>2. CarriesTo(n, r, queue)
  <2>1. \E q : CarriesTo(n, q, queue)
      BY <1>1, CarryExists
  <2> QED
      BY <2>1 DEF CarriesTo
<1>3. Carried(queue) = r[n]
    BY DEF Carried
<1> HIDE DEF r
<1>4. r[0] = [units |-> units, updates |-> <<>>]
    BY <1>1, <1>2 DEF CarriesTo
<1>5. \A k \in 0 .. n - 1 : r[k + 1] = Obeyed(r[k], queue[k + 1])
  <2> TAKE k \in 0 .. n - 1
  <2>1. k + 1 \in 0 .. n /\ k + 1 # 0 /\ (k + 1) - 1 = k
      OBVIOUS
  <2> QED
      BY <1>2, <2>1 DEF CarriesTo
<1>6. 0 \in S
  <2>1. r[0].units = units /\ r[0].updates = <<>>
      BY <1>4
  <2>2. \A u : OrdersFor(u, queue, 0) = {}
      BY DEF OrdersFor
  <2>3. <<>> \in Seq(Update)
      OBVIOUS
  <2>4. WellCarried(r[0], queue, 0)
      BY <2>1, <2>2, <2>3, ApplyNone DEF WellCarried
  <2> QED
      BY <1>1, <1>4, <2>1, <2>4
<1>7. \A k \in 0 .. n - 1 : k \in S => k + 1 \in S
  <2> TAKE k \in 0 .. n - 1
  <2> HAVE k \in S
  <2>1. k \in Nat /\ k + 1 <= Len(queue) /\ k + 1 \in 0 .. n
      BY <1>1
  <2> DEFINE next == Obeyed(r[k], queue[k + 1])
  <2>2. next = [units |-> next.units, updates |-> next.updates]
        /\ WellCarried(next, queue, k + 1)
      BY <2>1, OneMoreOrder
  <2> QED
      BY <1>5, <2>1, <2>2
<1> HIDE DEF S
<1>8. \A k \in 0 .. n : k \in S
    BY <1>1, <1>6, <1>7, CountUp
<1>9. n \in 0 .. n
    BY <1>1
<1> QED
    BY <1>3, <1>8, <1>9 DEF S

-----------------------------------------------------------------------------
(* The updates of a tick *)

\* A finite set as a sequence: every element is there, and once.
LEMMA SetsInOrder ==
    ASSUME NEW T, IsFiniteSet(T)
    PROVE  /\ SetToSeq(T) \in Seq(T) /\ Len(SetToSeq(T)) = Cardinality(T)
           /\ \A i, j \in 1 .. Len(SetToSeq(T)) : SetToSeq(T)[i] = SetToSeq(T)[j] => i = j
           /\ \A x \in T : \E i \in 1 .. Len(SetToSeq(T)) : SetToSeq(T)[i] = x
<1> DEFINE s == SetToSeq(T)
           n == Cardinality(T)
<1>1. n \in Nat /\ ExistsBijection(1 .. n, T)
    BY FS_CardinalityType
<1>2. \E f \in [1 .. n -> T] : IsInjective(f)
  <2>1. PICK f \in Bijection(1 .. n, T) : TRUE
      BY <1>1 DEF ExistsBijection
  <2> QED
      BY <2>1 DEF Bijection, Injection, IsInjective
<1>3. s \in [1 .. n -> T] /\ IsInjective(s)
    BY <1>2 DEF SetToSeq
<1>4. s \in Injection(1 .. n, T)
    BY <1>3 DEF Injection, IsInjective
<1>5. Cardinality(1 .. n) = n
    BY <1>1, FS_Interval
<1>6. s \in Surjection(1 .. n, T)
    BY <1>4, <1>5, FS_Injection
<1> HIDE DEF s, n
<1>7. s \in Seq(T) /\ Len(s) = n
    BY <1>1, <1>3
<1>8. \A i, j \in 1 .. Len(s) : s[i] = s[j] => i = j
    BY <1>3, <1>7 DEF IsInjective
<1>9. \A x \in T : \E i \in 1 .. Len(s) : s[i] = x
    BY <1>6, <1>7 DEF Surjection
<1> QED
    BY <1>7, <1>8, <1>9 DEF s, n

\* The updates of a stage of a tick, in whatever order: one for each of some
\* units, each once
InSomeOrder(s, S, g) ==
    /\ s \in Seq(Update)
    /\ \A i \in 1 .. Len(s) : s[i].unit \in S /\ s[i] = g[s[i].unit]
    /\ \A i, j \in 1 .. Len(s) : s[i].unit = s[j].unit => i = j
    /\ \A u \in S : \E i \in 1 .. Len(s) : s[i].unit = u

\* The updates of some units, as Tick puts them in a sequence.
LEMMA UpdatesInSomeOrder ==
    ASSUME NEW S, IsFiniteSet(S), NEW g, DOMAIN g = S,
           \A u \in S : g[u] \in Update /\ g[u].unit = u
    PROVE  InSomeOrder(SetToSeq({g[u] : u \in S}), S, g)
<1> DEFINE T == {g[u] : u \in S}
           h == [u \in S |-> g[u]]
           s == SetToSeq(T)
<1>1. IsFiniteSet(T)
  <2>1. h \in Surjection(S, T)
      BY DEF Surjection
  <2> QED
      BY <2>1, FS_Surjection
<1>2. T \subseteq Update /\ \A x \in T : x.unit \in S /\ x = g[x.unit]
    OBVIOUS
<1>3. \A u \in S : g[u] \in T /\ g[u].unit = u
    OBVIOUS
<1> HIDE DEF T
<1>4. /\ s \in Seq(T)
      /\ \A i, j \in 1 .. Len(s) : s[i] = s[j] => i = j
      /\ \A x \in T : \E i \in 1 .. Len(s) : s[i] = x
    BY <1>1, SetsInOrder
<1> HIDE DEF s
<1>5. s \in Seq(Update)
    BY <1>2, <1>4
<1>6. \A i \in 1 .. Len(s) : s[i] \in T
    BY <1>4, ElementOfSeq
<1>7. \A i \in 1 .. Len(s) : s[i].unit \in S /\ s[i] = g[s[i].unit]
    BY <1>2, <1>6
<1>8. ASSUME NEW i \in 1 .. Len(s), NEW j \in 1 .. Len(s), s[i].unit = s[j].unit
      PROVE  i = j
  <2>1. s[i] = s[j]
      BY <1>7, <1>8
  <2> QED
      BY <1>4, <2>1
<1>9. ASSUME NEW u \in S
      PROVE  \E i \in 1 .. Len(s) : s[i].unit = u
  <2>1. PICK i \in 1 .. Len(s) : s[i] = g[u]
      BY <1>3, <1>4
  <2> QED
      BY <1>3, <2>1
<1> QED
    BY <1>5, <1>7, <1>8, <1>9 DEF InSomeOrder, s, T

\* The units that the first k of some updates are about
Reached(s, k) == {s[i].unit : i \in 1 .. k}

\* They are applied one by one, each to a unit that none was about before
Takes(r, v, s, S, g) ==
    /\ r[0] = v /\ ApplyUpdates(v, s) = r[Len(s)]
    /\ \A k \in 0 .. Len(s) - 1 : \E u \in S :
         /\ Reached(s, k) \subseteq S /\ u \notin Reached(s, k)
         /\ Reached(s, k + 1) = Reached(s, k) \cup {u}
         /\ r[k + 1] = ApplyUpdate(r[k], g[u])

\* A client that applies such updates comes to them one unit at a time.
LEMMA OneByOne ==
    ASSUME NEW v, NEW S, NEW g, NEW s, InSomeOrder(s, S, g)
    PROVE  /\ Len(s) \in Nat /\ Reached(s, 0) = {} /\ Reached(s, Len(s)) = S
           /\ \E r : Takes(r, v, s, S, g)
<1> DEFINE n == Len(s)
<1>1. /\ s \in Seq(Update)
      /\ \A i \in 1 .. n : s[i].unit \in S /\ s[i] = g[s[i].unit]
      /\ \A i, j \in 1 .. n : s[i].unit = s[j].unit => i = j
      /\ \A u \in S : \E i \in 1 .. n : s[i].unit = u
    BY DEF InSomeOrder
<1>2. n \in Nat
    BY <1>1, LenProperties
<1>3. PICK r : IsRun(r, v, s)
    BY <1>2, RunExists
<1>4. r[0] = v
    BY <1>2, <1>3 DEF IsRun, IsRunTo
<1>5. ApplyUpdates(v, s) = r[n]
    BY <1>2, <1>3, RunEnds
<1>6. ASSUME NEW k \in 0 .. n - 1
      PROVE  \E u \in S :
                /\ Reached(s, k) \subseteq S /\ u \notin Reached(s, k)
                /\ Reached(s, k + 1) = Reached(s, k) \cup {u}
                /\ r[k + 1] = ApplyUpdate(r[k], g[u])
  <2> DEFINE u == s[k + 1].unit
  <2>1. k + 1 \in 0 .. n /\ k + 1 # 0 /\ (k + 1) - 1 = k
      BY <1>2
  <2>2. r[k + 1] = ApplyUpdate(r[k], s[k + 1])
      BY <1>3, <2>1 DEF IsRun, IsRunTo
  <2>3. k + 1 \in 1 .. n /\ u \in S /\ s[k + 1] = g[u]
      BY <1>1, <2>1
  <2>4. \A i \in 1 .. k : i \in 1 .. n /\ i # k + 1
      BY <1>2
  <2>5. \A i \in 1 .. k : s[i].unit \in S /\ s[i].unit # u
      BY <1>1, <2>3, <2>4
  <2>6. 1 .. k + 1 = (1 .. k) \cup {k + 1}
      OBVIOUS
  <2>7. Reached(s, k + 1) = Reached(s, k) \cup {u}
      BY <2>6 DEF Reached
  <2>8. Reached(s, k) \subseteq S /\ u \notin Reached(s, k)
      BY <2>5 DEF Reached
  <2> QED
      BY <2>2, <2>3, <2>7, <2>8
<1>7. Reached(s, 0) = {}
    BY DEF Reached
<1>8. Reached(s, n) = S
    BY <1>1 DEF Reached
<1>9. Takes(r, v, s, S, g)
    BY <1>4, <1>5, <1>6 DEF Takes
<1> QED
    BY <1>2, <1>7, <1>8, <1>9

\* Units that have died are removed from a view.
LEMMA RemovalsApplied ==
    ASSUME NEW t, NEW f, NEW died, died \subseteq DOMAIN f, f = [u \in DOMAIN f |-> f[u]],
           NEW g, \A u \in died : g[u] = Removed(u),
           NEW s, InSomeOrder(s, died, g)
    PROVE  ApplyUpdates(View(t, f), s) = View(t, Restrict(f, DOMAIN f \ died))
<1> DEFINE n == Len(s)
           v == View(t, f)
           Left(k) == Restrict(f, DOMAIN f \ Reached(s, k))
<1>1. n \in Nat /\ Reached(s, 0) = {} /\ Reached(s, n) = died
    BY OneByOne
<1>a. PICK r : Takes(r, v, s, died, g)
    BY OneByOne
<1>2. /\ r[0] = v /\ ApplyUpdates(v, s) = r[n]
      /\ \A k \in 0 .. n - 1 : \E u \in died :
           /\ Reached(s, k) \subseteq died /\ u \notin Reached(s, k)
           /\ Reached(s, k + 1) = Reached(s, k) \cup {u}
           /\ r[k + 1] = ApplyUpdate(r[k], g[u])
    BY <1>a DEF Takes
<1> HIDE DEF n
<1> DEFINE S == {k \in 0 .. n : r[k] = View(t, Left(k))}
<1>3. 0 \in S
  <2>1. Left(0) = f
      BY <1>1 DEF Restrict
  <2> QED
      BY <1>1, <1>2, <2>1
<1>4. ASSUME NEW k \in 0 .. n - 1, k \in S
      PROVE  k + 1 \in S
  <2>1. PICK u \in died : /\ u \notin Reached(s, k)
                          /\ Reached(s, k + 1) = Reached(s, k) \cup {u}
                          /\ r[k + 1] = ApplyUpdate(r[k], g[u])
      BY <1>2
  <2> DEFINE h == Left(k)
  <2>2. r[k] = View(t, h)
      BY <1>4
  <2>3. DOMAIN h = DOMAIN f \ Reached(s, k) /\ u \in DOMAIN h
      BY <2>1 DEF Restrict
  <2>4. Restrict(h, DOMAIN h \ {u}) = Left(k + 1)
    <3>1. DOMAIN h \ {u} = DOMAIN f \ Reached(s, k + 1)
        BY <2>1, <2>3
    <3>2. \A x \in DOMAIN h : h[x] = f[x]
        BY DEF Restrict
    <3> HIDE DEF h
    <3> QED
        BY <3>1, <3>2 DEF Restrict
  <2> HIDE DEF h
  <2>5. ApplyUpdate(View(t, h), Removed(u)) = View(t, Restrict(h, DOMAIN h \ {u}))
      BY <2>3, ViewRemoved
  <2>6. r[k + 1] = View(t, Left(k + 1))
      BY <2>1, <2>2, <2>4, <2>5
  <2>7. k + 1 \in 0 .. n
      BY <1>1
  <2> QED
      BY <2>6, <2>7
<1> HIDE DEF S
<1>5. \A k \in 0 .. n : k \in S
    BY <1>1, <1>3, <1>4, CountUp
<1>6. n \in S
    BY <1>1, <1>5
<1> QED
    BY <1>1, <1>2, <1>6 DEF S

\* The status of units that were altered is replaced in a view.
WithAllAltered(f, dirty, after) ==
    [u \in DOMAIN f |->
       IF u \in dirty THEN Updated(StatusOf(after[u]), f[u].target, TRUE) ELSE f[u]]

\* What a client has when it has applied all the new statuses of a tick.
LEMMA AlterationsApplied ==
    ASSUME NEW t, NEW f, NEW dirty, dirty \subseteq DOMAIN f, f = [u \in DOMAIN f |-> f[u]],
           NEW after, NEW g, \A u \in dirty : g[u] = Altered(u, after[u]),
           NEW s, InSomeOrder(s, dirty, g)
    PROVE  ApplyUpdates(View(t, f), s) = View(t, WithAllAltered(f, dirty, after))
<1> DEFINE n == Len(s)
           v == View(t, f)
           new(u) == Updated(StatusOf(after[u]), f[u].target, TRUE)
           Now(k) == [u \in DOMAIN f |-> IF u \in Reached(s, k) THEN new(u) ELSE f[u]]
<1>1. n \in Nat /\ Reached(s, 0) = {} /\ Reached(s, n) = dirty
    BY OneByOne
<1>a. PICK r : Takes(r, v, s, dirty, g)
    BY OneByOne
<1>2. /\ r[0] = v /\ ApplyUpdates(v, s) = r[n]
      /\ \A k \in 0 .. n - 1 : \E u \in dirty :
           /\ Reached(s, k) \subseteq dirty /\ u \notin Reached(s, k)
           /\ Reached(s, k + 1) = Reached(s, k) \cup {u}
           /\ r[k + 1] = ApplyUpdate(r[k], g[u])
    BY <1>a DEF Takes
<1> HIDE DEF n
<1> DEFINE S == {k \in 0 .. n : r[k] = View(t, Now(k))}
<1>3. 0 \in S
  <2>1. Now(0) = f
      BY <1>1
  <2> HIDE DEF Now
  <2>2. r[0] = View(t, Now(0))
      BY <1>2, <2>1
  <2>3. 0 \in 0 .. n
      BY <1>1
  <2> QED
      BY <2>2, <2>3
<1>4. ASSUME NEW k \in 0 .. n - 1, k \in S
      PROVE  k + 1 \in S
  <2>1. PICK u \in dirty : /\ u \notin Reached(s, k)
                           /\ Reached(s, k + 1) = Reached(s, k) \cup {u}
                           /\ r[k + 1] = ApplyUpdate(r[k], g[u])
      BY <1>2
  <2> DEFINE h == Now(k)
  <2>2. r[k] = View(t, h)
      BY <1>4
  <2>3. u \in DOMAIN h /\ h[u] = f[u]
      BY <2>1
  <2>4. [h EXCEPT ![u] = new(u)] = Now(k + 1)
    <3> HIDE DEF new
    <3> QED
        BY <2>1
  <2>5. ApplyUpdate(View(t, h), Altered(u, after[u])) = View(t, Now(k + 1))
    <3>1. Now(k + 1) = WithAltered(h, u, after[u])
        BY <2>3, <2>4 DEF WithAltered
    <3> HIDE DEF h, Now
    <3> QED
        BY <2>3, <3>1, ViewAltered
  <2>6. r[k + 1] = View(t, Now(k + 1))
    <3> HIDE DEF h, Now
    <3> QED
        BY <2>1, <2>2, <2>3, <2>4, <2>5
  <2>7. k + 1 \in 0 .. n
      BY <1>1
  <2> QED
      BY <2>6, <2>7
<1> HIDE DEF S
<1>5. \A k \in 0 .. n : k \in S
    BY <1>1, <1>3, <1>4, CountUp
<1>6. n \in S
    BY <1>1, <1>5
<1>7. r[n] = View(t, Now(n))
    BY <1>6 DEF S
<1>8. Now(n) = WithAllAltered(f, dirty, after)
    BY <1>1 DEF WithAllAltered
<1> QED
    BY <1>2, <1>7, <1>8

\* Units that were created are added to a view.
WithAllAdded(f, born, all) ==
    [u \in DOMAIN f \cup born |->
       IF u \in born THEN Updated(StatusOf(all[u]), NoTarget, FALSE) ELSE f[u]]

\* What a client has when it has applied all the additions of a tick.
LEMMA AdditionsApplied ==
    ASSUME NEW t, NEW f, NEW born, born \cap DOMAIN f = {}, f = [u \in DOMAIN f |-> f[u]],
           NEW all, NEW g, \A u \in born : g[u] = Added(u, all[u]),
           NEW s, InSomeOrder(s, born, g)
    PROVE  ApplyUpdates(View(t, f), s) = View(t, WithAllAdded(f, born, all))
<1> DEFINE n == Len(s)
           v == View(t, f)
           new(u) == Updated(StatusOf(all[u]), NoTarget, FALSE)
           Now(k) == [u \in DOMAIN f \cup Reached(s, k) |->
                        IF u \in born THEN new(u) ELSE f[u]]
<1>1. n \in Nat /\ Reached(s, 0) = {} /\ Reached(s, n) = born
    BY OneByOne
<1>a. PICK r : Takes(r, v, s, born, g)
    BY OneByOne
<1>2. /\ r[0] = v /\ ApplyUpdates(v, s) = r[n]
      /\ \A k \in 0 .. n - 1 : \E u \in born :
           /\ Reached(s, k) \subseteq born /\ u \notin Reached(s, k)
           /\ Reached(s, k + 1) = Reached(s, k) \cup {u}
           /\ r[k + 1] = ApplyUpdate(r[k], g[u])
    BY <1>a DEF Takes
<1> HIDE DEF n
<1> DEFINE S == {k \in 0 .. n : r[k] = View(t, Now(k))}
<1>3. 0 \in S
  <2>1. Now(0) = f
      BY <1>1
  <2> HIDE DEF Now
  <2>2. r[0] = View(t, Now(0))
      BY <1>2, <2>1
  <2>3. 0 \in 0 .. n
      BY <1>1
  <2> QED
      BY <2>2, <2>3
<1>4. ASSUME NEW k \in 0 .. n - 1, k \in S
      PROVE  k + 1 \in S
  <2>1. PICK u \in born : /\ Reached(s, k) \subseteq born /\ u \notin Reached(s, k)
                          /\ Reached(s, k + 1) = Reached(s, k) \cup {u}
                          /\ r[k + 1] = ApplyUpdate(r[k], g[u])
      BY <1>2
  <2> DEFINE h == Now(k)
             hh == [x \in DOMAIN h \cup {u} |-> IF x = u THEN new(u) ELSE h[x]]
  <2>2. r[k] = View(t, h)
      BY <1>4
  <2>3. u \notin DOMAIN h /\ DOMAIN h \cup {u} = DOMAIN f \cup Reached(s, k + 1)
      BY <2>1
  <2>4. hh = Now(k + 1)
    <3> HIDE DEF new
    <3>1. \A x \in DOMAIN h : h[x] = IF x \in born THEN new(x) ELSE f[x]
        OBVIOUS
    <3> HIDE DEF h
    <3> QED
        BY <2>1, <2>3, <3>1
  <2>5. ApplyUpdate(View(t, h), Added(u, all[u])) = View(t, hh)
    <3>1. hh = WithAdded(h, u, all[u])
        BY DEF WithAdded
    <3> HIDE DEF h, hh
    <3> QED
        BY <2>3, <3>1, ViewAdded
  <2>6. r[k + 1] = View(t, Now(k + 1))
    <3> HIDE DEF h, hh, Now
    <3> QED
        BY <2>1, <2>2, <2>4, <2>5
  <2>7. k + 1 \in 0 .. n
      BY <1>1
  <2> QED
      BY <2>6, <2>7
<1> HIDE DEF S
<1>5. \A k \in 0 .. n : k \in S
    BY <1>1, <1>3, <1>4, CountUp
<1>6. n \in S
    BY <1>1, <1>5
<1>7. r[n] = View(t, Now(n))
    BY <1>6 DEF S
<1>8. Now(n) = WithAllAdded(f, born, all)
    BY <1>1 DEF WithAllAdded
<1> QED
    BY <1>2, <1>7, <1>8

-----------------------------------------------------------------------------
(* A tick *)

\* What Tick makes of the units, by its own names
AllOf(newborn) ==
    [u \in DOMAIN units \cup DOMAIN newborn |->
       IF u \in DOMAIN units THEN units[u] ELSE newborn[u]]
AfterOf(all, late, fate) ==
    [u \in DOMAIN all |-> IF u \in late THEN all[u] ELSE Driven(all[u], fate[u])]
DiedOf(all, fate) == {u \in DOMAIN all : fate[u] = "dies"}
DirtyOf(all, after, fate) ==
    {u \in DOMAIN all \ DiedOf(all, fate) :
       fate[u] = "hit" \/ after[u].velocity # all[u].velocity}

\* Those that may be created
IsNewborn(newborn) ==
    /\ IsUnits(newborn) /\ DOMAIN newborn \cap DOMAIN units = {}
    /\ \A u \in DOMAIN newborn : newborn[u].target = NoTarget

\* The units with those that were created.
LEMMA AllAreUnits ==
    ASSUME IsUnits(units), NEW newborn, IsNewborn(newborn)
    PROVE  /\ IsUnits(AllOf(newborn))
           /\ DOMAIN AllOf(newborn) = DOMAIN units \cup DOMAIN newborn
           /\ \A u \in DOMAIN units : AllOf(newborn)[u] = units[u]
           /\ \A u \in DOMAIN newborn : AllOf(newborn)[u] = newborn[u]
<1> DEFINE all == AllOf(newborn)
<1>1. /\ DOMAIN all = DOMAIN units \cup DOMAIN newborn
      /\ all = [u \in DOMAIN all |-> all[u]]
      /\ \A u \in DOMAIN units : all[u] = units[u]
    BY DEF AllOf
<1>2. \A u \in DOMAIN newborn : all[u] = newborn[u]
    BY DEF AllOf, IsNewborn
<1> HIDE DEF all
<1>3. \A u \in DOMAIN all : all[u] \in Unit
    BY <1>1, <1>2 DEF IsNewborn, IsUnits
<1>4. DOMAIN all \subseteq Units
    BY <1>1 DEF IsNewborn, IsUnits
<1>5. all \in [DOMAIN all -> Unit]
    BY <1>1, <1>3
<1> QED
    BY <1>1, <1>2, <1>4, <1>5 DEF all, IsUnits

\* The units after the tick, their velocities, targets and positions.
LEMMA AfterAreUnits ==
    ASSUME NEW all, IsUnits(all), NEW late, NEW fate
    PROVE  LET after == AfterOf(all, late, fate)
           IN  /\ IsUnits(after) /\ DOMAIN after = DOMAIN all
               /\ \A u \in DOMAIN all :
                    /\ after[u].target = all[u].target
                    /\ u \in late => after[u] = all[u]
                    /\ u \notin late =>
                         after[u].position = Moved(all[u].position, after[u].velocity)
<1> DEFINE after == AfterOf(all, late, fate)
<1>1. /\ DOMAIN after = DOMAIN all /\ after = [u \in DOMAIN all |-> after[u]]
      /\ \A u \in DOMAIN all :
            after[u] = IF u \in late THEN all[u] ELSE Driven(all[u], fate[u])
    BY DEF AfterOf
<1> HIDE DEF after
<1>2. ASSUME NEW u \in DOMAIN all
      PROVE  /\ after[u] \in Unit /\ after[u].target = all[u].target
             /\ u \in late => after[u] = all[u]
             /\ u \notin late => after[u].position = Moved(all[u].position, after[u].velocity)
  <2>1. all[u] \in Unit
      BY DEF IsUnits
  <2> QED
      BY <1>1, <2>1, DrivenType
<1>3. after \in [DOMAIN after -> Unit]
    BY <1>1, <1>2
<1>4. IsUnits(after)
    BY <1>1, <1>3 DEF IsUnits
<1> QED
    BY <1>1, <1>2, <1>4 DEF after

\* A status that was sent, and a unit that has kept its velocity.
LEMMA SentAsItIs ==
    ASSUME NEW b \in Unit, NEW g \in ViewUnit, g.target = b.target
    PROVE  LET c == Updated(StatusOf(b), g.target, TRUE)
           IN  /\ c \in ViewUnit /\ c.velocity = b.velocity /\ c.target = b.target
               /\ c.position = b.position
<1> DEFINE c == Updated(StatusOf(b), g.target, TRUE)
<1>1. /\ b.position \in Positions /\ b.velocity \in Velocities /\ g.target \in Targets
    BY DEF Unit, ViewUnit
<1>2. c = [position |-> b.position, velocity |-> b.velocity, target |-> g.target,
           altered |-> TRUE]
    BY DEF Updated, StatusOf
<1> HIDE DEF c
<1>3. c.position = b.position /\ c.velocity = b.velocity /\ c.target = g.target
    BY <1>2
<1>4. c \in ViewUnit
    BY <1>1, <1>2 DEF ViewUnit
<1> QED
    BY <1>3, <1>4 DEF c

\* A unit that was one move behind and has moved as before is still one behind.
LEMMA KeptItsWay ==
    ASSUME NEW a \in Unit, NEW b \in Unit, b.velocity = a.velocity,
           b.position = Moved(a.position, b.velocity),
           NEW p, p \in {a.position, Moved(a.position, a.velocity)}
    PROVE  p \in {b.position, Moved(b.position, -b.velocity)}
<1>1. a.position \in Positions /\ a.velocity \in Int
    BY VelocitiesAreNumbers
<1>2. Moved(Moved(a.position, a.velocity), -a.velocity) = a.position
    BY <1>1, MoveAndBack
<1> QED
    BY <1>2

\* A unit a that has become b, as a client that had made g of it sees it.
SettledUnit(c, b) ==
    /\ c \in ViewUnit /\ c.velocity = b.velocity /\ c.target = b.target
    /\ c.position \in {b.position, Moved(b.position, -b.velocity)}
    /\ c.altered => c.position = b.position

\* A unit whose status was sent is where the server has it.
LEMMA DirtySettles ==
    ASSUME NEW b \in Unit, NEW g \in ViewUnit, g.target = b.target
    PROVE  SettledUnit(Updated(StatusOf(b), g.target, TRUE), b)
BY SentAsItIs DEF SettledUnit

\* A unit that was not sent is where the server has it, or one move behind.
LEMMA CleanSettles ==
    ASSUME NEW a \in Unit, NEW b \in Unit, NEW g \in ViewUnit,
           g.velocity = a.velocity, g.target = a.target, ~g.altered, b.target = a.target,
           b.velocity = a.velocity,
           \/ b = a /\ g.position = a.position
           \/ /\ b.position = Moved(a.position, b.velocity)
              /\ g.position \in {a.position, Moved(a.position, a.velocity)}
    PROVE  SettledUnit(g, b)
<1>1. g.position \in {b.position, Moved(b.position, -b.velocity)}
  <2>1. CASE b = a /\ g.position = a.position
      BY <2>1
  <2>2. CASE /\ b.position = Moved(a.position, b.velocity)
             /\ g.position \in {a.position, Moved(a.position, a.velocity)}
      BY <2>2, KeptItsWay
  <2> QED
      BY <2>1, <2>2
<1> QED
    BY <1>1 DEF SettledUnit

\* A tick, with the updates of its three kinds in some order
TickOf(newborn, late, fate, all, after, died, dirty, sA, sB, sC) ==
    /\ IsNewborn(newborn) /\ late \subseteq DOMAIN newborn /\ all = AllOf(newborn)
    /\ after = AfterOf(all, late, fate)
    /\ died = DiedOf(all, fate) /\ dirty = DirtyOf(all, after, fate)
    /\ \E g : /\ \A u \in DOMAIN newborn : g[u] = Added(u, all[u])
              /\ InSomeOrder(sA, DOMAIN newborn, g)
    /\ \E g : /\ \A u \in died : g[u] = Removed(u)
              /\ InSomeOrder(sB, died, g)
    /\ \E g : /\ \A u \in dirty : g[u] = Altered(u, after[u])
              /\ InSomeOrder(sC, dirty, g)

\* The updates of a tick settle a client that was ahead.  What is dirty was
\* sent as it is; what is not has kept its velocity, so that it has made the
\* move that the client made for it, or is one move behind.
LEMMA TickSettles ==
    ASSUME IsUnits(units), NEW w, Ahead(w, units),
           NEW newborn, NEW late, NEW fate, NEW all, NEW after, NEW died, NEW dirty,
           NEW sA, NEW sB, NEW sC,
           TickOf(newborn, late, fate, all, after, died, dirty, sA, sB, sC)
    PROVE  LET x == ApplyUpdates(w, (sA \o sB) \o sC)
           IN  /\ Settled(x, Restrict(after, DOMAIN all \ died))
               /\ x.timeNow = w.timeNow
<1> DEFINE t == w.timeNow
           f == w.units
           born == DOMAIN newborn
           fA == WithAllAdded(f, born, all)
           fB == Restrict(fA, DOMAIN fA \ died)
           fC == WithAllAltered(fB, dirty, after)
           first == sA \o sB
           x == ApplyUpdates(w, first \o sC)
           us == Restrict(after, DOMAIN all \ died)
<1>a. /\ IsNewborn(newborn) /\ late \subseteq born /\ all = AllOf(newborn)
      /\ after = AfterOf(all, late, fate)
      /\ died = DiedOf(all, fate) /\ dirty = DirtyOf(all, after, fate)
    BY DEF TickOf
<1>b. PICK gA : (\A u \in born : gA[u] = Added(u, all[u])) /\ InSomeOrder(sA, born, gA)
    BY DEF TickOf
<1>c. PICK gB : (\A u \in died : gB[u] = Removed(u)) /\ InSomeOrder(sB, died, gB)
    BY DEF TickOf
<1>d. PICK gC : (\A u \in dirty : gC[u] = Altered(u, after[u])) /\ InSomeOrder(sC, dirty, gC)
    BY DEF TickOf
<1>1. /\ IsUnits(all) /\ DOMAIN all = DOMAIN units \cup born
      /\ \A u \in DOMAIN units : all[u] = units[u]
      /\ \A u \in born : all[u] = newborn[u]
    BY <1>a, AllAreUnits
<1>2. /\ IsUnits(after) /\ DOMAIN after = DOMAIN all
      /\ \A u \in DOMAIN all :
           /\ after[u].target = all[u].target
           /\ u \in late => after[u] = all[u]
           /\ u \notin late => after[u].position = Moved(all[u].position, after[u].velocity)
    BY <1>1, <1>a, AfterAreUnits
<1>3. /\ died \subseteq DOMAIN all /\ dirty \subseteq DOMAIN all \ died
      /\ \A u \in DOMAIN all \ died : u \notin dirty => after[u].velocity = all[u].velocity
    BY <1>a DEF DiedOf, DirtyOf
<1>4. w = View(t, f) /\ t \in Nat /\ f \in [DOMAIN f -> ViewUnit] /\ DOMAIN f = DOMAIN units
    BY DEF Ahead, Shows, IsView
<1>5. \A u \in DOMAIN units :
         /\ f[u].velocity = units[u].velocity /\ f[u].target = units[u].target
         /\ f[u].position \in {units[u].position, Moved(units[u].position, units[u].velocity)}
         /\ ~f[u].altered
    BY DEF Ahead, Shows
<1> HIDE DEF t, f
<1>6. sA \in Seq(Update) /\ sB \in Seq(Update) /\ sC \in Seq(Update)
      /\ first \in Seq(Update)
  <2>1. sA \in Seq(Update) /\ sB \in Seq(Update) /\ sC \in Seq(Update)
      BY <1>b, <1>c, <1>d DEF InSomeOrder
  <2> QED
      BY <2>1, ConcatProperties
<1>7. born \cap DOMAIN f = {} /\ f = [u \in DOMAIN f |-> f[u]]
    BY <1>4, <1>a DEF IsNewborn
<1>8. ApplyUpdates(View(t, f), sA) = View(t, fA)
    BY <1>7, <1>b, AdditionsApplied
<1>9. DOMAIN fA = DOMAIN all /\ fA = [u \in DOMAIN fA |-> fA[u]]
    BY <1>1, <1>4 DEF WithAllAdded
<1>10. /\ \A u \in born : fA[u] = Updated(StatusOf(all[u]), NoTarget, FALSE)
       /\ \A u \in DOMAIN units : fA[u] = f[u]
    BY <1>4, <1>7 DEF WithAllAdded
<1> HIDE DEF fA
<1>11. ApplyUpdates(View(t, fA), sB) = View(t, fB)
    BY <1>3, <1>9, <1>c, RemovalsApplied
<1>12. /\ DOMAIN fB = DOMAIN all \ died /\ fB = [u \in DOMAIN fB |-> fB[u]]
       /\ \A u \in DOMAIN fB : fB[u] = fA[u]
    BY <1>9 DEF Restrict
<1> HIDE DEF fB
<1>13. ApplyUpdates(View(t, fB), sC) = View(t, fC)
    BY <1>3, <1>12, <1>d, AlterationsApplied
<1>14. /\ DOMAIN fC = DOMAIN all \ died /\ fC = [u \in DOMAIN fC |-> fC[u]]
       /\ \A u \in DOMAIN fC :
            fC[u] = IF u \in dirty THEN Updated(StatusOf(after[u]), fA[u].target, TRUE)
                    ELSE fA[u]
    BY <1>12 DEF WithAllAltered
<1> HIDE DEF fC
<1>15. x = View(t, fC)
  <2>1. ApplyUpdates(w, first) = ApplyUpdates(ApplyUpdates(w, sA), sB)
      BY <1>6, ApplyMore
  <2> HIDE DEF first
  <2>2. x = ApplyUpdates(ApplyUpdates(w, first), sC)
      BY <1>6, ApplyMore
  <2> HIDE DEF x
  <2> QED
      BY <1>4, <1>8, <1>11, <1>13, <2>1, <2>2
<1>16. DOMAIN us = DOMAIN all \ died /\ \A u \in DOMAIN us : us[u] = after[u]
    BY DEF Restrict
<1> HIDE DEF us, x, first
<1>17. ASSUME NEW u \in DOMAIN us
       PROVE  SettledUnit(fC[u], us[u])
  <2> DEFINE a == all[u]
             b == after[u]
             g == fA[u]
  <2>1. u \in DOMAIN all /\ u \notin died /\ us[u] = b /\ a \in Unit /\ b \in Unit
      BY <1>1, <1>2, <1>16 DEF IsUnits
  <2>2. /\ a.position \in Positions /\ a.velocity \in Int
        /\ b.position \in Positions /\ b.velocity \in Int
      BY <2>1, VelocitiesAreNumbers
  <2>3. /\ g \in ViewUnit /\ g.velocity = a.velocity /\ g.target = a.target /\ ~g.altered
        /\ g.position \in {a.position, Moved(a.position, a.velocity)}
        /\ u \in late => g.position = a.position
    <3>1. CASE u \in born
      <4>1. g = [position |-> a.position, velocity |-> a.velocity, target |-> NoTarget,
                 altered |-> FALSE]
          BY <1>10, <3>1 DEF Updated, StatusOf
      <4>2. a.target = NoTarget
          BY <1>1, <1>a, <3>1 DEF IsNewborn
      <4> HIDE DEF g, a
      <4> QED
          BY <2>1, <4>1, <4>2 DEF ViewUnit, Unit
    <3>2. CASE u \in DOMAIN units
      <4>1. g = f[u] /\ a = units[u] /\ f[u] \in ViewUnit
          BY <1>1, <1>4, <1>10, <3>2
      <4>2. u \notin late
          BY <1>a, <3>2 DEF IsNewborn
      <4> HIDE DEF g, a
      <4> QED
          BY <1>5, <3>2, <4>1, <4>2
    <3> QED
        BY <1>1, <2>1, <3>1, <3>2
  <2>4. /\ b.target = a.target
        /\ u \in late => b = a
        /\ u \notin late => b.position = Moved(a.position, b.velocity)
      BY <1>2, <2>1
  <2>5. CASE u \in dirty
    <3>1. fC[u] = Updated(StatusOf(b), g.target, TRUE)
        BY <1>14, <1>16, <2>5
    <3> HIDE DEF g, b, a
    <3>2. SettledUnit(Updated(StatusOf(b), g.target, TRUE), b)
        BY <2>1, <2>3, <2>4, DirtySettles
    <3> QED
        BY <2>1, <3>1, <3>2, Zenon
  <2>6. CASE u \notin dirty
    <3>1. fC[u] = g /\ b.velocity = a.velocity
        BY <1>3, <1>14, <1>16, <2>1, <2>6
    <3> HIDE DEF g, b, a
    <3>2. \/ b = a /\ g.position = a.position
          \/ /\ b.position = Moved(a.position, b.velocity)
             /\ g.position \in {a.position, Moved(a.position, a.velocity)}
        BY <2>3, <2>4
    <3>3. SettledUnit(g, b)
        BY <2>1, <2>3, <2>4, <3>1, <3>2, CleanSettles
    <3> QED
        BY <2>1, <3>1, <3>3, Zenon
  <2> QED
      BY <2>5, <2>6
<1>18. fC \in [DOMAIN fC -> ViewUnit]
    BY <1>14, <1>16, <1>17 DEF SettledUnit
<1>19. IsView(x) /\ x.timeNow = t /\ x.units = fC
    BY <1>4, <1>15, <1>18, ViewsAre
<1>20. Settled(x, us)
    BY <1>14, <1>16, <1>17, <1>19 DEF Settled, Shows, SettledUnit
<1> QED
    BY <1>19, <1>20 DEF us, x, t, first

-----------------------------------------------------------------------------
(* The inductive invariant *)

\* The units of the worlds that there may be
Worlds == UNION {[D -> Unit] : D \in SUBSET Units}

\* The units that a client with some clock has seen
Before(t) == IF t = 0 THEN NoUnits ELSE log[t]

\* What updates do for every client that is settled to the units of tick t:
\* bring it ahead of some units, or settle it to them
Prepares(t, base, updates, us) ==
    \A v : Settled(v, base) /\ v.timeNow = t =>
       /\ Ahead(ApplyUpdates(EndTick(v), updates), us)
       /\ ApplyUpdates(EndTick(v), updates).timeNow = t + 1
Completes(t, base, updates, us) ==
    \A v : Settled(v, base) /\ v.timeNow = t =>
       /\ Settled(ApplyUpdates(EndTick(v), updates), us)
       /\ ApplyUpdates(EndTick(v), updates).timeNow = t + 1

\* The clock of a client when it has read all it was sent, and when it comes to
\* the i-th message that is on its way
LastTime(c) ==
    IF toClient[c] = <<>> THEN views[c].timeNow ELSE toClient[c][Len(toClient[c])].time
PrevTime(c, i) == IF i = 1 THEN views[c].timeNow ELSE toClient[c][i - 1].time

Message == [time : 0 .. MaxTime, updates : Seq(Update)]

TypeInv ==
    /\ phase \in {"messages", "orders", "flush"}
    /\ toVisit \subseteq clients /\ clients \subseteq Clients /\ gone \subseteq Clients
    /\ orderQueue \in [Clients -> Seq(Order)] /\ toServer \in [Clients -> Seq(Order)]
    /\ outgoing \in [Clients -> Seq(Update)]
    /\ toClient \in [Clients -> Seq(Message)]
    /\ timeNow \in 0 .. MaxTime /\ nextUnitId \in Nat
    /\ IsUnits(units) /\ log \in Seq(Worlds)
    /\ DOMAIN views = Clients

\* Nobody who stays is removed; the history is of the ticks, and the units are
\* as the last has left them until the next is made
WorldInv ==
    /\ DOMAIN units \subseteq 0 .. nextUnitId - 1
    /\ Len(log) = timeNow
    /\ phase = "flush" => timeNow > 0
    /\ phase = "orders" => timeNow < MaxTime
    /\ phase # "orders" /\ timeNow > 0 => units = log[timeNow]
    /\ Clients \ gone \subseteq clients

ViewsInv ==
    \A c \in Clients :
      views[c].timeNow \in 0 .. timeNow /\ Settled(views[c], Before(views[c].timeNow))

\* A message on its way is the next tick of the client it comes to, or empty
\* and of a tick that the client has had: the loop had started again
MessageRight(m, t) ==
    \/ m.time = t /\ m.updates = <<>>
    \/ m.time = t + 1 /\ Completes(t, Before(t), m.updates, Before(m.time))
MessagesInv ==
    \A c \in Clients \ gone : \A i \in 1 .. Len(toClient[c]) :
      /\ PrevTime(c, i) \in 0 .. timeNow /\ toClient[c][i].time \in 0 .. timeNow
      /\ MessageRight(toClient[c][i], PrevTime(c, i))

\* What waits for a client that stays: all that the orders have changed since
\* the tick that was sent; or nothing; or the tick that is to be sent
QueueRight(c) ==
    \/ /\ phase # "flush" /\ LastTime(c) = timeNow
       /\ Prepares(timeNow, Before(timeNow), outgoing[c], units)
    \/ phase = "flush" /\ LastTime(c) = timeNow /\ outgoing[c] = <<>>
    \/ /\ phase = "flush" /\ c \in toVisit /\ LastTime(c) = timeNow - 1
       /\ Completes(timeNow - 1, Before(timeNow - 1), outgoing[c], units)
QueueInv == \A c \in Clients \ gone : QueueRight(c)

LoopInv == TypeInv /\ WorldInv /\ ViewsInv /\ MessagesInv /\ QueueInv

-----------------------------------------------------------------------------
\* Worlds is the set of what IsUnits describes.
LEMMA WorldsAre == \A us : us \in Worlds <=> IsUnits(us)
<1> TAKE us
<1>1. ASSUME us \in Worlds PROVE IsUnits(us)
  <2>1. PICK D \in SUBSET Units : us \in [D -> Unit]
      BY <1>1 DEF Worlds
  <2> QED
      BY <2>1 DEF IsUnits
<1>2. ASSUME IsUnits(us) PROVE us \in Worlds
  <2>1. DOMAIN us \in SUBSET Units /\ us \in [DOMAIN us -> Unit]
      BY <1>2 DEF IsUnits
  <2> HIDE DEF Unit
  <2> QED
      BY <2>1 DEF Worlds
<1> QED
    BY <1>1, <1>2

\* The units of a game that has not begun.
LEMMA NoUnitsAre == IsUnits(NoUnits) /\ DOMAIN NoUnits = {}
BY DEF IsUnits, NoUnits

\* What the clients have seen are units of some world.
LEMMA BeforeAre ==
    ASSUME TypeInv, WorldInv
    PROVE  \A t \in 0 .. timeNow : IsUnits(Before(t))
<1> TAKE t \in 0 .. timeNow
<1>1. CASE t = 0
    BY <1>1, NoUnitsAre DEF Before
<1>2. CASE t # 0
  <2>1. t \in 1 .. Len(log) /\ log \in Seq(Worlds)
      BY <1>2 DEF WorldInv, TypeInv
  <2>2. log[t] \in Worlds
      BY <2>1, ElementOfSeq
  <2> QED
      BY <1>2, <2>2, WorldsAre DEF Before
<1> QED
    BY <1>1, <1>2

\* The last tick is what is before, unless orders have changed it.
LEMMA LastBefore ==
    ASSUME TypeInv, WorldInv, phase # "orders", timeNow > 0
    PROVE  units = Before(timeNow)
BY DEF TypeInv, WorldInv, Before

-----------------------------------------------------------------------------
(* Messages as the client takes them *)

\* Ending one tick in a loop is ending it.
LEMMA EndOneTick == \A v : EndTicks(v, 1) = EndTick(v)
<1> TAKE v
<1> DEFINE r == CHOOSE f : f = [t \in 0 .. 1 |-> IF t = 0 THEN v ELSE EndTick(f[t - 1])]
           q == [t \in 0 .. 1 |-> IF t = 0 THEN v ELSE EndTick(v)]
<1>1. q = [t \in 0 .. 1 |-> IF t = 0 THEN v ELSE EndTick(q[t - 1])]
    OBVIOUS
<1>2. r = [t \in 0 .. 1 |-> IF t = 0 THEN v ELSE EndTick(r[t - 1])]
    BY <1>1
<1>3. EndTicks(v, 1) = r[1]
    BY DEF EndTicks
<1> HIDE DEF r
<1>4. r[0] = v /\ r[1] = EndTick(r[0])
    BY <1>2
<1> QED
    BY <1>3, <1>4

\* Nothing is mistaken about a clock that is not ahead.
LEMMA NotMistaken ==
    ASSUME NEW v, v = View(v.timeNow, v.units), NEW k, k = FALSE
    PROVE  [v EXCEPT !.mistaken = @ \/ k] = v
<1> DEFINE t == v.timeNow
           f == v.units
<1>1. PICK no : no = FALSE
    OBVIOUS
<1>2. v = [timeNow |-> t, units |-> f, mistaken |-> no]
    BY <1>1 DEF View
<1>a. v.mistaken = no
    BY <1>2
<1>3. (v.mistaken \/ k) = no
    BY <1>1, <1>a, Zenon
<1> HIDE DEF t, f
<1>4. [v EXCEPT !.mistaken = no] = v
    BY <1>2
<1>5. [v EXCEPT !.mistaken = @ \/ k] = [v EXCEPT !.mistaken = no]
    BY <1>3, Zenon
<1> QED
    BY <1>4, <1>5, Zenon

\* The next tick, and an empty message of a tick that is there.
LEMMA NextTickPushed ==
    ASSUME NEW v, NEW us, IsUnits(us), Settled(v, us), NEW m, m.time = v.timeNow + 1
    PROVE  PushUpdates(v, m) = ApplyUpdates(EndTick(v), m.updates)
<1> DEFINE w == EndTick(v)
           behind == m.time - v.timeNow
           onTime == IF behind > 0 THEN EndTicks(v, behind) ELSE v
           calm == [onTime EXCEPT !.mistaken = @ \/ behind < 0]
<1>1. IsView(v) /\ v.timeNow \in Nat
    BY DEF Settled, Shows, IsView
<1>2. behind = 1
    BY <1>1
<1>3. onTime = w
    BY <1>2, EndOneTick
<1>4. w = View(w.timeNow, w.units)
    BY EndTickGoesAhead DEF Ahead, Shows, IsView
<1>5. PushUpdates(v, m) = ApplyUpdates(calm, m.updates)
    BY DEF PushUpdates
<1> HIDE DEF w, onTime
<1> HIDE DEF behind
<1> DEFINE k == m.time - v.timeNow < 0
<1>7. k = FALSE
    BY <1>2 DEF behind
<1> HIDE DEF k
<1>8. calm = w
  <2>1. [w EXCEPT !.mistaken = @ \/ k] = w
      BY <1>4, <1>7, NotMistaken
  <2> QED
      BY <1>3, <2>1, Zenon DEF k, behind
<1> QED
    BY <1>5, <1>8 DEF w

\* An empty message of the tick that a client is in does nothing.
LEMMA SameTickPushed ==
    ASSUME NEW v, IsView(v), NEW m, m.time = v.timeNow, m.updates = <<>>
    PROVE  PushUpdates(v, m) = v
<1> DEFINE behind == m.time - v.timeNow
           onTime == IF behind > 0 THEN EndTicks(v, behind) ELSE v
           calm == [onTime EXCEPT !.mistaken = @ \/ behind < 0]
<1>1. v = View(v.timeNow, v.units) /\ v.timeNow \in Nat
    BY DEF IsView
<1>2. behind = 0
    BY <1>1
<1>3. onTime = v
    BY <1>2
<1>5. PushUpdates(v, m) = ApplyUpdates(calm, m.updates)
    BY DEF PushUpdates
<1> HIDE DEF onTime
<1> HIDE DEF behind
<1> DEFINE k == m.time - v.timeNow < 0
<1>7. k = FALSE
    BY <1>2 DEF behind
<1> HIDE DEF k
<1>8. calm = v
  <2>1. [v EXCEPT !.mistaken = @ \/ k] = v
      BY <1>1, <1>7, NotMistaken
  <2> QED
      BY <1>3, <2>1, Zenon DEF k, behind
<1> QED
    BY <1>5, <1>8, ApplyNone

\* A message that is right settles the client to its tick.
LEMMA RightMessageRead ==
    ASSUME TypeInv, WorldInv, NEW v, NEW m,
           v.timeNow \in 0 .. timeNow, Settled(v, Before(v.timeNow)),
           MessageRight(m, v.timeNow)
    PROVE  /\ PushUpdates(v, m).timeNow = m.time
           /\ Settled(PushUpdates(v, m), Before(m.time))
<1>1. CASE m.time = v.timeNow /\ m.updates = <<>>
  <2>1. IsView(v)
      BY DEF Settled, Shows
  <2> QED
      BY <1>1, <2>1, SameTickPushed
<1>2. CASE /\ m.time = v.timeNow + 1
           /\ Completes(v.timeNow, Before(v.timeNow), m.updates, Before(m.time))
  <2>1. IsUnits(Before(v.timeNow))
      BY BeforeAre
  <2>2. PushUpdates(v, m) = ApplyUpdates(EndTick(v), m.updates)
      BY <1>2, <2>1, NextTickPushed
  <2> QED
      BY <1>2, <2>2 DEF Completes
<1> QED
    BY <1>1, <1>2 DEF MessageRight

-----------------------------------------------------------------------------
(* The invariant holds at the start, and every action keeps it *)

\* What the assumptions say of the constants, one by one.
LEMMA NumbersHere ==
    /\ Width \in Nat /\ Width > 0 /\ MaxTime \in Nat /\ 0 \in Units /\ Units \subseteq Nat
    /\ 0 \in Velocities /\ FirstUnit \in Unit
<1>1. /\ Width \in Nat /\ Width > 0 /\ MaxTime \in Nat /\ 0 \in Units /\ Units \subseteq Nat
      /\ 0 \in Velocities
    BY GameLoopAssumption
<1> QED
    BY <1>1 DEF FirstUnit, Unit, Positions, Targets

\* The first update shows the first unit to a client that has seen nothing.
LEMMA FirstPrepared ==
    ASSUME NEW us, us = [u \in {0} |-> FirstUnit]
    PROVE  Prepares(0, NoUnits, <<Added(0, FirstUnit)>>, us)
<1> DEFINE up == Added(0, FirstUnit)
<1>1. up \in Update
  <2>1. StatusOf(FirstUnit) \in Status
      BY NumbersHere DEF FirstUnit, StatusOf, Status, Positions
  <2> QED
      BY <2>1, NumbersHere DEF Added, Update
<1>2. ASSUME NEW v, Settled(v, NoUnits), v.timeNow = 0
      PROVE  /\ Ahead(ApplyUpdates(EndTick(v), <<up>>), us)
             /\ ApplyUpdates(EndTick(v), <<up>>).timeNow = 1
  <2> DEFINE w == EndTick(v)
             h == WithAdded(w.units, 0, FirstUnit)
  <2>1. Ahead(w, NoUnits) /\ w.timeNow = 1
      BY <1>2, NoUnitsAre, EndTickGoesAhead
  <2>2. w = View(1, w.units) /\ DOMAIN w.units = {}
      BY <2>1, NoUnitsAre DEF Ahead, Shows, IsView
  <2> HIDE DEF w
  <2>3. ApplyUpdate(View(1, w.units), up) = View(1, h)
      BY <2>2, ViewAdded
  <2>4. ApplyUpdates(w, <<up>>) = ApplyUpdate(w, up)
      BY <1>1, ApplyOne
  <2> DEFINE x == ApplyUpdates(w, <<up>>)
  <2>5. x = View(1, h)
      BY <2>2, <2>3, <2>4
  <2>6. DOMAIN h = {0} /\ h[0] = Updated(StatusOf(FirstUnit), NoTarget, FALSE)
        /\ h = [u \in {0} |-> h[u]]
      BY <2>2 DEF WithAdded
  <2> HIDE DEF h, x
  <2> DEFINE first == h[0]
  <2>7. first = [position |-> 0, velocity |-> 0, target |-> NoTarget, altered |-> FALSE]
      BY <2>6 DEF Updated, StatusOf, FirstUnit
  <2>8. 0 \in Positions /\ 0 \in Velocities /\ NoTarget \in Targets
      BY NumbersHere DEF Positions, Targets
  <2> HIDE DEF first
  <2>9. first \in ViewUnit
      BY <2>7, <2>8 DEF ViewUnit
  <2>10. h \in [DOMAIN h -> ViewUnit]
      BY <2>6, <2>9 DEF first
  <2>11. IsView(x) /\ x.timeNow = 1 /\ x.units = h
      BY <2>5, <2>10, ViewsAre
  <2>12. us[0] = [position |-> 0, velocity |-> 0, target |-> NoTarget] /\ DOMAIN us = {0}
      BY DEF FirstUnit
  <2>13. /\ first.velocity = us[0].velocity /\ first.target = us[0].target
         /\ first.position = us[0].position /\ ~first.altered
      BY <2>7, <2>12
  <2>14. Ahead(x, us)
      BY <2>6, <2>11, <2>12, <2>13 DEF Ahead, Shows, first
  <2> QED
      BY <2>11, <2>14 DEF x, w
<1> QED
    BY <1>2 DEF Prepares

\* The invariant holds at the start.
LEMMA InitLoopInv == Init => LoopInv
<1> SUFFICES ASSUME Init PROVE LoopInv
    OBVIOUS
<1>1. Prepares(0, NoUnits, <<Added(0, FirstUnit)>>, units)
    BY FirstPrepared DEF Init
<1>2. Settled(StartOfGame, NoUnits)
  <2> DEFINE v == StartOfGame
  <2>1. v = View(0, NoUnits)
      BY DEF StartOfGame, View
  <2>2. NoUnits \in [DOMAIN NoUnits -> ViewUnit]
      BY NoUnitsAre DEF NoUnits
  <2>3. IsView(v) /\ v.units = NoUnits
      BY <2>1, <2>2, ViewsAre
  <2> QED
      BY <2>3, NoUnitsAre DEF Settled, Shows
<1>3. Before(0) = NoUnits
    BY DEF Before
<1>4. TypeInv
  <2>1. IsUnits(units)
      BY NumbersHere DEF Init, IsUnits
  <2>2. Added(0, FirstUnit) \in Update
    <3>1. StatusOf(FirstUnit) \in Status
        BY NumbersHere DEF FirstUnit, StatusOf, Status, Positions
    <3> QED
        BY <3>1, NumbersHere DEF Added, Update
  <2> HIDE DEF Update
  <2>3. <<Added(0, FirstUnit)>> \in Seq(Update)
      BY <2>2
  <2>4. timeNow \in 0 .. MaxTime
      BY NumbersHere DEF Init
  <2>5. \A S : <<>> \in Seq(S)
      OBVIOUS
  <2>6. /\ orderQueue \in [Clients -> Seq(Order)] /\ toServer \in [Clients -> Seq(Order)]
        /\ outgoing \in [Clients -> Seq(Update)]
        /\ toClient \in [Clients -> Seq(Message)] /\ log \in Seq(Worlds)
      BY <2>3, <2>5 DEF Init
  <2> QED
      BY <2>1, <2>4, <2>6 DEF Init, TypeInv
<1>5. WorldInv
    BY DEF Init, WorldInv
<1>6. \A c \in Clients : views[c] = StartOfGame /\ views[c].timeNow = 0
                         /\ toClient[c] = <<>> /\ outgoing[c] = <<Added(0, FirstUnit)>>
    BY DEF Init, StartOfGame
<1>7. timeNow = 0 /\ phase = "messages"
    BY DEF Init
<1>8. ViewsInv
    BY <1>2, <1>3, <1>6, <1>7 DEF ViewsInv
<1>9. MessagesInv
    BY <1>6 DEF MessagesInv
<1>10. QueueInv
    BY <1>1, <1>3, <1>6, <1>7 DEF QueueInv, QueueRight, LastTime
<1> QED
    BY <1>4, <1>5, <1>8, <1>9, <1>10 DEF LoopInv

\* What the clients have, and what is on its way to them, stays right while
\* nothing of it changes and the history only grows.
LEMMA ClientsStay ==
    ASSUME TypeInv, WorldInv, ViewsInv, MessagesInv, UNCHANGED <<toClient, views>>,
           \A t \in 0 .. timeNow : Before(t)' = Before(t),
           timeNow' \in Nat, timeNow <= timeNow', gone \subseteq gone'
    PROVE  /\ ViewsInv' /\ MessagesInv'
           /\ \A c : LastTime(c)' = LastTime(c)
<1>1. timeNow \in Nat
    BY DEF TypeInv
<1>2. ViewsInv'
  <2> SUFFICES ASSUME NEW c \in Clients
               PROVE  /\ views[c].timeNow \in 0 .. timeNow'
                      /\ Settled(views[c], Before(views[c].timeNow)')
      BY DEF ViewsInv
  <2>1. views[c].timeNow \in 0 .. timeNow /\ Settled(views[c], Before(views[c].timeNow))
      BY DEF ViewsInv
  <2>2. Before(views[c].timeNow)' = Before(views[c].timeNow)
      BY <2>1
  <2> QED
      BY <1>1, <2>1, <2>2
<1>3. MessagesInv'
  <2> SUFFICES ASSUME NEW c \in Clients \ gone', NEW i \in 1 .. Len(toClient[c])
               PROVE  /\ PrevTime(c, i)' \in 0 .. timeNow'
                      /\ toClient[c][i].time \in 0 .. timeNow'
                      /\ MessageRight(toClient[c][i], PrevTime(c, i))'
      BY DEF MessagesInv
  <2>1. PICK m, t : m = toClient[c][i] /\ t = PrevTime(c, i)
      OBVIOUS
  <2>2. t \in 0 .. timeNow /\ m.time \in 0 .. timeNow /\ MessageRight(m, t)
      BY <2>1 DEF MessagesInv
  <2>3. PrevTime(c, i)' = t /\ m = toClient'[c][i]
      BY <2>1 DEF PrevTime
  <2>4. Before(t)' = Before(t) /\ Before(m.time)' = Before(m.time)
      BY <2>2
  <2>5. \/ m.time = t /\ m.updates = <<>>
        \/ m.time = t + 1 /\ Completes(t, Before(t)', m.updates, Before(m.time)')
      BY <2>2, <2>4 DEF MessageRight
  <2>6. MessageRight(m, t)'
      BY <2>5 DEF MessageRight
  <2> QED
      BY <1>1, <2>1, <2>2, <2>3, <2>6
<1>4. \A c : LastTime(c)' = LastTime(c)
    BY DEF LastTime
<1> QED
    BY <1>2, <1>3, <1>4

\* The same when the history does not change at all.
LEMMA ClientsStayHere ==
    ASSUME TypeInv, WorldInv, ViewsInv, MessagesInv, UNCHANGED <<toClient, views, timeNow, log>>,
           gone \subseteq gone'
    PROVE  /\ ViewsInv' /\ MessagesInv'
           /\ \A c : LastTime(c)' = LastTime(c)
           /\ \A t : Before(t)' = Before(t)
<1>1. \A t : Before(t)' = Before(t)
    BY DEF Before
<1>2. timeNow' = timeNow /\ timeNow \in Nat /\ timeNow' \in Nat
    BY DEF TypeInv
<1>3. timeNow <= timeNow'
    BY <1>2
<1> QED
    BY <1>1, <1>2, <1>3, ClientsStay

\* The queues of one client.
LEMMA QueuesAre ==
    ASSUME TypeInv, NEW c \in Clients
    PROVE  /\ orderQueue[c] \in Seq(Order) /\ toServer[c] \in Seq(Order)
           /\ outgoing[c] \in Seq(Update) /\ toClient[c] \in Seq(Message)
           /\ DOMAIN orderQueue = Clients /\ DOMAIN toServer = Clients
           /\ DOMAIN outgoing = Clients /\ DOMAIN toClient = Clients
BY DEF TypeInv

\* What waits for a client stays right while nothing of it changes.
LEMMA QueueStays ==
    ASSUME TypeInv, NEW c \in Clients, QueueRight(c), LastTime(c)' = LastTime(c),
           \A t : Before(t)' = Before(t), UNCHANGED <<timeNow, units>>,
           outgoing'[c] = outgoing[c],
           \/ phase # "flush" /\ phase' # "flush"
           \/ phase = "flush" /\ phase' = "flush" /\ (c \in toVisit => c \in toVisit')
    PROVE  QueueRight(c)'
<1>1. PICK n, l : n = timeNow /\ l = LastTime(c)
    OBVIOUS
<1>2. /\ n = timeNow' /\ l = LastTime(c)' /\ Before(n)' = Before(n)
      /\ Before(n - 1)' = Before(n - 1)
    BY <1>1
<1>3. CASE phase # "flush"
  <2>1. l = n /\ Prepares(n, Before(n), outgoing[c], units) /\ phase' # "flush"
      BY <1>1, <1>3 DEF QueueRight
  <2>2. Prepares(n, Before(n)', outgoing'[c], units')
      BY <1>2, <2>1
  <2> QED
      BY <1>2, <2>1, <2>2 DEF QueueRight
<1>4. CASE phase = "flush" /\ l = n /\ outgoing[c] = <<>>
    BY <1>1, <1>2, <1>4 DEF QueueRight
<1>5. CASE /\ phase = "flush" /\ c \in toVisit /\ l = n - 1
           /\ Completes(n - 1, Before(n - 1), outgoing[c], units)
  <2>1. Completes(n - 1, Before(n - 1)', outgoing'[c], units')
      BY <1>2, <1>5
  <2> QED
      BY <1>2, <1>5, <2>1 DEF QueueRight
<1> QED
    BY <1>1, <1>3, <1>4, <1>5 DEF QueueRight

\* Orders that come in are not yet carried out.
LEMMA TakeOrdersStep ==
    ASSUME LoopInv, NEW c \in Clients, TakeOrders(c)
    PROVE  LoopInv'
<1>1. TypeInv /\ WorldInv /\ ViewsInv /\ MessagesInv /\ QueueInv
    BY DEF LoopInv
<1>2. /\ orderQueue' = [orderQueue EXCEPT ![c] = @ \o toServer[c]]
      /\ toServer' = [toServer EXCEPT ![c] = <<>>] /\ toVisit' = toVisit \ {c}
      /\ phase = "messages"
      /\ UNCHANGED <<phase, clients, outgoing, timeNow, units, nextUnitId, events, log,
                     toClient, gone, views>>
    BY DEF TakeOrders, worldVars
<1>3. TypeInv'
  <2>1. orderQueue[c] \o toServer[c] \in Seq(Order) /\ <<>> \in Seq(Order)
      BY <1>1, QueuesAre, ConcatProperties
  <2>2. orderQueue' \in [Clients -> Seq(Order)] /\ toServer' \in [Clients -> Seq(Order)]
      BY <1>1, <1>2, <2>1 DEF TypeInv
  <2> QED
      BY <1>1, <1>2, <2>2 DEF TypeInv
<1>4. WorldInv'
    BY <1>1, <1>2 DEF WorldInv
<1>5. ViewsInv' /\ MessagesInv' /\ (\A d : LastTime(d)' = LastTime(d))
      /\ \A t : Before(t)' = Before(t)
    BY <1>1, <1>2, ClientsStayHere
<1>6. QueueInv'
    BY <1>1, <1>2, <1>5, QueueStays DEF QueueInv
<1> QED
    BY <1>3, <1>4, <1>5, <1>6 DEF LoopInv

\* Removing a client that is gone disturbs nobody else.
LEMMA RemoveStep ==
    ASSUME LoopInv, NEW c \in Clients, c \in gone, c \in toVisit, RemoveClient(c),
           UNCHANGED <<phase, worldVars, toServer, toClient, gone, views>>
    PROVE  LoopInv'
<1>1. TypeInv /\ WorldInv /\ ViewsInv /\ MessagesInv /\ QueueInv
    BY DEF LoopInv
<1>2. /\ clients' = clients \ {c} /\ toVisit' = clients \ {c}
      /\ orderQueue' = [orderQueue EXCEPT ![c] = <<>>]
      /\ outgoing' = [outgoing EXCEPT ![c] = <<>>]
      /\ UNCHANGED <<phase, timeNow, units, nextUnitId, events, log, toServer,
                     toClient, gone, views>>
    BY DEF RemoveClient, worldVars
<1>3. TypeInv'
  <2>1. <<>> \in Seq(Order) /\ <<>> \in Seq(Update)
      OBVIOUS
  <2>2. orderQueue' \in [Clients -> Seq(Order)] /\ outgoing' \in [Clients -> Seq(Update)]
      BY <1>1, <1>2, <2>1 DEF TypeInv
  <2> QED
      BY <1>1, <1>2, <2>2 DEF TypeInv
<1>4. WorldInv'
    BY <1>1, <1>2 DEF WorldInv
<1>5. ViewsInv' /\ MessagesInv' /\ (\A d : LastTime(d)' = LastTime(d))
      /\ \A t : Before(t)' = Before(t)
    BY <1>1, <1>2, ClientsStayHere
<1>6. ASSUME NEW d \in Clients \ gone
      PROVE  QueueRight(d)'
  <2>1. d # c /\ d \in clients /\ QueueRight(d)
      BY <1>1 DEF WorldInv, QueueInv
  <2>2. outgoing'[d] = outgoing[d] /\ d \in toVisit'
      BY <1>1, <1>2, <2>1 DEF TypeInv
  <2> QED
      BY <1>1, <1>2, <1>5, <2>1, <2>2, QueueStays
<1>7. QueueInv'
    BY <1>2, <1>6 DEF QueueInv
<1> QED
    BY <1>3, <1>4, <1>5, <1>7 DEF LoopInv

\* The loop goes on to the orders.
LEMMA MessagesDoneStep ==
    ASSUME LoopInv, MessagesDone
    PROVE  LoopInv'
<1>1. TypeInv /\ WorldInv /\ ViewsInv /\ MessagesInv /\ QueueInv
    BY DEF LoopInv
<1>2. /\ phase = "messages" /\ phase' = "orders" /\ toVisit' = clients /\ timeNow < MaxTime
      /\ UNCHANGED <<clients, orderQueue, outgoing, timeNow, units, nextUnitId, events, log,
                     toServer, toClient, gone, views>>
    BY DEF MessagesDone, worldVars
<1>3. TypeInv' /\ WorldInv'
    BY <1>1, <1>2 DEF TypeInv, WorldInv
<1>4. ViewsInv' /\ MessagesInv' /\ (\A d : LastTime(d)' = LastTime(d))
      /\ \A t : Before(t)' = Before(t)
    BY <1>1, <1>2, ClientsStayHere
<1>5. QueueInv'
    BY <1>1, <1>2, <1>4, QueueStays DEF QueueInv
<1> QED
    BY <1>3, <1>4, <1>5 DEF LoopInv

\* Everyone who stays has been sent the tick, so that nothing is prepared yet.
LEMMA FlushDoneStep ==
    ASSUME LoopInv, FlushDone
    PROVE  LoopInv'
<1>1. TypeInv /\ WorldInv /\ ViewsInv /\ MessagesInv /\ QueueInv
    BY DEF LoopInv
<1>2. /\ phase = "flush" /\ phase' = "messages" /\ toVisit' = clients /\ toVisit = {}
      /\ UNCHANGED <<clients, orderQueue, outgoing, timeNow, units, nextUnitId, events, log,
                     toServer, toClient, gone, views>>
    BY DEF FlushDone, worldVars
<1>3. TypeInv' /\ WorldInv'
    BY <1>1, <1>2 DEF TypeInv, WorldInv
<1>4. ViewsInv' /\ MessagesInv' /\ (\A d : LastTime(d)' = LastTime(d))
      /\ \A t : Before(t)' = Before(t)
    BY <1>1, <1>2, ClientsStayHere
<1>5. timeNow > 0 /\ timeNow \in 0 .. timeNow
    BY <1>1, <1>2 DEF WorldInv, TypeInv
<1>6. units = Before(timeNow) /\ IsUnits(units)
    BY <1>1, <1>2, <1>5, LastBefore DEF TypeInv
<1>7. PICK n, us : n = timeNow /\ us = units
    OBVIOUS
<1>8. us = Before(n) /\ us = Before(n)' /\ n = timeNow' /\ us = units' /\ IsUnits(us)
    BY <1>2, <1>4, <1>6, <1>7
<1>9. Prepares(n, us, <<>>, us)
    BY <1>8, EndTickGoesAhead, ApplyNone DEF Prepares
<1>10. ASSUME NEW c \in Clients \ gone
       PROVE  QueueRight(c)'
  <2>1. LastTime(c) = timeNow /\ outgoing[c] = <<>>
      BY <1>1, <1>2 DEF QueueInv, QueueRight
  <2>2. LastTime(c)' = timeNow' /\ outgoing'[c] = <<>> /\ phase' # "flush"
      BY <1>2, <1>4, <2>1
  <2>3. Prepares(timeNow, Before(timeNow), outgoing[c], units)'
      BY <1>8, <1>9, <2>2
  <2> QED
      BY <2>2, <2>3 DEF QueueRight
<1>11. QueueInv'
    BY <1>2, <1>10 DEF QueueInv
<1> QED
    BY <1>3, <1>4, <1>11 DEF LoopInv

\* An order is for a unit that there has been.
LEMMA GiveOrderStep ==
    ASSUME LoopInv, NEW c \in Clients, GiveOrder(c)
    PROVE  LoopInv'
<1>1. TypeInv /\ WorldInv /\ ViewsInv /\ MessagesInv /\ QueueInv
    BY DEF LoopInv
<1>2. PICK u \in DOMAIN views[c].units, v \in Velocities :
         toServer' = [toServer EXCEPT ![c] = Append(@, [unit |-> u, velocity |-> v])]
    BY DEF GiveOrder
<1>3. UNCHANGED <<phase, toVisit, clients, orderQueue, outgoing, timeNow, units, nextUnitId,
                  log, toClient, gone, views>>
    BY DEF GiveOrder, serverVars
<1>4. TypeInv'
  <2>1. u \in Units
      BY <1>1, BeforeAre DEF ViewsInv, Settled, Shows, IsUnits
  <2>2. [unit |-> u, velocity |-> v] \in Order
      BY <2>1 DEF Order
  <2>3. Append(toServer[c], [unit |-> u, velocity |-> v]) \in Seq(Order)
      BY <1>1, <2>2, QueuesAre, AppendProperties
  <2>4. toServer' \in [Clients -> Seq(Order)]
      BY <1>1, <1>2, <2>3 DEF TypeInv
  <2> QED
      BY <1>1, <1>3, <2>4 DEF TypeInv
<1>5. WorldInv'
    BY <1>1, <1>3 DEF WorldInv
<1>6. ViewsInv' /\ MessagesInv' /\ (\A d : LastTime(d)' = LastTime(d))
      /\ \A t : Before(t)' = Before(t)
    BY <1>1, <1>3, ClientsStayHere
<1>7. QueueInv'
    BY <1>1, <1>3, <1>6, QueueStays DEF QueueInv
<1> QED
    BY <1>4, <1>5, <1>6, <1>7 DEF LoopInv

\* The updates of the orders go to everyone who stays.
LEMMA ApplyOrdersStep ==
    ASSUME LoopInv, NEW c \in Clients, ApplyOrders(c)
    PROVE  LoopInv'
<1>1. TypeInv /\ WorldInv /\ ViewsInv /\ MessagesInv /\ QueueInv
    BY DEF LoopInv
<1>2. PICK world : world = Carried(orderQueue[c])
    OBVIOUS
<1>3. /\ phase = "orders" /\ toVisit' = toVisit \ {c}
      /\ units' = world.units
      /\ outgoing' = [d \in Clients |->
                        IF d \in clients THEN outgoing[d] \o world.updates ELSE outgoing[d]]
      /\ orderQueue' = [orderQueue EXCEPT ![c] = <<>>]
      /\ UNCHANGED <<phase, clients, timeNow, nextUnitId, events, log, toServer,
                     toClient, gone, views>>
    BY <1>2 DEF ApplyOrders, Inform
<1>4. WellCarried(world, orderQueue[c], Len(orderQueue[c])) /\ IsUnits(units)
    BY <1>1, <1>2, QueuesAre, QueueCarried DEF TypeInv
<1>5. /\ IsUnits(units') /\ DOMAIN units' = DOMAIN units
      /\ world.updates \in Seq(Update)
      /\ \A w : Ahead(w, units) =>
           /\ Ahead(ApplyUpdates(w, world.updates), units')
           /\ ApplyUpdates(w, world.updates).timeNow = w.timeNow
    BY <1>3, <1>4 DEF WellCarried
<1>6. TypeInv'
  <2>1. \A d \in Clients : outgoing[d] \in Seq(Update) /\ outgoing[d] \o world.updates \in Seq(Update)
      BY <1>1, <1>5, QueuesAre, ConcatProperties
  <2>2. outgoing' \in [Clients -> Seq(Update)]
      BY <1>3, <2>1
  <2>3. orderQueue' \in [Clients -> Seq(Order)]
    <3>1. <<>> \in Seq(Order)
        OBVIOUS
    <3> QED
        BY <1>1, <1>3, <3>1 DEF TypeInv
  <2> QED
      BY <1>1, <1>3, <1>5, <2>2, <2>3 DEF TypeInv
<1>7. WorldInv'
    BY <1>1, <1>3, <1>5 DEF WorldInv
<1>8. ViewsInv' /\ MessagesInv' /\ (\A d : LastTime(d)' = LastTime(d))
      /\ \A t : Before(t)' = Before(t)
    BY <1>1, <1>3, ClientsStayHere
<1>9. ASSUME NEW d \in Clients \ gone
      PROVE  QueueRight(d)'
  <2>1. d \in clients /\ LastTime(d) = timeNow
        /\ Prepares(timeNow, Before(timeNow), outgoing[d], units)
      BY <1>1, <1>3 DEF WorldInv, QueueInv, QueueRight
  <2>2. PICK n, base, old, more, us :
            /\ n = timeNow /\ base = Before(timeNow) /\ old = outgoing[d]
            /\ more = world.updates /\ us = units
      OBVIOUS
  <2>3. outgoing'[d] = old \o more /\ old \in Seq(Update) /\ more \in Seq(Update)
      BY <1>1, <1>3, <1>5, <2>1, <2>2, QueuesAre
  <2>4. ASSUME NEW v, Settled(v, base), v.timeNow = n
        PROVE  /\ Ahead(ApplyUpdates(EndTick(v), old \o more), units')
               /\ ApplyUpdates(EndTick(v), old \o more).timeNow = n + 1
    <3> DEFINE w == ApplyUpdates(EndTick(v), old)
    <3>1. Ahead(w, us) /\ w.timeNow = n + 1
        BY <2>1, <2>2, <2>4 DEF Prepares
    <3>2. ApplyUpdates(EndTick(v), old \o more) = ApplyUpdates(w, more)
        BY <2>3, ApplyMore
    <3> HIDE DEF w
    <3> QED
        BY <1>5, <2>2, <3>1, <3>2
  <2>5. Prepares(n, base, outgoing'[d], units')
      BY <2>3, <2>4 DEF Prepares
  <2>6. n = timeNow' /\ base = Before(n)'
      BY <1>3, <1>8, <2>2
  <2> QED
      BY <1>3, <1>8, <2>1, <2>5, <2>6 DEF QueueRight
<1>10. QueueInv'
    BY <1>3, <1>9 DEF QueueInv
<1> QED
    BY <1>6, <1>7, <1>8, <1>10 DEF LoopInv

\* The message that is sent is the tick that the client comes to next, or
\* nothing new.
LEMMA FlushOutgoingStep ==
    ASSUME LoopInv, NEW c \in Clients, FlushOutgoing(c)
    PROVE  LoopInv'
<1>1. TypeInv /\ WorldInv /\ ViewsInv /\ MessagesInv /\ QueueInv
    BY DEF LoopInv
<1>2. PICK m, old : m = [time |-> timeNow, updates |-> outgoing[c]] /\ old = toClient[c]
    OBVIOUS
<1>3. /\ phase = "flush" /\ c \in toVisit /\ toVisit' = toVisit \ {c}
      /\ toClient' = [toClient EXCEPT ![c] = IF c \in gone THEN @ ELSE Append(@, m)]
      /\ outgoing' = [outgoing EXCEPT ![c] = <<>>]
      /\ UNCHANGED <<phase, clients, orderQueue, timeNow, units, nextUnitId, events, log,
                     toServer, gone, views>>
    BY <1>2 DEF FlushOutgoing, worldVars
<1>4. /\ m.time = timeNow /\ m.updates = outgoing[c] /\ m \in Message
      /\ old \in Seq(Message) /\ Append(old, m) \in Seq(Message)
      /\ Len(Append(old, m)) = Len(old) + 1 /\ Len(old) \in Nat
      /\ \A i \in 1 .. Len(old) : Append(old, m)[i] = old[i]
      /\ Append(old, m)[Len(old) + 1] = m /\ Append(old, m) # <<>>
  <2>1. m.time = timeNow /\ m.updates = outgoing[c] /\ m \in Message
      BY <1>1, <1>2, QueuesAre DEF Message, TypeInv
  <2>2. old \in Seq(Message)
      BY <1>1, <1>2, QueuesAre
  <2> HIDE DEF Message
  <2> QED
      BY <2>1, <2>2, AppendProperties, LenProperties
<1>5. TypeInv'
  <2>1. toClient' \in [Clients -> Seq(Message)]
      BY <1>1, <1>2, <1>3, <1>4 DEF TypeInv
  <2>2. outgoing' \in [Clients -> Seq(Update)]
    <3>1. <<>> \in Seq(Update)
        OBVIOUS
    <3> QED
        BY <1>1, <1>3, <3>1 DEF TypeInv
  <2> QED
      BY <1>1, <1>3, <2>1, <2>2 DEF TypeInv
<1>6. WorldInv'
    BY <1>1, <1>3 DEF WorldInv
<1>7. \A t : Before(t)' = Before(t)
    BY <1>3 DEF Before
<1>8. ViewsInv'
  <2> SUFFICES ASSUME NEW d \in Clients
               PROVE  /\ views[d].timeNow \in 0 .. timeNow
                      /\ Settled(views[d], Before(views[d].timeNow)')
      BY <1>3 DEF ViewsInv
  <2>1. PICK t : t = views[d].timeNow
      OBVIOUS
  <2> QED
      BY <1>1, <1>3, <1>7, <2>1 DEF ViewsInv
<1>9. ASSUME NEW d \in Clients, d # c \/ c \in gone
      PROVE  toClient'[d] = toClient[d]
    BY <1>1, <1>3, <1>9 DEF TypeInv
<1>10. ASSUME c \notin gone
       PROVE  /\ toClient'[c] = Append(old, m) /\ outgoing'[c] = <<>>
              /\ LastTime(c)' = timeNow
              /\ LastTime(c) \in 0 .. timeNow
              /\ MessageRight(m, LastTime(c))
  <2>1. toClient'[c] = Append(old, m) /\ outgoing'[c] = <<>>
      BY <1>1, <1>2, <1>3, <1>10, QueuesAre
  <2>2. LastTime(c)' = m.time
      BY <1>4, <2>1 DEF LastTime
  <2>3. timeNow \in Nat /\ timeNow > 0 /\ units = Before(timeNow)
      BY <1>1, <1>3, LastBefore DEF TypeInv, WorldInv
  <2>4. QueueRight(c)
      BY <1>1, <1>10 DEF QueueInv
  <2>5. CASE LastTime(c) = timeNow /\ outgoing[c] = <<>>
      BY <1>4, <2>1, <2>2, <2>3, <2>5 DEF MessageRight
  <2>6. CASE /\ LastTime(c) = timeNow - 1
             /\ Completes(timeNow - 1, Before(timeNow - 1), outgoing[c], units)
    <3>1. m.time = (timeNow - 1) + 1
        BY <1>4, <2>3
    <3>2. MessageRight(m, timeNow - 1)
        BY <1>4, <2>3, <2>6, <3>1 DEF MessageRight
    <3> QED
        BY <1>4, <2>1, <2>2, <2>3, <2>6, <3>2
  <2> QED
      BY <1>3, <2>4, <2>5, <2>6 DEF QueueRight
<1>11. MessagesInv'
  <2> SUFFICES ASSUME NEW d \in Clients \ gone, NEW i \in 1 .. Len(toClient'[d])
               PROVE  /\ PrevTime(d, i)' \in 0 .. timeNow
                      /\ toClient'[d][i].time \in 0 .. timeNow
                      /\ MessageRight(toClient[d][i], PrevTime(d, i))'
      BY <1>3 DEF MessagesInv
  <2>1. PICK x, t : x = toClient'[d][i] /\ t = PrevTime(d, i)'
      OBVIOUS
  <2>2. MessageRight(x, t)' <=> MessageRight(x, t)
      BY <1>7 DEF MessageRight
  <2>3. t \in 0 .. timeNow /\ x.time \in 0 .. timeNow /\ MessageRight(x, t)
    <3>1. CASE d # c
      <4>1. toClient'[d] = toClient[d]
          BY <1>9, <3>1
      <4>2. t = PrevTime(d, i) /\ x = toClient[d][i] /\ i \in 1 .. Len(toClient[d])
        <5>1. x = toClient[d][i] /\ i \in 1 .. Len(toClient[d])
            BY <2>1, <4>1
        <5>2. views'[d] = views[d]
            BY <1>3
        <5> QED
            BY <2>1, <4>1, <5>1, <5>2 DEF PrevTime
      <4> QED
          BY <1>1, <4>2 DEF MessagesInv
    <3>2. CASE d = c /\ i \in 1 .. Len(old)
      <4>1. x = old[i] /\ (i # 1 => toClient'[c][i - 1] = old[i - 1])
        <5>1. toClient'[c] = Append(old, m)
            BY <1>10, <3>2
        <5>2. i # 1 => i - 1 \in 1 .. Len(old)
            BY <1>4, <3>2
        <5> QED
            BY <1>4, <2>1, <3>2, <5>1, <5>2
      <4>2. t = PrevTime(c, i)
          BY <1>2, <1>3, <2>1, <3>2, <4>1 DEF PrevTime
      <4> QED
          BY <1>1, <1>2, <3>2, <4>1, <4>2 DEF MessagesInv
    <3>3. CASE d = c /\ i = Len(old) + 1
      <4>1. x = m /\ (i # 1 => toClient'[c][i - 1] = old[Len(old)])
          BY <1>4, <1>10, <2>1, <3>3
      <4>2. old = <<>> <=> i = 1
          BY <1>4, <3>3, EmptySeq
      <4>3. t = LastTime(c)
          BY <1>2, <1>3, <2>1, <3>3, <4>1, <4>2 DEF PrevTime, LastTime
      <4>4. timeNow \in Nat
          BY <1>1 DEF TypeInv
      <4> QED
          BY <1>4, <1>10, <3>3, <4>1, <4>3, <4>4
    <3> QED
        BY <1>4, <1>10, <3>1, <3>2, <3>3
  <2> QED
      BY <2>1, <2>2, <2>3
<1>12. ASSUME NEW d \in Clients \ gone
       PROVE  QueueRight(d)'
  <2>1. CASE d = c
      BY <1>3, <1>10, <2>1 DEF QueueRight
  <2>2. CASE d # c
    <3>1. LastTime(d)' = LastTime(d)
        BY <1>3, <1>9, <2>2 DEF LastTime
    <3>2. outgoing'[d] = outgoing[d]
        BY <1>1, <1>3, <2>2, QueuesAre
    <3> QED
        BY <1>1, <1>3, <1>7, <2>2, <3>1, <3>2, QueueStays DEF QueueInv
  <2> QED
      BY <2>1, <2>2
<1>13. QueueInv'
    BY <1>3, <1>12 DEF QueueInv
<1> QED
    BY <1>5, <1>6, <1>8, <1>11, <1>13 DEF LoopInv

\* A client that reads the message at the front is where the next one expects.
LEMMA ReadUpdatesStep ==
    ASSUME LoopInv, NEW c \in Clients, ReadUpdates(c)
    PROVE  LoopInv'
<1>1. TypeInv /\ WorldInv /\ ViewsInv /\ MessagesInv /\ QueueInv
    BY DEF LoopInv
<1>2. PICK m, old, v : m = Head(toClient[c]) /\ old = toClient[c] /\ v = views[c]
    OBVIOUS
<1>3. /\ c \notin gone /\ old # <<>>
      /\ views' = [views EXCEPT ![c] = PushUpdates(v, m)]
      /\ toClient' = [toClient EXCEPT ![c] = Tail(old)]
      /\ UNCHANGED <<phase, toVisit, clients, orderQueue, outgoing, timeNow, units, nextUnitId,
                     events, log, toServer, gone>>
    BY <1>2 DEF ReadUpdates, serverVars, worldVars
<1>4. /\ old \in Seq(Message) /\ Tail(old) \in Seq(Message) /\ Len(old) \in Nat
      /\ Len(Tail(old)) = Len(old) - 1 /\ Len(old) # 0
      /\ \A i \in 1 .. Len(Tail(old)) : Tail(old)[i] = old[i + 1]
      /\ m = old[1]
  <2>1. old \in Seq(Message)
      BY <1>1, <1>2, QueuesAre
  <2>2. m = old[1]
      BY <1>2, <1>3, <2>1
  <2>3. Len(old) # 0
      BY <1>3, <2>1, EmptySeq
  <2> QED
      BY <1>3, <2>1, <2>2, <2>3, HeadTailProperties, LenProperties
<1>5. \A t : Before(t)' = Before(t)
    BY <1>3 DEF Before
<1>6. v.timeNow \in 0 .. timeNow /\ Settled(v, Before(v.timeNow))
    BY <1>1, <1>2 DEF ViewsInv
<1>7. MessageRight(m, v.timeNow) /\ m.time \in 0 .. timeNow
  <2>1. 1 \in 1 .. Len(toClient[c]) /\ PrevTime(c, 1) = v.timeNow /\ toClient[c][1] = m
      BY <1>2, <1>4 DEF PrevTime
  <2> QED
      BY <1>1, <1>3, <2>1 DEF MessagesInv
<1>8. PushUpdates(v, m).timeNow = m.time /\ Settled(PushUpdates(v, m), Before(m.time))
    BY <1>1, <1>6, <1>7, RightMessageRead
<1>9. /\ views'[c] = PushUpdates(v, m) /\ toClient'[c] = Tail(old)
      /\ \A d \in Clients : d # c => views'[d] = views[d] /\ toClient'[d] = toClient[d]
    BY <1>1, <1>3 DEF TypeInv
<1>10. TypeInv'
  <2>1. toClient' \in [Clients -> Seq(Message)] /\ DOMAIN views' = Clients
      BY <1>1, <1>3, <1>4 DEF TypeInv
  <2> QED
      BY <1>1, <1>3, <2>1 DEF TypeInv
<1>11. WorldInv'
    BY <1>1, <1>3 DEF WorldInv
<1>12. ViewsInv'
  <2> SUFFICES ASSUME NEW d \in Clients
               PROVE  /\ views'[d].timeNow \in 0 .. timeNow
                      /\ Settled(views[d], Before(views[d].timeNow))'
      BY <1>3 DEF ViewsInv
  <2>1. PICK x, t : x = views'[d] /\ t = views'[d].timeNow
      OBVIOUS
  <2>2. t \in 0 .. timeNow /\ Settled(x, Before(t))
    <3>1. CASE d = c
        BY <1>7, <1>8, <1>9, <2>1, <3>1
    <3>2. CASE d # c
        BY <1>1, <1>9, <2>1, <3>2 DEF ViewsInv
    <3> QED
        BY <3>1, <3>2
  <2> QED
      BY <1>5, <2>1, <2>2
<1>13. MessagesInv'
  <2> SUFFICES ASSUME NEW d \in Clients \ gone, NEW i \in 1 .. Len(toClient'[d])
               PROVE  /\ PrevTime(d, i)' \in 0 .. timeNow
                      /\ toClient'[d][i].time \in 0 .. timeNow
                      /\ MessageRight(toClient[d][i], PrevTime(d, i))'
      BY <1>3 DEF MessagesInv
  <2>1. PICK x, t : x = toClient'[d][i] /\ t = PrevTime(d, i)'
      OBVIOUS
  <2>2. MessageRight(x, t)' <=> MessageRight(x, t)
      BY <1>5 DEF MessageRight
  <2>3. t \in 0 .. timeNow /\ x.time \in 0 .. timeNow /\ MessageRight(x, t)
    <3>1. CASE d # c
      <4>1. toClient'[d] = toClient[d] /\ views'[d] = views[d]
          BY <1>9, <3>1
      <4>2. x = toClient[d][i] /\ i \in 1 .. Len(toClient[d])
          BY <2>1, <4>1
      <4>3. t = PrevTime(d, i)
          BY <2>1, <4>1, <4>2 DEF PrevTime
      <4> QED
          BY <1>1, <4>2, <4>3 DEF MessagesInv
    <3>2. CASE d = c
      <4>1. i + 1 \in 1 .. Len(old) /\ i + 1 # 1 /\ (i + 1) - 1 = i
          BY <1>4, <1>9, <3>2
      <4>2. x = old[i + 1]
          BY <1>4, <1>9, <2>1, <3>2
      <4>3. t = PrevTime(c, i + 1)
        <5>1. PrevTime(c, i + 1) = old[i].time
            BY <1>2, <4>1 DEF PrevTime
        <5>2. CASE i = 1
            BY <1>4, <1>8, <1>9, <2>1, <3>2, <5>1, <5>2 DEF PrevTime
        <5>3. CASE i # 1
          <6>1. i - 1 \in 1 .. Len(Tail(old)) /\ (i - 1) + 1 = i
              BY <1>4, <4>1, <5>3
          <6>2. toClient'[c][i - 1] = old[i]
              BY <1>4, <1>9, <6>1
          <6> QED
              BY <2>1, <3>2, <5>1, <5>3, <6>2 DEF PrevTime
        <5> QED
            BY <5>2, <5>3
      <4> QED
          BY <1>1, <1>2, <3>2, <4>1, <4>2, <4>3 DEF MessagesInv
    <3> QED
        BY <3>1, <3>2
  <2> QED
      BY <2>1, <2>2, <2>3
<1>14. ASSUME NEW d \in Clients
       PROVE  LastTime(d)' = LastTime(d)
  <2>1. CASE d # c
    <3>1. toClient'[d] = toClient[d] /\ views'[d] = views[d]
        BY <1>9, <2>1
    <3> QED
        BY <3>1 DEF LastTime
  <2>2. CASE d = c /\ Len(old) = 1
    <3>1. Tail(old) = <<>>
      <4>1. Tail(old) \in Seq(Message) /\ Len(Tail(old)) = 0
          BY <1>4, <2>2
      <4> QED
          BY <4>1, EmptySeq
    <3>2. LastTime(c) = old[1].time
        BY <1>2, <1>3, <2>2 DEF LastTime
    <3> QED
        BY <1>4, <1>8, <1>9, <2>2, <3>1, <3>2 DEF LastTime
  <2>3. CASE d = c /\ Len(old) # 1
    <3>1. Tail(old) # <<>> /\ Len(Tail(old)) \in 1 .. Len(Tail(old))
          /\ Len(Tail(old)) + 1 = Len(old)
      <4>1. Len(old) \in Nat /\ Len(old) # 0 /\ Len(Tail(old)) = Len(old) - 1
          BY <1>3, <1>4, EmptySeq
      <4>2. Len(<<>>) = 0
          OBVIOUS
      <4>3. Len(Tail(old)) > 0 /\ Len(Tail(old)) # 0
          BY <2>3, <4>1
      <4>5. Tail(old) # <<>>
          BY <4>2, <4>3, Zenon
      <4> QED
          BY <4>1, <4>3, <4>5
    <3>2. Tail(old)[Len(Tail(old))] = old[Len(old)]
        BY <1>4, <3>1
    <3>3. LastTime(c) = old[Len(old)].time
        BY <1>2, <1>3 DEF LastTime
    <3> QED
        BY <1>9, <2>3, <3>1, <3>2, <3>3 DEF LastTime
  <2> QED
      BY <2>1, <2>2, <2>3
<1>15. QueueInv'
    BY <1>1, <1>3, <1>5, <1>14, QueueStays DEF QueueInv
<1> QED
    BY <1>10, <1>11, <1>12, <1>13, <1>15 DEF LoopInv

\* A client that goes away is no longer promised anything.
LEMMA GoAwayStep ==
    ASSUME LoopInv, NEW c \in Clients, GoAway(c)
    PROVE  LoopInv'
<1>1. TypeInv /\ WorldInv /\ ViewsInv /\ MessagesInv /\ QueueInv
    BY DEF LoopInv
<1>2. /\ gone' = gone \cup {c} /\ toClient' = [toClient EXCEPT ![c] = <<>>]
      /\ UNCHANGED <<phase, toVisit, clients, orderQueue, outgoing, timeNow, units, nextUnitId,
                     events, log, toServer, views>>
    BY DEF GoAway, serverVars, worldVars
<1>3. \A t : Before(t)' = Before(t)
    BY <1>2 DEF Before
<1>4. \A d \in Clients : d # c => toClient'[d] = toClient[d]
    BY <1>1, <1>2, QueuesAre
<1>5. TypeInv'
  <2>1. <<>> \in Seq(Message)
      OBVIOUS
  <2>2. toClient' \in [Clients -> Seq(Message)]
      BY <1>1, <1>2, <2>1 DEF TypeInv
  <2> QED
      BY <1>1, <1>2, <2>2 DEF TypeInv
<1>6. WorldInv'
    BY <1>1, <1>2 DEF WorldInv
<1>7. ViewsInv'
  <2> SUFFICES ASSUME NEW d \in Clients
               PROVE  /\ views[d].timeNow \in 0 .. timeNow
                      /\ Settled(views[d], Before(views[d].timeNow)')
      BY <1>2 DEF ViewsInv
  <2>1. PICK t : t = views[d].timeNow
      OBVIOUS
  <2> QED
      BY <1>1, <1>2, <1>3, <2>1 DEF ViewsInv
<1>8. ASSUME NEW d \in Clients \ gone'
      PROVE  LastTime(d)' = LastTime(d) /\ d \in Clients \ gone /\ toClient'[d] = toClient[d]
    BY <1>2, <1>4 DEF LastTime
<1>9. MessagesInv'
  <2> SUFFICES ASSUME NEW d \in Clients \ gone', NEW i \in 1 .. Len(toClient'[d])
               PROVE  /\ PrevTime(d, i)' \in 0 .. timeNow
                      /\ toClient'[d][i].time \in 0 .. timeNow
                      /\ MessageRight(toClient[d][i], PrevTime(d, i))'
      BY <1>2 DEF MessagesInv
  <2>1. PICK x, t : x = toClient'[d][i] /\ t = PrevTime(d, i)'
      OBVIOUS
  <2>2. MessageRight(x, t)' <=> MessageRight(x, t)
      BY <1>3 DEF MessageRight
  <2>3. x = toClient[d][i] /\ i \in 1 .. Len(toClient[d]) /\ d \in Clients \ gone
      BY <1>8, <2>1
  <2>4. t = PrevTime(d, i)
    <3>1. toClient'[d] = toClient[d] /\ views'[d] = views[d]
        BY <1>2, <1>8
    <3> QED
        BY <2>1, <3>1 DEF PrevTime
  <2>5. t \in 0 .. timeNow /\ x.time \in 0 .. timeNow /\ MessageRight(x, t)
      BY <1>1, <2>3, <2>4 DEF MessagesInv
  <2> QED
      BY <2>1, <2>2, <2>5
<1>10. QueueInv'
    BY <1>1, <1>2, <1>3, <1>8, QueueStays DEF QueueInv
<1> QED
    BY <1>5, <1>6, <1>7, <1>9, <1>10 DEF LoopInv

\* Those that are created have ids that nobody had.
LEMMA NewbornsAreNew ==
    ASSUME TypeInv, WorldInv, NEW newborn \in Newborns
    PROVE  /\ IsNewborn(newborn) /\ IsFiniteSet(DOMAIN newborn)
           /\ Cardinality(DOMAIN newborn) \in Nat
           /\ \A u \in DOMAIN newborn :
                u \in 0 .. nextUnitId + Cardinality(DOMAIN newborn) - 1
<1> DEFINE D == {nextUnitId} \cap Units
           kinds == [position : {0}, velocity : Velocities, target : {NoTarget}]
<1>1. nextUnitId \in Nat /\ DOMAIN units \subseteq 0 .. nextUnitId - 1
    BY DEF TypeInv, WorldInv
<1>2. CASE newborn = NoUnits
  <2>1. DOMAIN newborn = {}
      BY <1>2, NoUnitsAre
  <2>2. IsFiniteSet(DOMAIN newborn) /\ Cardinality(DOMAIN newborn) = 0
      BY <2>1, FS_EmptySet
  <2> QED
      BY <1>2, <2>1, <2>2, NoUnitsAre DEF IsNewborn
<1>3. CASE newborn \in [D -> kinds]
  <2>1. DOMAIN newborn = D /\ \A u \in D : newborn[u] \in kinds
      BY <1>3
  <2>2. \A u \in D : newborn[u] \in Unit /\ newborn[u].target = NoTarget
    <3>1. 0 \in Positions /\ NoTarget \in Targets
        BY NumbersHere DEF Positions, Targets
    <3>2. \A b \in kinds : b \in Unit /\ b.target = NoTarget
        BY <3>1 DEF Unit
    <3> QED
        BY <2>1, <3>2
  <2>3. IsUnits(newborn)
      BY <1>3, <2>1, <2>2 DEF IsUnits
  <2>4. DOMAIN newborn \cap DOMAIN units = {}
      BY <1>1, <2>1
  <2>5. /\ IsFiniteSet(D)
        /\ Cardinality(D) \in Nat /\ (\A u \in D : u \in 0 .. nextUnitId + Cardinality(D) - 1)
    <3>1. CASE nextUnitId \in Units
      <4>1. D = {nextUnitId}
          BY <3>1
      <4> HIDE DEF D
      <4>2. IsFiniteSet(D) /\ Cardinality(D) = 1
          BY <4>1, FS_Singleton
      <4> QED
          BY <1>1, <4>1, <4>2
    <3>2. CASE nextUnitId \notin Units
      <4>1. D = {}
          BY <3>2
      <4> HIDE DEF D
      <4>2. IsFiniteSet(D) /\ Cardinality(D) = 0
          BY <4>1, FS_EmptySet
      <4> QED
          BY <4>1, <4>2
    <3> QED
        BY <3>1, <3>2
  <2> HIDE DEF D, kinds
  <2> QED
      BY <2>1, <2>2, <2>3, <2>4, <2>5 DEF IsNewborn
<1> QED
    BY <1>2, <1>3 DEF Newborns

\* The three kinds of updates of a tick, each one after the other in some order.
AddedOf(all, S) == {Added(u, all[u]) : u \in S}
RemovedOf(S) == {Removed(u) : u \in S}
AlteredOf(after, S) == {Altered(u, after[u]) : u \in S}

\* The updates of units are updates, each of its unit.
LEMMA StatusesSent ==
    ASSUME NEW us, IsUnits(us), NEW u \in DOMAIN us
    PROVE  /\ Added(u, us[u]) \in Update /\ Added(u, us[u]).unit = u
           /\ Altered(u, us[u]) \in Update /\ Altered(u, us[u]).unit = u
           /\ Removed(u) \in Update /\ Removed(u).unit = u
<1>1. u \in Units /\ us[u] \in Unit
    BY DEF IsUnits
<1>2. StatusOf(us[u]) \in Status
    BY <1>1 DEF Unit, StatusOf, Status
<1> QED
    BY <1>1, <1>2 DEF Added, Altered, Removed, Update

\* The additions of a tick, one for each unit.
LEMMA AddedInOrder ==
    ASSUME NEW all, IsUnits(all), NEW S, S \subseteq DOMAIN all, IsFiniteSet(S)
    PROVE  \E g : /\ \A u \in S : g[u] = Added(u, all[u])
                  /\ InSomeOrder(SetToSeq(AddedOf(all, S)), S, g)
<1> DEFINE g == [u \in S |-> Added(u, all[u])]
<1>1. DOMAIN g = S /\ \A u \in S : g[u] = Added(u, all[u])
    OBVIOUS
<1> HIDE DEF g
<1>2. AddedOf(all, S) = {g[u] : u \in S}
    BY <1>1 DEF AddedOf
<1>3. InSomeOrder(SetToSeq({g[u] : u \in S}), S, g)
  <2>1. \A u \in S : g[u] \in Update /\ g[u].unit = u
      BY <1>1, StatusesSent
  <2> QED
      BY <1>1, <2>1, UpdatesInSomeOrder
<1> QED
    BY <1>1, <1>2, <1>3

\* The removals of a tick, one for each unit.
LEMMA RemovedInOrder ==
    ASSUME NEW all, IsUnits(all), NEW S, S \subseteq DOMAIN all, IsFiniteSet(S)
    PROVE  \E g : /\ \A u \in S : g[u] = Removed(u)
                  /\ InSomeOrder(SetToSeq(RemovedOf(S)), S, g)
<1> DEFINE g == [u \in S |-> Removed(u)]
<1>1. DOMAIN g = S /\ \A u \in S : g[u] = Removed(u)
    OBVIOUS
<1> HIDE DEF g
<1>2. RemovedOf(S) = {g[u] : u \in S}
    BY <1>1 DEF RemovedOf
<1>3. InSomeOrder(SetToSeq({g[u] : u \in S}), S, g)
  <2>1. \A u \in S : g[u] \in Update /\ g[u].unit = u
      BY <1>1, StatusesSent
  <2> QED
      BY <1>1, <2>1, UpdatesInSomeOrder
<1> QED
    BY <1>1, <1>2, <1>3

\* The new statuses of a tick, one for each unit.
LEMMA AlteredInOrder ==
    ASSUME NEW after, IsUnits(after), NEW S, S \subseteq DOMAIN after, IsFiniteSet(S)
    PROVE  \E g : /\ \A u \in S : g[u] = Altered(u, after[u])
                  /\ InSomeOrder(SetToSeq(AlteredOf(after, S)), S, g)
<1> DEFINE g == [u \in S |-> Altered(u, after[u])]
<1>1. DOMAIN g = S /\ \A u \in S : g[u] = Altered(u, after[u])
    OBVIOUS
<1> HIDE DEF g
<1>2. AlteredOf(after, S) = {g[u] : u \in S}
    BY <1>1 DEF AlteredOf
<1>3. InSomeOrder(SetToSeq({g[u] : u \in S}), S, g)
  <2>1. \A u \in S : g[u] \in Update /\ g[u].unit = u
      BY <1>1, StatusesSent
  <2> QED
      BY <1>1, <2>1, UpdatesInSomeOrder
<1> QED
    BY <1>1, <1>2, <1>3

\* What a tick makes: units, whose targets are as they were, and updates that
\* settle to them every client that was ahead of those before.
TickMakes(updates) ==
    /\ IsUnits(units') /\ nextUnitId' \in Nat /\ DOMAIN units' \subseteq 0 .. nextUnitId' - 1
    /\ \A u \in DOMAIN units' :
         units'[u].target = IF u \in DOMAIN units THEN units[u].target ELSE NoTarget
    /\ updates \in Seq(Update) /\ Inform(updates)
    /\ \A w : Ahead(w, units) =>
         /\ Settled(ApplyUpdates(w, updates), units')
         /\ ApplyUpdates(w, updates).timeNow = w.timeNow

\* Every tick makes that of the units and of the queues.
LEMMA TickMade ==
    ASSUME TypeInv, WorldInv, Tick
    PROVE  \E updates : TickMakes(updates)
<1>0. PICK newborn \in Newborns : \E late \in SUBSET DOMAIN newborn :
          LET all == [u \in DOMAIN units \cup DOMAIN newborn |->
                        IF u \in DOMAIN units THEN units[u] ELSE newborn[u]]
          IN  \E fate \in Fates(DOMAIN all) :
              LET after == [u \in DOMAIN all |->
                              IF u \in late THEN all[u] ELSE Driven(all[u], fate[u])]
                  died == {u \in DOMAIN all : fate[u] = "dies"}
                  struck == {u \in DOMAIN all : fate[u] # "none"}
                  dirty == {u \in DOMAIN all \ died :
                               fate[u] = "hit" \/ after[u].velocity # all[u].velocity}
              IN  /\ events' = events + Cardinality(DOMAIN newborn) + Cardinality(struck)
                  /\ events' <= MaxEvents
                  /\ nextUnitId' = nextUnitId + Cardinality(DOMAIN newborn)
                  /\ units' = Restrict(after, DOMAIN all \ died)
                  /\ Inform(SetToSeq({Added(u, all[u]) : u \in DOMAIN newborn})
                            \o SetToSeq({Removed(u) : u \in died})
                            \o SetToSeq({Altered(u, after[u]) : u \in dirty}))
      BY Zenon DEF Tick
<1>1. PICK late \in SUBSET DOMAIN newborn : \E fate \in Fates(DOMAIN AllOf(newborn)) :
        LET all == AllOf(newborn)
            after == AfterOf(all, late, fate)
            died == DiedOf(all, fate)
            struck == {u \in DOMAIN all : fate[u] # "none"}
            dirty == DirtyOf(all, after, fate)
        IN  /\ events' = events + Cardinality(DOMAIN newborn) + Cardinality(struck)
            /\ events' <= MaxEvents
            /\ nextUnitId' = nextUnitId + Cardinality(DOMAIN newborn)
            /\ units' = Restrict(after, DOMAIN all \ died)
            /\ Inform(SetToSeq({Added(u, all[u]) : u \in DOMAIN newborn})
                      \o SetToSeq({Removed(u) : u \in died})
                      \o SetToSeq({Altered(u, after[u]) : u \in dirty}))
    BY <1>0, Zenon DEF AllOf, AfterOf, DiedOf, DirtyOf
<1>a. PICK all : all = AllOf(newborn)
    OBVIOUS
<1>b. PICK fate :
        /\ nextUnitId' = nextUnitId + Cardinality(DOMAIN newborn)
        /\ units' = Restrict(AfterOf(all, late, fate), DOMAIN all \ DiedOf(all, fate))
        /\ Inform(SetToSeq({Added(u, all[u]) : u \in DOMAIN newborn})
                    \o SetToSeq({Removed(u) : u \in DiedOf(all, fate)})
                    \o SetToSeq({Altered(u, AfterOf(all, late, fate)[u]) :
                           u \in DirtyOf(all, AfterOf(all, late, fate), fate)}))
    BY <1>1, <1>a
<1>2. PICK after, died, dirty :
        /\ after = AfterOf(all, late, fate) /\ died = DiedOf(all, fate)
        /\ dirty = DirtyOf(all, after, fate)
        /\ nextUnitId' = nextUnitId + Cardinality(DOMAIN newborn)
        /\ units' = Restrict(after, DOMAIN all \ died)
        /\ Inform(SetToSeq({Added(u, all[u]) : u \in DOMAIN newborn})
                    \o SetToSeq({Removed(u) : u \in died})
                    \o SetToSeq({Altered(u, after[u]) : u \in dirty}))
    BY <1>b
<1>3. /\ IsNewborn(newborn) /\ Cardinality(DOMAIN newborn) \in Nat
      /\ IsFiniteSet(DOMAIN newborn)
      /\ \A u \in DOMAIN newborn : u \in 0 .. nextUnitId + Cardinality(DOMAIN newborn) - 1
    BY NewbornsAreNew
<1>4. /\ IsUnits(units) /\ nextUnitId \in Nat /\ DOMAIN units \subseteq 0 .. nextUnitId - 1
    BY DEF TypeInv, WorldInv
<1>5. /\ IsUnits(all) /\ DOMAIN all = DOMAIN units \cup DOMAIN newborn
      /\ \A u \in DOMAIN units : all[u] = units[u]
      /\ \A u \in DOMAIN newborn : all[u] = newborn[u]
    BY <1>a, <1>3, <1>4, AllAreUnits
<1>6. /\ IsUnits(after) /\ DOMAIN after = DOMAIN all
      /\ \A u \in DOMAIN all : after[u].target = all[u].target
    BY <1>2, <1>5, AfterAreUnits
<1>7. died \subseteq DOMAIN all /\ dirty \subseteq DOMAIN all
    BY <1>2 DEF DiedOf, DirtyOf
<1>8. IsFiniteSet(DOMAIN all)
  <2>1. IsFiniteSet(0 .. nextUnitId - 1)
      BY <1>4, FS_Interval
  <2>2. IsFiniteSet(DOMAIN units)
      BY <1>4, <2>1, FS_Subset
  <2> QED
      BY <1>3, <1>5, <2>2, FS_Union
<1>9. PICK sA, sB, sC :
        /\ sA = SetToSeq(AddedOf(all, DOMAIN newborn))
        /\ sB = SetToSeq(RemovedOf(died))
        /\ sC = SetToSeq(AlteredOf(after, dirty))
    OBVIOUS
<1>c. /\ DOMAIN newborn \subseteq DOMAIN all /\ IsFiniteSet(DOMAIN newborn)
      /\ died \subseteq DOMAIN all /\ IsFiniteSet(died)
      /\ dirty \subseteq DOMAIN after /\ IsFiniteSet(dirty)
    BY <1>3, <1>5, <1>6, <1>7, <1>8, FS_Subset
<1>10. /\ \E g : /\ \A u \in DOMAIN newborn : g[u] = Added(u, all[u])
                 /\ InSomeOrder(sA, DOMAIN newborn, g)
       /\ \E g : /\ \A u \in died : g[u] = Removed(u)
                 /\ InSomeOrder(sB, died, g)
       /\ \E g : /\ \A u \in dirty : g[u] = Altered(u, after[u])
                 /\ InSomeOrder(sC, dirty, g)
  <2>1. \E g : /\ \A u \in DOMAIN newborn : g[u] = Added(u, all[u])
               /\ InSomeOrder(sA, DOMAIN newborn, g)
      BY <1>5, <1>6, <1>9, <1>c, AddedInOrder
  <2>2. \E g : /\ \A u \in died : g[u] = Removed(u)
               /\ InSomeOrder(sB, died, g)
      BY <1>5, <1>6, <1>9, <1>c, RemovedInOrder
  <2>3. \E g : /\ \A u \in dirty : g[u] = Altered(u, after[u])
               /\ InSomeOrder(sC, dirty, g)
      BY <1>5, <1>6, <1>9, <1>c, AlteredInOrder
  <2> QED
      BY <2>1, <2>2, <2>3
<1>11. TickOf(newborn, late, fate, all, after, died, dirty, sA, sB, sC)
    BY <1>a, <1>2, <1>3, <1>10, Zenon DEF TickOf
<1>13. PICK first, updates : first = sA \o sB /\ updates = first \o sC
    OBVIOUS
<1>14. updates \in Seq(Update)
  <2>1. sA \in Seq(Update) /\ sB \in Seq(Update) /\ sC \in Seq(Update)
      BY <1>10 DEF InSomeOrder
  <2>2. first \in Seq(Update)
      BY <1>13, <2>1, ConcatProperties
  <2> QED
      BY <1>13, <2>1, <2>2, ConcatProperties
<1>15. Inform(updates)
    BY <1>2, <1>9, <1>13, Zenon DEF AddedOf, RemovedOf, AlteredOf
<1>16. ASSUME NEW w, Ahead(w, units)
       PROVE  /\ Settled(ApplyUpdates(w, updates), units')
              /\ ApplyUpdates(w, updates).timeNow = w.timeNow
  <2>1. LET x == ApplyUpdates(w, (sA \o sB) \o sC)
        IN  /\ Settled(x, Restrict(after, DOMAIN all \ died))
            /\ x.timeNow = w.timeNow
      BY <1>4, <1>11, <1>16, TickSettles
  <2> QED
      BY <1>2, <1>13, <2>1
<1>17. PICK us : us = units'
    OBVIOUS
<1>18. DOMAIN us = DOMAIN all \ died /\ us = [u \in DOMAIN us |-> after[u]]
    BY <1>2, <1>17 DEF Restrict
<1>19. IsUnits(us)
  <2>1. \A u \in DOMAIN us : after[u] \in Unit
      BY <1>6, <1>18 DEF IsUnits
  <2>2. us \in [DOMAIN us -> Unit]
      BY <1>18, <2>1
  <2>3. DOMAIN us \subseteq Units
      BY <1>5, <1>18 DEF IsUnits
  <2> QED
      BY <2>2, <2>3 DEF IsUnits
<1>20. \A u \in DOMAIN us :
         us[u].target = IF u \in DOMAIN units THEN units[u].target ELSE NoTarget
    BY <1>3, <1>5, <1>6, <1>18 DEF IsNewborn
<1>21. nextUnitId' \in Nat /\ DOMAIN us \subseteq 0 .. nextUnitId' - 1
    BY <1>2, <1>3, <1>4, <1>5, <1>18
<1> QED
    BY <1>14, <1>15, <1>16, <1>17, <1>19, <1>20, <1>21 DEF TickMakes

\* The tick that is made is the one that everyone who stays is to be sent.
LEMMA TickStep ==
    ASSUME LoopInv, Tick
    PROVE  LoopInv'
<1>1. TypeInv /\ WorldInv /\ ViewsInv /\ MessagesInv /\ QueueInv
    BY DEF LoopInv
<1>2. /\ phase = "orders" /\ timeNow' = timeNow + 1 /\ log' = Append(log, units')
      /\ phase' = "flush" /\ toVisit' = clients
      /\ UNCHANGED <<clients, orderQueue, toServer, toClient, gone, views>>
    BY DEF Tick
<1>3. PICK updates : TickMakes(updates)
    BY <1>1, TickMade
<1>4. PICK n, us, l : n = timeNow /\ us = units' /\ l = log
    OBVIOUS
<1>5. n \in Nat /\ n < MaxTime /\ MaxTime \in Nat /\ n + 1 \in 0 .. MaxTime
    BY <1>1, <1>2, <1>4, NumbersHere DEF TypeInv, WorldInv
<1>6. us \in Worlds /\ l \in Seq(Worlds) /\ Len(l) = n
    BY <1>1, <1>3, <1>4, WorldsAre DEF TickMakes, TypeInv, WorldInv
<1>7. /\ log' = Append(l, us) /\ log' \in Seq(Worlds) /\ Len(log') = n + 1
      /\ \A t \in 1 .. n : log'[t] = l[t]
      /\ log'[n + 1] = us
    BY <1>2, <1>4, <1>6, AppendProperties
<1>8. ASSUME NEW t \in 0 .. n
      PROVE  Before(t)' = Before(t)
  <2>1. CASE t = 0
      BY <2>1 DEF Before
  <2>2. CASE t # 0
    <3>1. t \in 1 .. n
        BY <1>5, <2>2
    <3>2. log'[t] = log[t]
        BY <1>4, <1>7, <3>1, Zenon
    <3> QED
        BY <2>2, <3>2 DEF Before
  <2> QED
      BY <2>1, <2>2
<1>9. Before(n + 1)' = us
    BY <1>5, <1>7 DEF Before
<1>10. TypeInv'
  <2>1. updates \in Seq(Update)
        /\ outgoing' = [c \in Clients |->
                          IF c \in clients THEN outgoing[c] \o updates ELSE outgoing[c]]
      BY <1>3 DEF TickMakes, Inform
  <2>2. \A c \in Clients : outgoing[c] \in Seq(Update) /\ outgoing[c] \o updates \in Seq(Update)
      BY <1>1, <2>1, QueuesAre, ConcatProperties
  <2>3. outgoing' \in [Clients -> Seq(Update)]
      BY <2>1, <2>2
  <2>4. IsUnits(units') /\ nextUnitId' \in Nat
      BY <1>3 DEF TickMakes
  <2>5. timeNow' \in 0 .. MaxTime
      BY <1>2, <1>4, <1>5
  <2> QED
      BY <1>1, <1>2, <1>7, <2>3, <2>4, <2>5 DEF TypeInv
<1>11. WorldInv'
  <2>1. DOMAIN units' \subseteq 0 .. nextUnitId' - 1
      BY <1>3 DEF TickMakes
  <2>2. Len(log') = timeNow' /\ timeNow' > 0 /\ units' = log'[timeNow']
      BY <1>2, <1>4, <1>5, <1>7
  <2> QED
      BY <1>1, <1>2, <2>1, <2>2 DEF WorldInv
<1>12. ViewsInv' /\ MessagesInv' /\ (\A c : LastTime(c)' = LastTime(c))
  <2>1. timeNow' \in Nat /\ timeNow <= timeNow' /\ \A t \in 0 .. timeNow : Before(t)' = Before(t)
      BY <1>2, <1>4, <1>5, <1>8
  <2> QED
      BY <1>1, <1>2, <2>1, ClientsStay
<1>13. ASSUME NEW c \in Clients \ gone
       PROVE  QueueRight(c)'
  <2>1. c \in clients /\ LastTime(c) = n /\ Prepares(n, Before(n), outgoing[c], units)
      BY <1>1, <1>2, <1>4 DEF WorldInv, QueueInv, QueueRight
  <2>2. PICK base, old, before : base = Before(n) /\ old = outgoing[c] /\ before = units
      OBVIOUS
  <2>3. outgoing'[c] = old \o updates /\ old \in Seq(Update) /\ updates \in Seq(Update)
      BY <1>1, <1>3, <2>1, <2>2, QueuesAre DEF TickMakes, Inform
  <2>4. ASSUME NEW v, Settled(v, base), v.timeNow = n
        PROVE  /\ Settled(ApplyUpdates(EndTick(v), old \o updates), us)
               /\ ApplyUpdates(EndTick(v), old \o updates).timeNow = n + 1
    <3> DEFINE w == ApplyUpdates(EndTick(v), old)
    <3>1. Ahead(w, before) /\ w.timeNow = n + 1
        BY <2>1, <2>2, <2>4 DEF Prepares
    <3>2. ApplyUpdates(EndTick(v), old \o updates) = ApplyUpdates(w, updates)
        BY <2>3, ApplyMore
    <3> HIDE DEF w
    <3>3. Settled(ApplyUpdates(w, updates), us) /\ ApplyUpdates(w, updates).timeNow = w.timeNow
        BY <1>3, <1>4, <2>2, <3>1 DEF TickMakes
    <3> QED
        BY <3>1, <3>2, <3>3
  <2>5. Completes(n, base, outgoing'[c], us)
      BY <2>3, <2>4 DEF Completes
  <2>6. n = timeNow' - 1 /\ base = Before(n)' /\ us = units'
      BY <1>2, <1>4, <1>5, <1>8, <2>2
  <2>7. LastTime(c)' = n /\ c \in toVisit' /\ phase' = "flush"
      BY <1>2, <1>12, <2>1
  <2>8. Completes(timeNow - 1, Before(timeNow - 1), outgoing[c], units)'
      BY <2>5, <2>6
  <2> QED
      BY <2>6, <2>7, <2>8 DEF QueueRight
<1>14. QueueInv'
    BY <1>2, <1>13 DEF QueueInv
<1> QED
    BY <1>10, <1>11, <1>12, <1>14 DEF LoopInv

\* A step that changes nothing.
LEMMA StutterStep ==
    ASSUME LoopInv, UNCHANGED vars
    PROVE  LoopInv'
<1>1. TypeInv /\ WorldInv /\ ViewsInv /\ MessagesInv /\ QueueInv
    BY DEF LoopInv
<1>2. UNCHANGED <<phase, toVisit, clients, orderQueue, outgoing, timeNow, units, nextUnitId,
                  events, log, toServer, toClient, gone, views>>
    BY DEF vars, serverVars, worldVars
<1>3. TypeInv' /\ WorldInv'
    BY <1>1, <1>2 DEF TypeInv, WorldInv
<1>4. ViewsInv' /\ MessagesInv' /\ (\A d : LastTime(d)' = LastTime(d))
      /\ \A t : Before(t)' = Before(t)
    BY <1>1, <1>2, ClientsStayHere
<1>5. QueueInv'
    BY <1>1, <1>2, <1>4, QueueStays DEF QueueInv
<1> QED
    BY <1>3, <1>4, <1>5 DEF LoopInv

\* Every step keeps the invariant.
LEMMA NextStep ==
    ASSUME LoopInv, [Next]_vars
    PROVE  LoopInv'
<1>1. CASE UNCHANGED vars
    BY <1>1, StutterStep
<1>2. CASE MessagesDone
    BY <1>2, MessagesDoneStep
<1>3. CASE Tick
    BY <1>3, TickStep
<1>4. CASE FlushDone
    BY <1>4, FlushDoneStep
<1>5. ASSUME NEW c \in Clients,
             TakeOrders(c) \/ ClientLeaves(c) \/ ApplyOrders(c) \/ FlushOutgoing(c)
               \/ FlushThrows(c) \/ GiveOrder(c) \/ ReadUpdates(c) \/ GoAway(c)
      PROVE  LoopInv'
  <2>1. CASE TakeOrders(c)
      BY <2>1, TakeOrdersStep
  <2>2. CASE ClientLeaves(c)
      BY <2>2, RemoveStep DEF ClientLeaves
  <2>3. CASE ApplyOrders(c)
      BY <2>3, ApplyOrdersStep
  <2>4. CASE FlushOutgoing(c)
      BY <2>4, FlushOutgoingStep
  <2>5. CASE FlushThrows(c)
      BY <2>5, RemoveStep DEF FlushThrows
  <2>6. CASE GiveOrder(c)
      BY <2>6, GiveOrderStep
  <2>7. CASE ReadUpdates(c)
      BY <2>7, ReadUpdatesStep
  <2>8. CASE GoAway(c)
      BY <2>8, GoAwayStep
  <2> QED
      BY <1>5, <2>1, <2>2, <2>3, <2>4, <2>5, <2>6, <2>7, <2>8
<1> QED
    BY <1>1, <1>2, <1>3, <1>4, <1>5 DEF Next, ServerStep

\* LoopInv is inductive, and holds of every state that the game can come to.
THEOREM LoopInvariant == Spec => []LoopInv
<1>1. Init => LoopInv
    BY InitLoopInv
<1>2. LoopInv /\ [Next]_vars => LoopInv'
    BY NextStep
<1> QED
    BY <1>1, <1>2, PTL DEF Spec

\* The types of the variables; and no client is ever sent an update that is out
\* of order, or that is of a unit it should not, or should, have known.
THEOREM LoopTypes == Spec => []TypeOK
<1>1. LoopInv => TypeOK
  <2> SUFFICES ASSUME LoopInv PROVE TypeOK
      OBVIOUS
  <2>1. TypeInv /\ WorldInv /\ ViewsInv
      BY DEF LoopInv
  <2>2. DOMAIN units \subseteq Units /\ Range(units) \subseteq Unit
      BY <2>1 DEF TypeInv, IsUnits, Range
  <2>3. ASSUME NEW c \in Clients
        PROVE  /\ views[c].timeNow \in 0 .. timeNow /\ ~views[c].mistaken
               /\ DOMAIN views[c].units \subseteq Units
    <3>1. PICK v : v = views[c]
        OBVIOUS
    <3>2. v.timeNow \in 0 .. timeNow /\ Settled(v, Before(v.timeNow))
        BY <2>1, <3>1 DEF ViewsInv
    <3>3. v = View(v.timeNow, v.units) /\ DOMAIN v.units = DOMAIN Before(v.timeNow)
        BY <3>2 DEF Settled, Shows, IsView
    <3>4. ~v.mistaken
        BY <3>3, ViewFields
    <3>5. DOMAIN v.units \subseteq Units
        BY <2>1, <3>2, <3>3, BeforeAre DEF IsUnits
    <3> QED
        BY <3>1, <3>2, <3>4, <3>5
  <2> QED
      BY <2>1, <2>2, <2>3 DEF TypeOK, TypeInv, Message
<1> QED
    BY <1>1, LoopInvariant, PTL

\* What the server leaves out, since the client can work it out by itself, is
\* never more than one move of a unit: it is where the server had it at the
\* client's time, or where it had been a move before.
THEOREM NeverTwoMovesBehind == Spec => []AtMostOneMoveBehind
<1>1. LoopInv => AtMostOneMoveBehind
  <2> SUFFICES ASSUME LoopInv, NEW c \in Clients, NEW u \in DOMAIN views[c].units
               PROVE  views[c].units[u].position \in
                        {AtClock(c, u).position,
                         Moved(AtClock(c, u).position, -AtClock(c, u).velocity)}
      BY DEF AtMostOneMoveBehind
  <2>1. PICK v, t : v = views[c] /\ t = v.timeNow
      OBVIOUS
  <2>2. Settled(v, Before(t))
      BY <2>1 DEF LoopInv, ViewsInv
  <2>3. u \in DOMAIN Before(t)
      BY <2>1, <2>2 DEF Settled, Shows
  <2>4. Before(t) = log[t]
      BY <2>3, NoUnitsAre DEF Before
  <2>5. AtClock(c, u) = Before(t)[u]
      BY <2>1, <2>4 DEF AtClock
  <2> QED
      BY <2>1, <2>2, <2>3, <2>5 DEF Settled
<1> QED
    BY <1>1, LoopInvariant, PTL

-----------------------------------------------------------------------------
(* The loop implements SharedGame *)

\* The refinement mapping, by names of its own
Submitted ==
    [c \in Clients |-> IF c \in clients THEN orderQueue[c] \o toServer[c] ELSE <<>>]
ToldLog == [i \in DOMAIN log |-> Told(log[i])]
Shown == [c \in Clients |-> [tick |-> views[c].timeNow, units |-> Told(views[c].units)]]

\* What the clients see, and what they have been told of, does not change.
LEMMA SharedStutters ==
    ASSUME UNCHANGED <<clients, Submitted, units, log, Shown>>
    PROVE  UNCHANGED Shared!vars
<1>1. UNCHANGED <<clients, Submitted, Goals(units), ToldLog, Shown>>
    BY DEF ToldLog, Goals
<1> QED
    BY <1>1, Zenon DEF Shared!vars, Submitted, ToldLog, Shown

\* The game starts as SharedGame does.
LEMMA InitShared == Init => Shared!Init
BY DEF Init, Shared!Init, Told, Goals, StartOfGame, NoUnits, Shared!Nothing, FirstUnit

\* Steps that the clients have no part in; an order that is taken in has only
\* come nearer.
LEMMA QuietShared ==
    ASSUME LoopInv,
           \/ MessagesDone \/ FlushDone \/ UNCHANGED vars
           \/ \E c \in Clients : TakeOrders(c) \/ FlushOutgoing(c) \/ GoAway(c)
    PROVE  UNCHANGED Shared!vars
<1>1. TypeInv
    BY DEF LoopInv
<1>2. UNCHANGED <<clients, units, log, views>>
    BY DEF MessagesDone, FlushDone, vars, serverVars, worldVars, TakeOrders, FlushOutgoing, GoAway
<1>3. UNCHANGED Submitted
  <2>1. CASE UNCHANGED <<orderQueue, toServer>>
      BY <1>2, <2>1 DEF Submitted
  <2>2. ASSUME NEW c \in Clients, TakeOrders(c)
        PROVE  UNCHANGED Submitted
    <3>1. /\ orderQueue' = [orderQueue EXCEPT ![c] = orderQueue[c] \o toServer[c]]
          /\ toServer' = [toServer EXCEPT ![c] = <<>>]
        BY <2>2 DEF TakeOrders
    <3>2. ASSUME NEW d \in Clients
          PROVE  orderQueue'[d] \o toServer'[d] = orderQueue[d] \o toServer[d]
      <4>1. CASE d = c
        <5>1. PICK q : q = orderQueue[c] \o toServer[c]
            OBVIOUS
        <5>2. q \in Seq(Order)
            BY <1>1, <5>1, QueuesAre, ConcatProperties
        <5>3. orderQueue'[c] = q /\ toServer'[c] = <<>>
            BY <1>1, <3>1, <5>1, QueuesAre
        <5> QED
            BY <4>1, <5>1, <5>2, <5>3, ConcatEmptySeq
      <4>2. CASE d # c
          BY <1>1, <3>1, <4>2, QueuesAre
      <4> QED
          BY <4>1, <4>2
    <3> QED
        BY <1>2, <3>2 DEF Submitted
  <2> QED
      BY <2>1, <2>2 DEF MessagesDone, FlushDone, vars, serverVars, FlushOutgoing, GoAway
<1>4. UNCHANGED Shown
    BY <1>2 DEF Shown
<1> QED
    BY <1>2, <1>3, <1>4, SharedStutters

\* A client that is removed takes its orders with it.
LEMMA RemoveShared ==
    ASSUME LoopInv, NEW c \in Clients, ClientLeaves(c) \/ FlushThrows(c)
    PROVE  Shared!Leave(c)
<1>1. TypeInv
    BY DEF LoopInv
<1>2. /\ c \in clients /\ clients' = clients \ {c}
      /\ orderQueue' = [orderQueue EXCEPT ![c] = <<>>]
      /\ UNCHANGED <<toServer, units, log, views>>
    BY <1>1 DEF ClientLeaves, FlushThrows, RemoveClient, worldVars, TypeInv
<1>3. Submitted' = [Submitted EXCEPT ![c] = <<>>]
  <2>1. \A d \in Clients : d # c => orderQueue'[d] = orderQueue[d]
      BY <1>1, <1>2, QueuesAre
  <2>2. Submitted' = [d \in Clients |-> IF d = c THEN <<>> ELSE Submitted[d]]
      BY <1>2, <2>1 DEF Submitted
  <2> QED
      BY <2>2 DEF Submitted
<1>4. UNCHANGED <<Goals(units), ToldLog, Shown>>
    BY <1>2 DEF Goals, ToldLog, Shown
<1> QED
    BY <1>2, <1>3, <1>4, Zenon DEF Shared!Leave, Submitted, ToldLog, Shown

\* An order that is given waits behind all others of its client.
LEMMA GiveOrderShared ==
    ASSUME LoopInv, NEW c \in Clients, GiveOrder(c)
    PROVE  Shared!Submit(c)
<1>1. TypeInv /\ WorldInv /\ ViewsInv
    BY DEF LoopInv
<1>2. PICK u \in DOMAIN views[c].units, v \in Velocities :
         toServer' = [toServer EXCEPT ![c] = Append(@, [unit |-> u, velocity |-> v])]
    BY DEF GiveOrder
<1>3. PICK o : o = [unit |-> u, velocity |-> v]
    OBVIOUS
<1>4. o \in Order
  <2>1. u \in Units
      BY <1>1, BeforeAre DEF ViewsInv, Settled, Shows, IsUnits
  <2> QED
      BY <1>3, <2>1 DEF Order
<1>5. c \in clients /\ UNCHANGED <<clients, orderQueue, units, log, views>>
    BY <1>1 DEF GiveOrder, serverVars, WorldInv
<1>6. PICK q, r, s : q = orderQueue[c] /\ r = toServer[c] /\ s = q \o r
    OBVIOUS
<1>7. q \in Seq(Order) /\ r \in Seq(Order) /\ s \in Seq(Order)
    BY <1>1, <1>6, QueuesAre, ConcatProperties
<1>8. q \o Append(r, o) = Append(s, o) /\ Len(Append(s, o)) = Len(s) + 1
  <2>1. <<o>> \in Seq(Order)
      BY <1>4
  <2>2. PICK one : one = <<o>> /\ one \in Seq(Order)
      BY <2>1
  <2>3. Append(r, o) = r \o one /\ Append(s, o) = s \o one
      BY <1>4, <1>7, <2>2, AppendIsConcat
  <2>4. q \o (r \o one) = s \o one
    <3>1. (q \o r) \o one = q \o (r \o one)
        BY <1>7, <2>2, ConcatAssociative
    <3> QED
        BY <1>6, <3>1
  <2> QED
      BY <1>4, <1>7, <2>3, <2>4, AppendProperties
<1>9. toServer' = [toServer EXCEPT ![c] = Append(r, o)]
    BY <1>2, <1>3, <1>6
<1>10. /\ \A d \in Clients : d # c => toServer'[d] = toServer[d]
       /\ toServer'[c] = Append(r, o)
    BY <1>1, <1>9, QueuesAre
<1>11. Submitted[c] = s /\ Submitted'[c] = Append(s, o)
    BY <1>5, <1>6, <1>8, <1>10 DEF Submitted
<1>12. Submitted' = [Submitted EXCEPT ![c] = Append(s, o)]
  <2>1. Submitted' = [d \in Clients |-> IF d = c THEN Append(s, o) ELSE Submitted[d]]
      BY <1>5, <1>6, <1>8, <1>10 DEF Submitted
  <2> QED
      BY <2>1 DEF Submitted
<1>13. Submitted' = [Submitted EXCEPT ![c] = Append(Submitted[c], o)]
       /\ Len(Submitted'[c]) = Len(Submitted[c]) + 1
    BY <1>8, <1>11, <1>12
<1>14. UNCHANGED <<clients, Goals(units), ToldLog, Shown>>
    BY <1>5 DEF Goals, ToldLog, Shown
<1> QED
    BY <1>4, <1>5, <1>13, <1>14, Zenon DEF Shared!Submit, Submitted, ToldLog, Shown

\* A sequence that goes on where another ends: its first elements, and the others.
LEMMA FirstAndOthers ==
    ASSUME NEW S, NEW q \in Seq(S), NEW r \in Seq(S)
    PROVE  /\ q \o r \in Seq(S) /\ Len(q) \in Nat /\ Len(r) \in Nat
           /\ Len(q \o r) = Len(q) + Len(r)
           /\ \A i \in 1 .. Len(q) : (q \o r)[i] = q[i]
           /\ SubSeq(q \o r, Len(q) + 1, Len(q \o r)) = r
<1>1. PICK s, n, k : s = q \o r /\ n = Len(q) /\ k = Len(r)
    OBVIOUS
<1>2. n \in Nat /\ k \in Nat
    BY <1>1, LenProperties
<1>3. s \in Seq(S) /\ Len(s) = n + k
      /\ \A i \in 1 .. n + k : s[i] = IF i <= n THEN q[i] ELSE r[i - n]
    BY <1>1, ConcatProperties
<1>4. \A i \in 1 .. n : s[i] = q[i]
    BY <1>2, <1>3
<1>5. SubSeq(s, n + 1, n + k) = r
  <2>1. CASE k = 0
    <3>1. r = <<>>
        BY <1>1, <2>1, EmptySeq
    <3>2. PICK from, to : from = n + 1 /\ to = n + k
        OBVIOUS
    <3>3. from \in Int /\ to \in Int /\ from > to
        BY <1>2, <2>1, <3>2
    <3>4. SubSeq(s, from, to) = <<>>
        BY <3>3, SubSeqEmpty
    <3> QED
        BY <3>1, <3>2, <3>4
  <2>2. CASE k # 0
    <3>1. PICK from, to : from = n + 1 /\ to = n + k
        OBVIOUS
    <3>2. from \in n + 1 .. n + k /\ to \in n + 1 .. n + k /\ from - n = 1 /\ to - n = k
        BY <1>2, <2>2, <3>1
    <3>3. SubSeq(s, from, to) = SubSeq(r, from - n, to - n)
        BY <1>1, <3>2, SubSeqOfConcat2
    <3>4. SubSeq(r, 1, k) = r
        BY <1>1, SubSeqFull
    <3> QED
        BY <3>1, <3>2, <3>3, <3>4
  <2> QED
      BY <2>1, <2>2
<1> QED
    BY <1>1, <1>2, <1>3, <1>4, <1>5

\* What SharedGame has the first n of some orders make of the goals
CarriedOut(goals, some, n) ==
    [u \in DOMAIN goals |->
       LET mine == {i \in 1 .. n : some[i].unit = u}
       IN  IF mine = {} THEN goals[u] ELSE some[Shared!Max(mine)].velocity]

\* The orders in a queue are the first of those that are not carried out.
LEMMA ApplyOrdersShared ==
    ASSUME LoopInv, NEW c \in Clients, ApplyOrders(c)
    PROVE  Shared!CarryOut(c) \/ UNCHANGED Shared!vars
<1>1. TypeInv
    BY DEF LoopInv
<1>2. PICK world, q, r, s, n :
        /\ world = Carried(orderQueue[c])
        /\ q = orderQueue[c] /\ r = toServer[c] /\ s = q \o r /\ n = Len(q)
    OBVIOUS
<1>3. /\ units' = world.units /\ orderQueue' = [orderQueue EXCEPT ![c] = <<>>]
      /\ c \in clients /\ UNCHANGED <<clients, toServer, log, views>>
    BY <1>1, <1>2 DEF ApplyOrders, TypeInv
<1>4. /\ q \in Seq(Order) /\ r \in Seq(Order) /\ n \in Nat
      /\ s \in Seq(Order) /\ Len(s) = n + Len(r) /\ Len(r) \in Nat
      /\ \A i \in 1 .. n : s[i] = q[i]
      /\ r = SubSeq(s, n + 1, Len(s))
  <2>1. q \in Seq(Order) /\ r \in Seq(Order)
      BY <1>1, <1>2, QueuesAre
  <2>2. /\ q \o r \in Seq(Order) /\ Len(q) \in Nat /\ Len(r) \in Nat
        /\ Len(q \o r) = Len(q) + Len(r)
        /\ \A i \in 1 .. Len(q) : (q \o r)[i] = q[i]
        /\ SubSeq(q \o r, Len(q) + 1, Len(q \o r)) = r
      BY <2>1, FirstAndOthers
  <2> QED
      BY <1>2, <2>1, <2>2
<1>5. WellCarried(world, q, n) /\ IsUnits(units)
    BY <1>1, <1>2, <1>4, QueueCarried DEF TypeInv
<1>6. DOMAIN units' = DOMAIN units
    BY <1>3, <1>5 DEF WellCarried
<1>7. /\ \A d \in Clients : d # c => orderQueue'[d] = orderQueue[d]
      /\ orderQueue'[c] \o toServer'[c] = r
  <2>1. <<>> \o r = r
      BY <1>4, ConcatEmptySeq
  <2> QED
      BY <1>1, <1>2, <1>3, <2>1, QueuesAre
<1>8. /\ Submitted[c] = s /\ Submitted'[c] = r
      /\ Submitted' = [Submitted EXCEPT ![c] = r]
  <2>1. Submitted[c] = s /\ Submitted'[c] = r
      BY <1>2, <1>3, <1>7 DEF Submitted
  <2>2. Submitted' = [d \in Clients |-> IF d = c THEN r ELSE Submitted[d]]
    <3>1. \A d \in Clients : d # c => Submitted'[d] = Submitted[d]
        BY <1>3, <1>7 DEF Submitted
    <3>2. Submitted' = [d \in Clients |-> Submitted'[d]]
        BY DEF Submitted
    <3> QED
        BY <2>1, <3>1, <3>2
  <2> QED
      BY <2>1, <2>2 DEF Submitted
<1>9. UNCHANGED <<clients, log, ToldLog, Shown>>
    BY <1>3 DEF ToldLog, Shown
<1>10. CASE n = 0
  <2>1. q = <<>>
      BY <1>2, <1>4, <1>10, EmptySeq
  <2>2. s = r
      BY <1>2, <1>4, <2>1, ConcatEmptySeq
  <2>3. Submitted' = Submitted
    <3>1. \A d \in Clients : Submitted'[d] = Submitted[d]
        BY <1>8, <2>2
    <3> QED
        BY <1>8, <2>2, <3>1 DEF Submitted
  <2>4. Goals(units)' = Goals(units)
    <3>1. \A u \in DOMAIN units : OrdersFor(u, q, n) = {}
        BY <1>10 DEF OrdersFor
    <3>2. \A u \in DOMAIN units : units'[u].target = units[u].target
        BY <1>3, <1>5, <3>1 DEF WellCarried
    <3> QED
        BY <1>6, <3>2 DEF Goals
  <2> QED
      BY <1>9, <2>3, <2>4, Zenon DEF Shared!vars, Submitted, ToldLog, Shown
<1>11. CASE n # 0
  <2>1. n \in 1 .. Len(s)
    <3>1. PICK k, l : k = Len(s) /\ l = Len(r)
        OBVIOUS
    <3>2. k = n + l /\ n \in Nat /\ l \in Nat
        BY <1>4, <3>1
    <3>3. n \in 1 .. k
        BY <1>11, <3>2
    <3> QED
        BY <3>1, <3>3
  <2>3. Goals(units)' = CarriedOut(Goals(units), s, n)
    <3> SUFFICES ASSUME NEW u \in DOMAIN units
                 PROVE  units'[u].target =
                          LET mine == {i \in 1 .. n : s[i].unit = u}
                          IN  IF mine = {} THEN units[u].target
                              ELSE s[Shared!Max(mine)].velocity
        BY <1>6 DEF Goals, CarriedOut
    <3> DEFINE mine == {i \in 1 .. n : s[i].unit = u}
    <3>1. mine = OrdersFor(u, q, n)
        BY <1>4 DEF OrdersFor
    <3>2. mine \subseteq 1 .. n
        OBVIOUS
    <3> HIDE DEF mine
    <3>3. CASE mine = {}
        BY <1>3, <1>5, <3>1, <3>3 DEF WellCarried, mine
    <3>4. CASE mine # {}
      <4>1. PICK m \in mine : /\ \A j \in mine : j <= m
                              /\ units'[u].target = q[m].velocity
          BY <1>3, <1>5, <3>1, <3>4 DEF WellCarried
      <4>2. \A j \in mine : m >= j
          BY <3>2, <4>1
      <4>3. Shared!Max(mine) \in mine /\ \A j \in mine : Shared!Max(mine) >= j
          BY <4>2, Zenon DEF Shared!Max
      <4>4. Shared!Max(mine) = m
        <5>1. PICK top : top = Shared!Max(mine)
            OBVIOUS
        <5>2. top \in mine /\ top >= m /\ top <= m
            BY <4>1, <4>3, <5>1
        <5>3. top \in Int /\ m \in Int
            BY <3>2, <5>2
        <5>4. top = m
            BY <5>2, <5>3
        <5> QED
            BY <5>1, <5>4
      <4>5. q[m] = s[m]
          BY <1>4, <3>2
      <4> QED
          BY <3>4, <4>1, <4>4, <4>5 DEF mine
    <3> QED
        BY <3>3, <3>4
  <2>4. Submitted' = [Submitted EXCEPT ![c] = Submitted'[c]]
      BY <1>8
  <2>5. \E k \in 1 .. Len(Submitted[c]) :
          /\ Submitted'[c] = SubSeq(Submitted[c], k + 1, Len(Submitted[c]))
          /\ Goals(units)' = CarriedOut(Goals(units), Submitted[c], k)
      BY <1>4, <1>8, <2>1, <2>3
  <2> QED
      BY <1>9, <2>4, <2>5, Zenon DEF CarriedOut, Shared!CarryOut, Submitted, ToldLog, Shown
<1> QED
    BY <1>10, <1>11

\* A tick is a tick: its units were told what they are told to do now.
LEMMA TickShared ==
    ASSUME LoopInv, Tick
    PROVE  Shared!Tick
<1>1. TypeInv /\ WorldInv
    BY DEF LoopInv
<1>2. /\ log' = Append(log, units')
      /\ UNCHANGED <<clients, orderQueue, toServer, toClient, gone, views>>
    BY DEF Tick
<1>3. PICK updates : TickMakes(updates)
    BY <1>1, TickMade
<1>4. PICK n, us, l, told : n = timeNow /\ us = units' /\ l = log /\ told = ToldLog
    OBVIOUS
<1>5. us \in Worlds /\ l \in Seq(Worlds) /\ Len(l) = n /\ n \in Nat /\ IsUnits(us)
    BY <1>1, <1>3, <1>4, WorldsAre DEF TickMakes, TypeInv, WorldInv
<1>6. /\ log' = Append(l, us) /\ log' \in Seq(Worlds) /\ Len(log') = n + 1
      /\ \A t \in 1 .. n : log'[t] = l[t]
      /\ log'[n + 1] = us
    BY <1>2, <1>4, <1>5, AppendProperties
<1>7. DOMAIN l = 1 .. n /\ DOMAIN log' = 1 .. n + 1
    BY <1>5, <1>6, LenProperties
<1>8. /\ told = [t \in 1 .. n |-> Told(l[t])]
      /\ ToldLog' = [t \in 1 .. n + 1 |-> Told(log'[t])]
    BY <1>4, <1>7 DEF ToldLog
<1>9. PICK after : after = ToldLog'
    OBVIOUS
<1>10. /\ told \in Seq({Told(l[t]) : t \in 1 .. n}) /\ Len(told) = n
    BY <1>5, <1>8
<1>11. /\ after \in Seq({Told(log'[t]) : t \in 1 .. n + 1}) /\ Len(after) = n + 1
       /\ \A t \in 1 .. n : after[t] = told[t]
       /\ after[n + 1] = Told(us)
  <2>1. n + 1 \in Nat
      BY <1>5
  <2>2. after \in Seq({Told(log'[t]) : t \in 1 .. n + 1}) /\ Len(after) = n + 1
      BY <1>8, <1>9, <2>1
  <2>3. \A t \in 1 .. n + 1 : after[t] = Told(log'[t])
      BY <1>8, <1>9
  <2>4. \A t \in 1 .. n : after[t] = told[t]
      BY <1>5, <1>6, <1>8, <2>3
  <2> QED
      BY <1>5, <1>6, <2>2, <2>3, <2>4
<1>12. told = Shared!Front(after)
  <2>1. PICK S : after \in Seq(S) /\ told \in Seq(S)
    <3> DEFINE S == {Told(l[t]) : t \in 1 .. n} \cup {Told(log'[t]) : t \in 1 .. n + 1}
    <3>1. after \in Seq(S) /\ told \in Seq(S)
        BY <1>10, <1>11, SeqMonotonic
    <3> HIDE DEF S
    <3> QED
        BY <3>1
  <2>2. PICK last, one : last = after[n + 1] /\ one = <<last>>
      OBVIOUS
  <2>3. last \in S /\ one \in Seq(S) /\ Len(one) = 1 /\ one[1] = last
    <3>1. n + 1 \in 1 .. Len(after)
        BY <1>5, <1>11
    <3>2. last \in S
        BY <2>1, <2>2, <3>1, ElementOfSeq
    <3> QED
        BY <2>2, <3>2
  <2>4. after = told \o one
    <3>1. PICK both : both = told \o one
        OBVIOUS
    <3>2. /\ both \in Seq(S) /\ Len(both) = n + 1
          /\ \A i \in 1 .. n + 1 : both[i] = IF i <= n THEN told[i] ELSE one[i - n]
      <4>1. /\ told \o one \in Seq(S) /\ Len(told \o one) = Len(told) + Len(one)
            /\ \A i \in 1 .. Len(told) + Len(one) :
                 (told \o one)[i] = IF i <= Len(told) THEN told[i] ELSE one[i - Len(told)]
          BY <2>1, <2>3, ConcatProperties
      <4> QED
          BY <1>10, <2>3, <3>1, <4>1
    <3>3. ASSUME NEW i \in 1 .. n + 1
          PROVE  both[i] = after[i]
      <4>1. CASE i \in 1 .. n
        <5>1. i <= n
            BY <1>5, <4>1
        <5>2. both[i] = told[i]
            BY <3>2, <5>1
        <5> QED
            BY <1>11, <4>1, <5>2
      <4>2. CASE i = n + 1
          BY <1>5, <2>2, <2>3, <3>2, <4>2
      <4> QED
          BY <1>5, <4>1, <4>2
    <3> QED
        BY <1>11, <2>1, <3>1, <3>2, <3>3, SeqEqual
  <2>5. SubSeq(after, 1, n) = told
    <3>1. CASE n = 0
      <4>1. told = <<>>
          BY <1>10, <2>1, <3>1, EmptySeq
      <4>2. SubSeq(after, 1, n) = <<>>
          BY <3>1, SubSeqEmpty
      <4> QED
          BY <4>1, <4>2
    <3>2. CASE n # 0
      <4>1. 1 \in 1 .. Len(told) /\ n \in 1 .. Len(told)
          BY <1>5, <1>10, <3>2
      <4>2. SubSeq(told \o one, 1, n) = SubSeq(told, 1, n)
          BY <2>1, <2>3, <4>1, SubSeqOfConcat1
      <4>3. SubSeq(told, 1, n) = told
          BY <1>10, <2>1, SubSeqFull
      <4> QED
          BY <2>4, <4>2, <4>3
    <3> QED
        BY <3>1, <3>2
  <2>6. Len(after) - 1 = n
      BY <1>5, <1>11
  <2> QED
      BY <2>5, <2>6 DEF Shared!Front
<1>13. Shared!Last(after) = Told(us)
    BY <1>11 DEF Shared!Last
<1>14. PICK aims : aims = Goals(units)'
    OBVIOUS
<1>15. /\ DOMAIN aims = DOMAIN us /\ DOMAIN Told(us) = DOMAIN us
       /\ \A u \in DOMAIN us : aims[u] = us[u].target /\ Told(us)[u].target = us[u].target
    BY <1>4, <1>14 DEF Goals, Told
<1>16. DOMAIN us \subseteq Units /\ Shared!Range(Told(us)) \subseteq Shared!Status
  <2>1. ASSUME NEW u \in DOMAIN us
        PROVE  Told(us)[u] \in Shared!Status
    <3>1. us[u] \in Unit
        BY <1>5 DEF IsUnits
    <3>2. Told(us)[u] = [velocity |-> us[u].velocity, target |-> us[u].target]
        BY DEF Told
    <3> QED
        BY <3>1, <3>2 DEF Unit, Targets, Shared!Status
  <2> QED
      BY <1>5, <1>15, <2>1 DEF IsUnits, Shared!Range
<1>17. \A u \in DOMAIN aims :
         aims[u] = IF u \in DOMAIN Goals(units) THEN Goals(units)[u] ELSE NoTarget
    BY <1>3, <1>4, <1>15 DEF TickMakes, Goals
<1>18. UNCHANGED <<clients, Submitted, Shown>>
    BY <1>2 DEF Submitted, Shown
<1>19. /\ Len(ToldLog') = Len(ToldLog) + 1 /\ ToldLog = Shared!Front(ToldLog')
       /\ DOMAIN Goals(units)' \subseteq Units
       /\ \A u \in DOMAIN Goals(units)' :
            Goals(units)'[u] = IF u \in DOMAIN Goals(units) THEN Goals(units)[u] ELSE NoTarget
       /\ DOMAIN Shared!Last(ToldLog') = DOMAIN Goals(units)'
       /\ Shared!Range(Shared!Last(ToldLog')) \subseteq Shared!Status
       /\ \A u \in DOMAIN Goals(units)' : Shared!Last(ToldLog')[u].target = Goals(units)'[u]
    BY <1>4, <1>9, <1>10, <1>11, <1>12, <1>13, <1>14, <1>15, <1>16, <1>17
<1> QED
    BY <1>18, <1>19, Zenon DEF Shared!Tick, Submitted, ToldLog, Shown

\* What a client is shown when it is settled is the tick as it was told.
LEMMA SettledShown ==
    ASSUME NEW v, NEW us, Settled(v, us)
    PROVE  Told(v.units) = Told(us)
<1>1. DOMAIN v.units = DOMAIN us
      /\ \A u \in DOMAIN us : /\ v.units[u].velocity = us[u].velocity
                              /\ v.units[u].target = us[u].target
    BY DEF Settled, Shows
<1> QED
    BY <1>1 DEF Told

\* A message shows its reader the next tick, or nothing new.
LEMMA ReadUpdatesShared ==
    ASSUME LoopInv, NEW c \in Clients, ReadUpdates(c)
    PROVE  Shared!See(c) \/ UNCHANGED Shared!vars
<1>1. TypeInv /\ WorldInv /\ ViewsInv /\ MessagesInv
    BY DEF LoopInv
<1>2. PICK m, old, v, t, w : /\ m = Head(toClient[c]) /\ old = toClient[c] /\ v = views[c]
                             /\ t = v.timeNow /\ w = PushUpdates(v, m)
    OBVIOUS
<1>3. /\ c \notin gone /\ old # <<>> /\ views' = [views EXCEPT ![c] = w]
      /\ UNCHANGED <<clients, orderQueue, toServer, units, log, timeNow>>
    BY <1>2 DEF ReadUpdates, serverVars, worldVars
<1>4. old \in Seq(Message) /\ Len(old) \in Nat /\ Len(old) # 0 /\ m = old[1]
  <2>1. old \in Seq(Message)
      BY <1>1, <1>2, QueuesAre
  <2>2. m = old[1]
      BY <1>2, <1>3, <2>1
  <2>3. Len(old) # 0
      BY <1>3, <2>1, EmptySeq
  <2> QED
      BY <2>1, <2>2, <2>3, LenProperties
<1>5. t \in 0 .. timeNow /\ Settled(v, Before(t)) /\ timeNow \in Nat
    BY <1>1, <1>2 DEF ViewsInv, TypeInv
<1>6. MessageRight(m, t) /\ m.time \in 0 .. timeNow
  <2>1. 1 \in 1 .. Len(toClient[c]) /\ PrevTime(c, 1) = t /\ toClient[c][1] = m
      BY <1>2, <1>4 DEF PrevTime
  <2> QED
      BY <1>1, <1>3, <2>1 DEF MessagesInv
<1>7. w.timeNow = m.time /\ Settled(w, Before(m.time))
    BY <1>1, <1>2, <1>5, <1>6, RightMessageRead
<1>8. views'[c] = w /\ \A d \in Clients : d # c => views'[d] = views[d]
    BY <1>1, <1>3 DEF TypeInv
<1>9. UNCHANGED <<clients, Submitted, units, log, Goals(units), ToldLog>>
    BY <1>3 DEF Submitted, Goals, ToldLog
<1>10. CASE m.time = t /\ m.updates = <<>>
  <2>1. w = v
    <3>1. IsView(v)
        BY <1>5 DEF Settled, Shows
    <3> QED
        BY <1>2, <1>10, <3>1, SameTickPushed
  <2>2. \A d \in Clients : views'[d] = views[d]
      BY <1>2, <1>8, <2>1
  <2>3. UNCHANGED Shown
      BY <2>2 DEF Shown
  <2> QED
      BY <1>9, <2>3, SharedStutters
<1>11. CASE m.time = t + 1
  <2>1. t + 1 \in 1 .. timeNow /\ t + 1 # 0
      BY <1>5, <1>6, <1>11
  <2>2. Len(log) = timeNow /\ DOMAIN log = 1 .. timeNow
    <3>1. Len(log) = timeNow /\ log \in Seq(Worlds)
        BY <1>1 DEF WorldInv, TypeInv
    <3> QED
        BY <3>1, LenProperties
  <2>3. Before(t + 1) = log[t + 1]
      BY <2>1 DEF Before
  <2>4. ToldLog[t + 1] = Told(w.units)
    <3>1. ToldLog[t + 1] = Told(log[t + 1])
        BY <2>1, <2>2 DEF ToldLog
    <3> QED
        BY <1>7, <1>11, <2>3, <3>1, SettledShown
  <2>5. Len(ToldLog) = timeNow
    <3>1. PICK n, f : n = timeNow /\ f = ToldLog
        OBVIOUS
    <3>2. f = [i \in 1 .. n |-> Told(log[i])] /\ n \in Nat
        BY <1>5, <2>2, <3>1 DEF ToldLog
    <3>3. Len(f) = n
        BY <3>2
    <3> QED
        BY <3>1, <3>3
  <2>6. Shown[c].tick = t
      BY <1>2 DEF Shown
  <2>7. Shown[c].tick < Len(ToldLog)
      BY <1>5, <2>1, <2>5, <2>6
  <2>8. Shown'[c] = [tick |-> t + 1, units |-> ToldLog[t + 1]]
      BY <1>7, <1>8, <1>11, <2>4 DEF Shown
  <2>9. Shown' = [Shown EXCEPT ![c] = [tick |-> t + 1, units |-> ToldLog[t + 1]]]
    <3>1. \A d \in Clients : d # c => Shown'[d] = Shown[d]
        BY <1>8 DEF Shown
    <3>2. Shown' = [d \in Clients |-> Shown'[d]] /\ Shown = [d \in Clients |-> Shown[d]]
        BY DEF Shown
    <3> QED
        BY <2>8, <3>1, <3>2
  <2>10. /\ Shown'[c].tick = Shown[c].tick + 1
         /\ Shown' = [Shown EXCEPT ![c] = [tick |-> Shown[c].tick + 1,
                                           units |-> ToldLog[Shown[c].tick + 1]]]
      BY <2>6, <2>8, <2>9
  <2> QED
      BY <1>9, <2>7, <2>10, Zenon DEF Shared!See, Submitted, ToldLog, Shown
<1> QED
    BY <1>6, <1>10, <1>11 DEF MessageRight

\* Orders are carried out in order, each once, and every client sees every tick,
\* one after the other, as it was when it ended, whoever else leaves while the
\* updates go out.
THEOREM LoopSharesTheGame == Spec => ImplementsSharedGame
<1>1. LoopInv /\ [Next]_vars => [Shared!Next]_(Shared!vars)
  <2> SUFFICES ASSUME LoopInv, [Next]_vars
               PROVE  Shared!Next \/ UNCHANGED Shared!vars
      OBVIOUS
  <2>1. CASE UNCHANGED vars \/ MessagesDone \/ FlushDone
      BY <2>1, QuietShared
  <2>2. CASE Tick
      BY <2>2, TickShared DEF Shared!Next
  <2>3. ASSUME NEW c \in Clients,
               TakeOrders(c) \/ ClientLeaves(c) \/ ApplyOrders(c) \/ FlushOutgoing(c)
                 \/ FlushThrows(c) \/ GiveOrder(c) \/ ReadUpdates(c) \/ GoAway(c)
        PROVE  Shared!Next \/ UNCHANGED Shared!vars
    <3>1. CASE TakeOrders(c) \/ FlushOutgoing(c) \/ GoAway(c)
        BY <3>1, QuietShared
    <3>2. CASE ClientLeaves(c) \/ FlushThrows(c)
        BY <3>2, RemoveShared DEF Shared!Next
    <3>3. CASE ApplyOrders(c)
        BY <3>3, ApplyOrdersShared DEF Shared!Next
    <3>4. CASE GiveOrder(c)
        BY <3>4, GiveOrderShared DEF Shared!Next
    <3>5. CASE ReadUpdates(c)
        BY <3>5, ReadUpdatesShared DEF Shared!Next
    <3> QED
        BY <2>3, <3>1, <3>2, <3>3, <3>4, <3>5
  <2> QED
      BY <2>1, <2>2, <2>3 DEF Next, ServerStep
<1> QED
    BY <1>1, InitShared, LoopInvariant, PTL DEF Spec, ImplementsSharedGame, Shared!Spec
=============================================================================
