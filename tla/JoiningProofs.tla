--------------------------- MODULE JoiningProofs ----------------------------
(***************************************************************************)
(* Theorems about Joining and the sockets under it, over TCP.              *)
(*                                                                         *)
(* The first half is about bytes.  A stream is framed if its buffer and    *)
(* its wire together are the frames of what was promised; sending,         *)
(* arriving and receiving keep it framed, wherever the bytes are cut, and  *)
(* what receive hands over is what was promised, in order.  The second     *)
(* half is about Joining.  Its invariant Inv says how the two ends of a    *)
(* connection, the server's three queues and the interfaces agree, as far  *)
(* as each has been told.  With it every step of Joining is a step of      *)
(* Channels: the sockets are the channels they are meant to be.            *)
(*                                                                         *)
(* Recursive functions are shown to have the values their definitions say  *)
(* by counting up; Seq has no induction that can be cited.                 *)
(***************************************************************************)
EXTENDS Joining, SequenceTheorems, FiniteSetTheorems, WellFoundedInduction, TLAPS

-----------------------------------------------------------------------------
(* Numbers, sequences and recursive functions *)

\* Induction on a set of numbers: the one that starts at 0 and goes on to n.
LEMMA CountUp ==
    ASSUME NEW n \in Nat, NEW S, 0 \in S, \A i \in 0 .. n - 1 : i \in S => i + 1 \in S
    PROVE  \A i \in 0 .. n : i \in S
<1> DEFINE Missed == (0 .. n) \ S
           Less == {ss \in Nat \X Nat : ss[1] < ss[2]}
<1> SUFFICES ASSUME Missed # {} PROVE FALSE
    OBVIOUS
<1>1. IsWellFoundedOn(Less, Nat)
    BY NatLessThanWellFounded DEF OpToRel
<1>2. Missed \subseteq Nat
    OBVIOUS
<1> HIDE DEF Less
<1>3. PICK i \in Missed : \A j \in Missed : ~(<<j, i>> \in Less)
    BY <1>1, <1>2, WFMin
<1>4. i # 0 /\ i - 1 \in 0 .. n - 1
    OBVIOUS
<1>5. i - 1 \notin Missed
  <2>1. \A j, k \in Nat : j < k => <<j, k>> \in Less
      BY DEF Less
  <2>2. i \in Nat /\ i - 1 \in Nat /\ i - 1 < i
      BY <1>4
  <2>3. <<i - 1, i>> \in Less
      BY <2>1, <2>2
  <2> QED
      BY <1>3, <2>3
<1> QED
    BY <1>4, <1>5

\* Min of the community modules picks the least element of a set of numbers.
LEMMA LeastOf ==
    ASSUME NEW S, S \subseteq Nat, S # {}
    PROVE  Min(S) \in S /\ \A x \in S : Min(S) <= x
<1> DEFINE Less == {ss \in Nat \X Nat : ss[1] < ss[2]}
<1>1. IsWellFoundedOn(Less, Nat)
    BY NatLessThanWellFounded DEF OpToRel
<1>2. \A i, m \in Nat : i < m => <<i, m>> \in Less
    OBVIOUS
<1> HIDE DEF Less
<1>3. PICK i \in S : \A m \in S : ~(<<m, i>> \in Less)
    BY <1>1, WFMin
<1>4. ASSUME NEW m \in S PROVE i <= m
  <2>1. i \in Nat /\ m \in Nat
      OBVIOUS
  <2>2. ~(m < i)
      BY <1>2, <1>3, <2>1
  <2> QED
      BY <2>1, <2>2
<1> QED
    BY <1>4 DEF Min

\* RemoveAt leaves out one element and moves those after it forward: vector::erase.
LEMMA RemovedAt ==
    ASSUME NEW T, NEW seq \in Seq(T), NEW i \in 1 .. Len(seq)
    PROVE  /\ RemoveAt(seq, i) \in Seq(T) /\ Len(RemoveAt(seq, i)) = Len(seq) - 1
           /\ \A n \in 1 .. Len(seq) - 1 :
                RemoveAt(seq, i)[n] = IF n < i THEN seq[n] ELSE seq[n + 1]
<1> DEFINE l == Len(seq)
           front == SubSeq(seq, 1, i - 1)
           back == SubSeq(seq, i + 1, l)
<1>1. l \in Nat /\ \A n \in 1 .. l : seq[n] \in T
    BY LenProperties, ElementOfSeq
<1>2. /\ front \in Seq(T) /\ Len(front) = i - 1
      /\ \A n \in 1 .. i - 1 : front[n] = seq[n]
    BY <1>1, SubSeqProperties
<1>3. /\ back \in Seq(T) /\ Len(back) = l - i
      /\ \A n \in 1 .. l - i : back[n] = seq[i + n]
  <2>1. \A n \in i + 1 .. l : seq[n] \in T
      BY <1>1
  <2>2. /\ SubSeq(seq, i + 1, l) \in Seq(T)
        /\ Len(SubSeq(seq, i + 1, l)) = IF i + 1 <= l THEN l - (i + 1) + 1 ELSE 0
        /\ \A n \in 1 .. l - (i + 1) + 1 : SubSeq(seq, i + 1, l)[n] = seq[(i + 1) + n - 1]
      BY <1>1, <2>1, SubSeqProperties
  <2>3. l - (i + 1) + 1 = l - i /\ \A n \in Int : (i + 1) + n - 1 = i + n
      BY <1>1
  <2>4. i <= l
      BY <1>1
  <2> HIDE DEF l
  <2> QED
      BY <1>1, <2>2, <2>3, <2>4
<1> HIDE DEF front, back
<1>4. /\ front \o back \in Seq(T) /\ Len(front \o back) = l - 1
      /\ \A n \in 1 .. l - 1 :
           (front \o back)[n] = IF n <= i - 1 THEN front[n] ELSE back[n - (i - 1)]
  <2>1. (i - 1) + (l - i) = l - 1
      BY <1>1
  <2>2. front \in Seq(T) /\ back \in Seq(T) /\ Len(front) = i - 1 /\ Len(back) = l - i
      BY <1>2, <1>3
  <2>3. /\ front \o back \in Seq(T) /\ Len(front \o back) = Len(front) + Len(back)
        /\ \A n \in 1 .. Len(front) + Len(back) :
             (front \o back)[n] = IF n <= Len(front) THEN front[n] ELSE back[n - Len(front)]
      BY <2>2, ConcatProperties
  <2> HIDE DEF l
  <2> QED
      BY <2>1, <2>2, <2>3
<1>5. ASSUME NEW n \in 1 .. l - 1
      PROVE  (front \o back)[n] = IF n < i THEN seq[n] ELSE seq[n + 1]
  <2>1. CASE n < i
      BY <1>1, <1>2, <1>4, <2>1
  <2>2. CASE n >= i
    <3>1. ~(n <= i - 1) /\ n - (i - 1) \in 1 .. l - i /\ i + (n - (i - 1)) = n + 1
        BY <1>1, <2>2
    <3>2. back[n - (i - 1)] = seq[i + (n - (i - 1))]
        BY <1>3, <3>1
    <3>3. (front \o back)[n] = back[n - (i - 1)]
        BY <1>4, <3>1
    <3>4. ~(n < i)
        BY <1>1, <2>2
    <3> HIDE DEF l
    <3> QED
        BY <3>1, <3>2, <3>3, <3>4
  <2>3. n < i \/ n >= i
      BY <1>1
  <2> QED
      BY <2>1, <2>2, <2>3
<1>6. RemoveAt(seq, i) = front \o back
    BY DEF RemoveAt, front, back
<1> QED
    BY <1>4, <1>5, <1>6

\* Function r joins the first n of the sequences: the fold of FlattenSeq
JoinsTo(f, seqs, n) ==
    f = [i \in 1 .. n |-> IF i = 1 THEN seqs[i] ELSE f[i - 1] \o seqs[i]]

\* One more sequence can be joined to those that have been.
LEMMA JoinOneMore ==
    ASSUME NEW seqs, NEW c \in Nat, NEW r, JoinsTo(r, seqs, c)
    PROVE  \E q : JoinsTo(q, seqs, c + 1)
<1> DEFINE last == IF c + 1 = 1 THEN seqs[c + 1] ELSE r[c] \o seqs[c + 1]
           q == [i \in 1 .. c + 1 |-> IF i = c + 1 THEN last ELSE r[i]]
<1>1. \A i \in 1 .. c : q[i] = r[i]
    OBVIOUS
<1>2. q[c + 1] = last
    OBVIOUS
<1>3. ASSUME NEW i \in 1 .. c + 1
      PROVE  q[i] = IF i = 1 THEN seqs[i] ELSE q[i - 1] \o seqs[i]
  <2>1. CASE i = c + 1
    <3>1. i - 1 = c /\ (i # 1 => i - 1 \in 1 .. c)
        BY <2>1
    <3>2. i # 1 => q[i - 1] = r[c]
        BY <1>1, <3>1
    <3> HIDE DEF q
    <3> QED
        BY <1>2, <2>1, <3>2
  <2>2. CASE i # c + 1
    <3>1. i \in 1 .. c
        BY <2>2
    <3>2. r[i] = IF i = 1 THEN seqs[i] ELSE r[i - 1] \o seqs[i]
        BY <3>1 DEF JoinsTo
    <3>3. i # 1 => q[i - 1] = r[i - 1]
        BY <1>1, <3>1
    <3>4. q[i] = r[i]
        BY <1>1, <3>1
    <3> HIDE DEF q
    <3> QED
        BY <3>2, <3>3, <3>4
  <2> QED
      BY <2>1, <2>2
<1>4. JoinsTo(q, seqs, c + 1)
    BY <1>3 DEF JoinsTo
<1> QED
    BY <1>4

\* Any number of sequences can be joined, one after the other.
LEMMA JoinExists ==
    ASSUME NEW seqs, NEW n \in Nat
    PROVE  \E r : JoinsTo(r, seqs, n)
<1> DEFINE S == {c \in 0 .. n : \E r : JoinsTo(r, seqs, c)}
<1>1. 0 \in S
  <2> DEFINE r == [i \in 1 .. 0 |-> <<>>]
  <2>1. JoinsTo(r, seqs, 0)
      BY DEF JoinsTo
  <2> QED
      BY <2>1
<1>2. \A c \in 0 .. n - 1 : c \in S => c + 1 \in S
    BY JoinOneMore
<1> HIDE DEF S
<1>3. \A c \in 0 .. n : c \in S
    BY <1>1, <1>2, CountUp
<1> QED
    BY <1>3 DEF S

\* Function f iterates g from a, n times
IteratesTo(f, g, a, V, n) ==
    /\ f \in [0 .. n -> V]
    /\ f = [k \in 0 .. n |-> IF k = 0 THEN a ELSE g[<<k, f[k - 1]>>]]

\* One more step of an iteration.
LEMMA IterationGoesOn ==
    ASSUME NEW n \in Nat, NEW m \in 0 .. n - 1, NEW V, NEW a, NEW g \in [(1 .. n) \X V -> V],
           NEW r, IteratesTo(r, g, a, V, m)
    PROVE  \E q : IteratesTo(q, g, a, V, m + 1)
<1> DEFINE q == [k \in 0 .. m + 1 |-> IF k = m + 1 THEN g[<<m + 1, r[m]>>] ELSE r[k]]
<1>1. \A k \in 0 .. m : q[k] = r[k]
    OBVIOUS
<1>2. q[m + 1] = g[<<m + 1, r[m]>>]
    OBVIOUS
<1>3. r[m] \in V /\ m + 1 \in 1 .. n /\ m \in Nat
    BY DEF IteratesTo
<1>4. g[<<m + 1, r[m]>>] \in V
    BY <1>3
<1>5. q \in [0 .. m + 1 -> V]
    BY <1>3, <1>4 DEF IteratesTo
<1>6. ASSUME NEW k \in 0 .. m + 1
      PROVE  q[k] = IF k = 0 THEN a ELSE g[<<k, q[k - 1]>>]
  <2>1. CASE k = m + 1
    <3>1. k # 0 /\ k - 1 \in 0 .. m /\ k - 1 = m
        BY <1>3, <2>1
    <3>2. q[k - 1] = r[m]
        BY <1>1, <3>1
    <3> HIDE DEF q
    <3> QED
        BY <1>2, <2>1, <3>1, <3>2
  <2>2. CASE k # m + 1
    <3>1. k \in 0 .. m
        BY <1>3, <2>2
    <3>2. r[k] = IF k = 0 THEN a ELSE g[<<k, r[k - 1]>>]
        BY <3>1 DEF IteratesTo
    <3>3. k # 0 => q[k - 1] = r[k - 1]
        BY <1>1, <3>1
    <3>4. q[k] = r[k]
        BY <1>1, <3>1
    <3> HIDE DEF q
    <3> QED
        BY <3>2, <3>3, <3>4
  <2> QED
      BY <2>1, <2>2
<1>7. q = [k \in 0 .. m + 1 |-> q[k]]
    OBVIOUS
<1> HIDE DEF q
<1>8. IteratesTo(q, g, a, V, m + 1)
    BY <1>5, <1>6, <1>7 DEF IteratesTo
<1> QED
    BY <1>8

\* An iteration of n steps exists, so that a function defined by such a recursion has
\* the values its definition says.
LEMMA IterationExists ==
    ASSUME NEW n \in Nat, NEW V, NEW a \in V, NEW g \in [(1 .. n) \X V -> V]
    PROVE  \E f : IteratesTo(f, g, a, V, n)
<1> DEFINE S == {m \in 0 .. n : \E f : IteratesTo(f, g, a, V, m)}
<1>1. 0 \in S
  <2> DEFINE f == [k \in 0 .. 0 |-> a]
  <2>1. IteratesTo(f, g, a, V, 0)
      BY DEF IteratesTo
  <2> QED
      BY <2>1
<1>2. \A m \in 0 .. n - 1 : m \in S => m + 1 \in S
    BY IterationGoesOn
<1> HIDE DEF S
<1>3. \A m \in 0 .. n : m \in S
    BY <1>1, <1>2, CountUp
<1> QED
    BY <1>3 DEF S

\* Power has the values its definition says, which are positive.
LEMMA PowersOfBase ==
    /\ Power[0] = 1
    /\ \A k \in 0 .. HeaderBytes : Power[k] \in Nat \ {0}
    /\ \A k \in 1 .. HeaderBytes : Power[k] = Base * Power[k - 1]
<1>1. HeaderBytes \in Nat /\ Base \in Nat /\ Base > 1
    BY SocketAssumption
<1> DEFINE V == Nat \ {0}
           g == [p \in (1 .. HeaderBytes) \X V |-> Base * p[2]]
<1>2. ASSUME NEW p \in (1 .. HeaderBytes) \X V PROVE Base * p[2] \in V
  <2>1. PICK v : v = p[2]
      OBVIOUS
  <2>2. v \in Nat /\ v > 0
      BY <2>1
  <2>3. Base * v \in Nat /\ Base * v > 0
      BY <1>1, <2>2
  <2> QED
      BY <2>1, <2>3
<1>3. g \in [(1 .. HeaderBytes) \X V -> V]
    BY <1>2
<1>4. \A k \in 1 .. HeaderBytes, v \in V : g[<<k, v>>] = Base * v
    OBVIOUS
<1>5. 1 \in V
    OBVIOUS
<1> HIDE DEF V, g
<1>6. PICK f : IteratesTo(f, g, 1, V, HeaderBytes)
    BY <1>1, <1>3, <1>5, IterationExists
<1>7. f = [k \in 0 .. HeaderBytes |-> IF k = 0 THEN 1 ELSE Base * f[k - 1]]
  <2>1. ASSUME NEW k \in 0 .. HeaderBytes, k # 0 PROVE g[<<k, f[k - 1]>>] = Base * f[k - 1]
    <3>1. k \in 1 .. HeaderBytes /\ k - 1 \in 0 .. HeaderBytes
        BY <1>1, <2>1
    <3>2. f[k - 1] \in V
        BY <1>6, <3>1 DEF IteratesTo
    <3> QED
        BY <1>4, <3>1, <3>2
  <2> QED
      BY <1>6, <2>1 DEF IteratesTo
<1>8. Power = [k \in 0 .. HeaderBytes |-> IF k = 0 THEN 1 ELSE Base * Power[k - 1]]
    BY <1>7 DEF Power
<1> DEFINE S == {k \in 0 .. HeaderBytes : Power[k] \in V}
<1>9. Power[0] = 1 /\ \A k \in 1 .. HeaderBytes : Power[k] = Base * Power[k - 1]
    BY <1>1, <1>8
<1>10. 0 \in S
    BY <1>1, <1>5, <1>9
<1>11. ASSUME NEW k \in 0 .. HeaderBytes - 1, k \in S
       PROVE  k + 1 \in S
  <2>1. k + 1 \in 1 .. HeaderBytes /\ (k + 1) - 1 = k /\ k + 1 \in 0 .. HeaderBytes
      BY <1>1
  <2>2. Power[k + 1] = Base * Power[k]
      BY <1>9, <2>1
  <2>3. PICK v : v = Power[k]
      OBVIOUS
  <2>4. v \in Nat /\ v > 0
      BY <1>11, <2>3 DEF V
  <2>5. Base * v \in Nat /\ Base * v > 0
      BY <1>1, <2>4
  <2> QED
      BY <2>1, <2>2, <2>3, <2>5 DEF V
<1> HIDE DEF S
<1>12. \A k \in 0 .. HeaderBytes : k \in S
    BY <1>1, <1>10, <1>11, CountUp
<1> QED
    BY <1>9, <1>12 DEF S, V

-----------------------------------------------------------------------------
(* The header of a frame *)

\* Quotient and remainder are the only ones.
LEMMA QuotientUnique ==
    ASSUME NEW w \in Nat, w > 0, NEW n \in Nat, NEW q \in Nat, NEW r \in 0 .. w - 1,
           n = w * q + r
    PROVE  n \div w = q /\ n % w = r
<1> DEFINE p == n \div w
           s == n % w
<1>1. p \in Int /\ s \in 0 .. w - 1 /\ n = w * p + s
    OBVIOUS
<1> HIDE DEF p, s
<1>2. w * (p - q) = r - s
    BY <1>1
<1>3. p - q < 1
  <2> SUFFICES ASSUME p - q >= 1 PROVE FALSE
      BY <1>1
  <2>1. w * (p - q) >= w
      BY <1>1
  <2> QED
      BY <1>1, <1>2, <2>1
<1>4. q - p < 1
  <2> SUFFICES ASSUME q - p >= 1 PROVE FALSE
      BY <1>1
  <2>1. w * (q - p) >= w
      BY <1>1
  <2> QED
      BY <1>1, <1>2, <2>1
<1>5. p = q
    BY <1>1, <1>3, <1>4
<1>6. s = r
    BY <1>1, <1>5
<1> QED
    BY <1>5, <1>6 DEF p, s

\* Dividing by one more power of the base splits off a digit.
LEMMA NextDigit ==
    ASSUME NEW b \in Nat, b > 0, NEW p \in Nat, p > 0, NEW n \in Nat
    PROVE  /\ n \div p \in Nat /\ n \div (b * p) \in Nat /\ (n \div p) % b \in 0 .. b - 1
           /\ n \div p = b * (n \div (b * p)) + ((n \div p) % b)
<1> DEFINE q == n \div p
           r == n % p
           a == q \div b
           d == q % b
<1>1. q \in Nat /\ r \in 0 .. p - 1 /\ n = p * q + r
    OBVIOUS
<1> HIDE DEF q, r
<1>2. a \in Nat /\ d \in 0 .. b - 1 /\ q = b * a + d
    BY <1>1
<1> HIDE DEF a, d
<1>3. n = (b * p) * a + (p * d + r)
  <2>1. p * q = p * (b * a) + p * d
      BY <1>1, <1>2
  <2>2. p * (b * a) = (b * p) * a
      BY <1>2
  <2> QED
      BY <1>1, <1>2, <2>1, <2>2
<1>4. p * d + r \in 0 .. b * p - 1
  <2>1. PICK e \in Nat : e = (b - 1) - d
      BY <1>2
  <2>2. p * d = p * ((b - 1) - e)
      BY <1>2, <2>1
  <2>3. p * ((b - 1) - e) = b * p - p - p * e
      BY <2>1
  <2>4. p * e >= 0 /\ p * d >= 0 /\ p * d \in Int /\ b * p \in Int /\ p * e \in Int
      BY <1>2, <2>1
  <2> QED
      BY <1>1, <2>2, <2>3, <2>4
<1>5. b * p \in Nat /\ b * p > 0
    OBVIOUS
<1>6. n \div (b * p) = a
    BY <1>2, <1>3, <1>4, <1>5, QuotientUnique
<1> QED
    BY <1>1, <1>2, <1>6 DEF q, d

\* What NextLength computes, from the first byte to the last.
LEMMA LengthRead ==
    ASSUME NEW buffer, \A k \in 1 .. HeaderBytes : buffer[k] \in Nat
    PROVE  \E f \in [0 .. HeaderBytes -> Nat] :
              /\ f[0] = 0
              /\ \A k \in 1 .. HeaderBytes : f[k] = Base * f[k - 1] + buffer[k]
              /\ NextLength(buffer) = f[HeaderBytes]
<1>1. HeaderBytes \in Nat /\ Base \in Nat
    BY SocketAssumption
<1> DEFINE g == [p \in (1 .. HeaderBytes) \X Nat |-> Base * p[2] + buffer[p[1]]]
           v == CHOOSE v : v = [k \in 0 .. HeaderBytes |->
                                  IF k = 0 THEN 0 ELSE Base * v[k - 1] + buffer[k]]
<1>2. ASSUME NEW p \in (1 .. HeaderBytes) \X Nat PROVE Base * p[2] + buffer[p[1]] \in Nat
  <2>1. PICK x, y : x = p[2] /\ y = buffer[p[1]]
      OBVIOUS
  <2>2. x \in Nat /\ y \in Nat
      BY <2>1
  <2>3. Base * x \in Nat
      BY <1>1, <2>2
  <2> QED
      BY <2>1, <2>2, <2>3
<1>3. g \in [(1 .. HeaderBytes) \X Nat -> Nat]
    BY <1>2
<1>4. \A k \in 1 .. HeaderBytes, x \in Nat : g[<<k, x>>] = Base * x + buffer[k]
    OBVIOUS
<1> HIDE DEF g
<1>5. PICK f : IteratesTo(f, g, 0, Nat, HeaderBytes)
    BY <1>1, <1>3, IterationExists
<1>6. f = [k \in 0 .. HeaderBytes |-> IF k = 0 THEN 0 ELSE Base * f[k - 1] + buffer[k]]
  <2>1. ASSUME NEW k \in 0 .. HeaderBytes, k # 0
        PROVE  g[<<k, f[k - 1]>>] = Base * f[k - 1] + buffer[k]
    <3>1. k \in 1 .. HeaderBytes /\ k - 1 \in 0 .. HeaderBytes
        BY <1>1, <2>1
    <3>2. f[k - 1] \in Nat
        BY <1>5, <3>1 DEF IteratesTo
    <3> QED
        BY <1>4, <3>1, <3>2
  <2> QED
      BY <1>5, <2>1 DEF IteratesTo
<1>7. v = [k \in 0 .. HeaderBytes |-> IF k = 0 THEN 0 ELSE Base * v[k - 1] + buffer[k]]
    BY <1>6
<1>8. NextLength(buffer) = v[HeaderBytes]
    BY DEF NextLength
<1> HIDE DEF v
<1>9. v[0] = 0 /\ \A k \in 1 .. HeaderBytes : v[k] = Base * v[k - 1] + buffer[k]
    BY <1>1, <1>7
<1> DEFINE S == {k \in 0 .. HeaderBytes : v[k] \in Nat}
<1>10. 0 \in S
    BY <1>1, <1>9
<1>11. ASSUME NEW k \in 0 .. HeaderBytes - 1, k \in S
       PROVE  k + 1 \in S
  <2>1. k + 1 \in 1 .. HeaderBytes /\ (k + 1) - 1 = k /\ k + 1 \in 0 .. HeaderBytes
      BY <1>1
  <2>2. v[k + 1] = Base * v[k] + buffer[k + 1]
      BY <1>9, <2>1
  <2>3. PICK x, y : x = v[k] /\ y = buffer[k + 1]
      OBVIOUS
  <2>4. x \in Nat /\ y \in Nat
      BY <1>11, <2>1, <2>3
  <2>5. Base * x + y \in Nat
      BY <1>1, <2>4
  <2> QED
      BY <2>1, <2>2, <2>3, <2>5
<1> HIDE DEF S
<1>12. \A k \in 0 .. HeaderBytes : k \in S
    BY <1>1, <1>10, <1>11, CountUp
<1>13. v \in [0 .. HeaderBytes -> Nat]
  <2>1. \A k \in 0 .. HeaderBytes : v[k] \in Nat
      BY <1>12 DEF S
  <2> QED
      BY <1>7, <2>1
<1> QED
    BY <1>8, <1>9, <1>13

\* A header is HeaderBytes bytes.
LEMMA HeaderType ==
    ASSUME NEW n \in Nat
    PROVE  Header(n) \in Seq(Byte) /\ Len(Header(n)) = HeaderBytes
<1>1. HeaderBytes \in Nat /\ Base \in Nat /\ Base > 1
    BY SocketAssumption
<1>2. ASSUME NEW i \in 1 .. HeaderBytes
      PROVE  (n \div Power[HeaderBytes - i]) % Base \in Byte
  <2>1. HeaderBytes - i \in 0 .. HeaderBytes
      BY <1>1
  <2>2. PICK p : p = Power[HeaderBytes - i]
      OBVIOUS
  <2>3. p \in Nat /\ p > 0
      BY <2>1, <2>2, PowersOfBase
  <2>4. (n \div p) % Base \in 0 .. Base - 1
      BY <1>1, <2>3, NextDigit
  <2> QED
      BY <2>2, <2>4 DEF Byte
<1>3. Header(n) \in [1 .. HeaderBytes -> Byte]
    BY <1>2 DEF Header
<1> QED
    BY <1>1, <1>3

\* ntohl undoes htonl: the length that is read is the one that was written, if it fits.
LEMMA HeaderReadBack ==
    ASSUME NEW n \in Nat, n < Power[HeaderBytes], NEW buffer,
           \A k \in 1 .. HeaderBytes : buffer[k] = Header(n)[k]
    PROVE  NextLength(buffer) = n
<1>1. HeaderBytes \in Nat /\ Base \in Nat /\ Base > 1
    BY SocketAssumption
<1>2. \A k \in 1 .. HeaderBytes : buffer[k] \in Nat
  <2>1. \A k \in 1 .. HeaderBytes : Header(n)[k] \in Byte
      BY HeaderType, ElementOfSeq
  <2> QED
      BY <1>1, <2>1 DEF Byte
<1>3. PICK f \in [0 .. HeaderBytes -> Nat] :
         /\ f[0] = 0
         /\ \A k \in 1 .. HeaderBytes : f[k] = Base * f[k - 1] + buffer[k]
         /\ NextLength(buffer) = f[HeaderBytes]
    BY <1>2, LengthRead
<1> DEFINE S == {k \in 0 .. HeaderBytes : f[k] = n \div Power[HeaderBytes - k]}
<1>4. 0 \in S
  <2>1. PICK p : p = Power[HeaderBytes]
      OBVIOUS
  <2>2. p \in Nat /\ n < p
      BY <1>1, <2>1, PowersOfBase
  <2>3. n \div p = 0
      BY <2>2
  <2>4. HeaderBytes - 0 = HeaderBytes
      BY <1>1
  <2> QED
      BY <1>1, <1>3, <2>1, <2>3, <2>4
<1>5. ASSUME NEW k \in 0 .. HeaderBytes - 1, k \in S
      PROVE  k + 1 \in S
  <2>1. /\ k + 1 \in 1 .. HeaderBytes /\ (k + 1) - 1 = k /\ k + 1 \in 0 .. HeaderBytes
        /\ HeaderBytes - k \in 1 .. HeaderBytes /\ HeaderBytes - (k + 1) \in 0 .. HeaderBytes
        /\ (HeaderBytes - k) - 1 = HeaderBytes - (k + 1)
      BY <1>1
  <2>2. PICK p : p = Power[HeaderBytes - (k + 1)]
      OBVIOUS
  <2>3. p \in Nat /\ p > 0 /\ Power[HeaderBytes - k] = Base * p
      BY <2>1, <2>2, PowersOfBase
  <2>4. f[k + 1] = Base * f[k] + buffer[k + 1]
      BY <1>3, <2>1
  <2>5. f[k] = n \div (Base * p)
      BY <1>5, <2>3
  <2>6. buffer[k + 1] = (n \div p) % Base
      BY <2>1, <2>2 DEF Header
  <2>7. n \div p = Base * (n \div (Base * p)) + ((n \div p) % Base)
    <3>1. PICK b : b = Base
        OBVIOUS
    <3>2. b \in Nat /\ b > 0 /\ p \in Nat /\ p > 0
        BY <1>1, <2>3, <3>1
    <3>3. n \div p = b * (n \div (b * p)) + ((n \div p) % b)
        BY <3>2, NextDigit, Zenon
    <3> QED
        BY <3>1, <3>3, Zenon
  <2> QED
      BY <2>1, <2>2, <2>4, <2>5, <2>6, <2>7
<1> HIDE DEF S
<1>6. \A k \in 0 .. HeaderBytes : k \in S
    BY <1>1, <1>4, <1>5, CountUp
<1>7. f[HeaderBytes] = n \div 1
  <2>1. HeaderBytes - HeaderBytes = 0
      BY <1>1
  <2> QED
      BY <1>1, <1>6, <2>1, PowersOfBase DEF S
<1> QED
    BY <1>3, <1>7

-----------------------------------------------------------------------------
(* One message, and what follows it *)

\* A sequence cut in two is its two parts.
LEMMA CutInTwo ==
    ASSUME NEW S, NEW s \in Seq(S), NEW n \in 0 .. Len(s)
    PROVE  /\ SubSeq(s, 1, n) \in Seq(S) /\ Len(SubSeq(s, 1, n)) = n
           /\ SubSeq(s, n + 1, Len(s)) \in Seq(S) /\ Len(SubSeq(s, n + 1, Len(s))) = Len(s) - n
           /\ SubSeq(s, 1, n) \o SubSeq(s, n + 1, Len(s)) = s
           /\ \A i \in 1 .. n : SubSeq(s, 1, n)[i] = s[i]
<1>1. PICK l : l = Len(s)
    OBVIOUS
<1>2. l \in Nat /\ \A i \in 1 .. l : s[i] \in S
    BY <1>1, LenProperties, ElementOfSeq
<1>3. n \in Nat /\ n <= l /\ (\A i \in 1 .. n : s[i] \in S) /\ (\A i \in n + 1 .. l : s[i] \in S)
    BY <1>1, <1>2
<1>4. /\ SubSeq(s, 1, n) \in Seq(S) /\ Len(SubSeq(s, 1, n)) = IF 1 <= n THEN n - 1 + 1 ELSE 0
      /\ \A i \in 1 .. n - 1 + 1 : SubSeq(s, 1, n)[i] = s[1 + i - 1]
    BY <1>3, SubSeqProperties
<1>5. /\ SubSeq(s, n + 1, l) \in Seq(S)
      /\ Len(SubSeq(s, n + 1, l)) = IF n + 1 <= l THEN l - (n + 1) + 1 ELSE 0
    BY <1>2, <1>3, SubSeqProperties
<1>6. SubSeq(s, 1, n) \o SubSeq(s, n + 1, l) = s
  <2>1. 1 \in 1 .. l + 1 /\ n \in 1 - 1 .. l /\ l \in n .. l
      BY <1>2, <1>3
  <2>2. SubSeq(s, 1, n) \o SubSeq(s, n + 1, l) = SubSeq(s, 1, l)
      BY <1>1, <2>1, ConcatAdjacentSubSeq
  <2> QED
      BY <1>1, <2>2, SubSeqFull
<1>7. Len(SubSeq(s, 1, n)) = n /\ \A i \in 1 .. n : SubSeq(s, 1, n)[i] = s[i]
  <2>1. /\ n - 1 + 1 = n /\ (~(1 <= n) => n = 0)
        /\ \A i \in 1 .. n : 1 + i - 1 = i
      BY <1>3
  <2> QED
      BY <1>4, <2>1
<1>8. Len(SubSeq(s, n + 1, l)) = l - n
  <2>1. l - (n + 1) + 1 = l - n /\ (~(n + 1 <= l) => l - n = 0)
      BY <1>2, <1>3
  <2> QED
      BY <1>5, <2>1
<1> QED
    BY <1>1, <1>4, <1>5, <1>6, <1>7, <1>8

\* Two equal sequences that begin alike go on alike.
LEMMA CancelFront ==
    ASSUME NEW S, NEW b \in Seq(S), NEW a \in Seq(S), NEW c \in Seq(S), NEW m \in Seq(S),
           NEW r \in Seq(S), b = a \o c, b \o m = a \o r
    PROVE  c \o m = r
<1>1. PICK la, lc, lm, lr, lb : la = Len(a) /\ lc = Len(c) /\ lm = Len(m) /\ lr = Len(r) /\ lb = Len(b)
    OBVIOUS
<1>2. la \in Nat /\ lc \in Nat /\ lm \in Nat /\ lr \in Nat
    BY <1>1, LenProperties
<1>3. PICK e, f : e = b \o m /\ f = c \o m
    OBVIOUS
<1>4. lb = la + lc /\ \A i \in 1 .. la + lc : b[i] = IF i <= la THEN a[i] ELSE c[i - la]
    BY <1>1, ConcatProperties
<1>5. Len(e) = lb + lm /\ \A i \in 1 .. lb + lm : e[i] = IF i <= lb THEN b[i] ELSE m[i - lb]
    BY <1>1, <1>3, ConcatProperties
<1>6. Len(e) = la + lr /\ \A i \in 1 .. la + lr : e[i] = IF i <= la THEN a[i] ELSE r[i - la]
    BY <1>1, <1>3, ConcatProperties
<1>7. f \in Seq(S) /\ Len(f) = lc + lm /\ \A i \in 1 .. lc + lm : f[i] = IF i <= lc THEN c[i] ELSE m[i - lc]
    BY <1>1, <1>3, ConcatProperties
<1>8. lr = lc + lm
    BY <1>2, <1>4, <1>5, <1>6
<1>9. ASSUME NEW i \in 1 .. lr PROVE f[i] = r[i]
  <2>1. PICK k : k = la + i
      OBVIOUS
  <2>2. /\ k \in 1 .. la + lr /\ k \in 1 .. lb + lm /\ ~(k <= la) /\ k - la = i
        /\ i \in 1 .. lc + lm
      BY <1>2, <1>4, <1>8, <2>1
  <2>3. e[k] = r[i]
      BY <1>6, <2>2
  <2>4. CASE i <= lc
    <3>1. k <= lb /\ k \in 1 .. la + lc
        BY <1>2, <1>4, <2>1, <2>2, <2>4
    <3>2. e[k] = b[k] /\ b[k] = c[i] /\ f[i] = c[i]
        BY <1>4, <1>5, <1>7, <2>2, <2>4, <3>1
    <3> QED
        BY <2>3, <3>2
  <2>5. CASE ~(i <= lc)
    <3>1. ~(k <= lb) /\ k - lb = i - lc
        BY <1>2, <1>4, <2>1, <2>2, <2>5
    <3>2. e[k] = m[i - lc] /\ f[i] = m[i - lc]
        BY <1>5, <1>7, <2>2, <2>5, <3>1
    <3> QED
        BY <2>3, <3>2
  <2> QED
      BY <2>4, <2>5
<1>10. f = r
    BY <1>1, <1>7, <1>8, <1>9, SeqEqual
<1> QED
    BY <1>3, <1>10

\* A message whose length fits the header
Short(message) == message \in Seq(Byte) /\ Len(message) < Power[HeaderBytes]

\* A frame is the header and the bytes of the message.
LEMMA FrameType ==
    ASSUME NEW message, Short(message)
    PROVE  /\ Frame(message) \in Seq(Byte) /\ Len(Frame(message)) = HeaderBytes + Len(message)
           /\ \A k \in 1 .. HeaderBytes : Frame(message)[k] = Header(Len(message))[k]
           /\ \A k \in 1 .. Len(message) : Frame(message)[HeaderBytes + k] = message[k]
<1>1. PICK h, n : h = Header(Len(message)) /\ n = Len(message)
    OBVIOUS
<1>2. n \in Nat /\ h \in Seq(Byte) /\ Len(h) = HeaderBytes /\ HeaderBytes \in Nat
    BY <1>1, HeaderType, LenProperties, SocketAssumption DEF Short
<1>3. /\ h \o message \in Seq(Byte) /\ Len(h \o message) = Len(h) + Len(message)
      /\ \A k \in 1 .. Len(h) + Len(message) :
           (h \o message)[k] = IF k <= Len(h) THEN h[k] ELSE message[k - Len(h)]
    BY <1>2, ConcatProperties DEF Short
<1>4. /\ \A k \in 1 .. HeaderBytes : k \in 1 .. HeaderBytes + n /\ k <= HeaderBytes
      /\ \A k \in 1 .. n : /\ HeaderBytes + k \in 1 .. HeaderBytes + n
                           /\ ~(HeaderBytes + k <= HeaderBytes)
                           /\ (HeaderBytes + k) - HeaderBytes = k
    BY <1>2
<1>5. Frame(message) = h \o message
    BY <1>1 DEF Frame
<1> QED
    BY <1>1, <1>2, <1>3, <1>4, <1>5

\* If what was received and what is to come begin with a frame, the first message that is
\* whole is the one of that frame; it is whole if nothing is to come.
LEMMA FirstTaken ==
    ASSUME NEW buffer \in Seq(Byte), NEW more \in Seq(Byte), NEW message, Short(message),
           NEW rest \in Seq(Byte), buffer \o more = Frame(message) \o rest
    PROVE  /\ Whole(buffer) => /\ First(buffer) = message
                               /\ AfterFirst(buffer) \in Seq(Byte)
                               /\ AfterFirst(buffer) \o more = rest
           /\ more = <<>> => Whole(buffer)
<1>1. PICK n, l, b, w : n = Len(message) /\ l = Len(buffer) /\ w = HeaderBytes + n /\ b = buffer \o more
    OBVIOUS
<1>2. /\ n \in Nat /\ l \in Nat /\ HeaderBytes \in Nat /\ HeaderBytes > 0
      /\ message \in Seq(Byte) /\ w \in Nat /\ w >= HeaderBytes
    BY <1>1, LenProperties, SocketAssumption DEF Short
<1>3. /\ b \in Seq(Byte) /\ Len(b) = l + Len(more) /\ Len(more) \in Nat
      /\ \A k \in 1 .. l : b[k] = buffer[k]
  <2>1. /\ b \in Seq(Byte) /\ Len(b) = Len(buffer) + Len(more)
        /\ \A k \in 1 .. Len(buffer) + Len(more) :
             b[k] = IF k <= Len(buffer) THEN buffer[k] ELSE more[k - Len(buffer)]
      BY <1>1, ConcatProperties
  <2>2. Len(more) \in Nat
      BY LenProperties
  <2>3. \A k \in 1 .. l : k \in 1 .. l + Len(more) /\ k <= l
      BY <1>2, <2>2
  <2> QED
      BY <1>1, <2>1, <2>2, <2>3
<1>4. /\ Frame(message) \in Seq(Byte) /\ Len(Frame(message)) = w
      /\ \A k \in 1 .. HeaderBytes : Frame(message)[k] = Header(n)[k]
      /\ \A k \in 1 .. n : Frame(message)[HeaderBytes + k] = message[k]
    BY <1>1, FrameType
<1>5. Len(b) = w + Len(rest) /\ Len(rest) \in Nat /\ \A k \in 1 .. w : b[k] = Frame(message)[k]
  <2>1. /\ Len(b) = Len(Frame(message)) + Len(rest)
        /\ \A k \in 1 .. Len(Frame(message)) + Len(rest) :
             b[k] = IF k <= Len(Frame(message)) THEN Frame(message)[k]
                    ELSE rest[k - Len(Frame(message))]
      BY <1>1, <1>4, ConcatProperties
  <2>2. Len(rest) \in Nat
      BY LenProperties
  <2>3. \A k \in 1 .. w : k \in 1 .. w + Len(rest) /\ k <= w
      BY <1>2, <2>2
  <2> QED
      BY <1>4, <2>1, <2>2, <2>3
<1>6. l >= HeaderBytes => NextLength(buffer) = n
  <2> SUFFICES ASSUME l >= HeaderBytes PROVE NextLength(buffer) = n
      OBVIOUS
  <2>1. \A k \in 1 .. HeaderBytes : k \in 1 .. l /\ k \in 1 .. w
      BY <1>2
  <2>2. \A k \in 1 .. HeaderBytes : buffer[k] = Header(n)[k]
      BY <1>3, <1>4, <1>5, <2>1
  <2>3. n < Power[HeaderBytes]
      BY <1>1 DEF Short
  <2> QED
      BY <1>2, <2>2, <2>3, HeaderReadBack
<1>7. Whole(buffer) <=> l >= w
  <2>1. l >= HeaderBytes => (Whole(buffer) <=> l >= HeaderBytes + n)
      BY <1>1, <1>6 DEF Whole
  <2>2. ~(l >= HeaderBytes) => ~Whole(buffer)
      BY <1>1 DEF Whole
  <2> QED
      BY <1>1, <1>2, <2>1, <2>2
<1>8. more = <<>> => Whole(buffer)
  <2> SUFFICES ASSUME more = <<>> PROVE l >= w
      BY <1>7
  <2>1. Len(more) = 0
      OBVIOUS
  <2> QED
      BY <1>2, <1>3, <1>5, <2>1
<1>9. ASSUME Whole(buffer)
      PROVE  First(buffer) = message /\ AfterFirst(buffer) \in Seq(Byte)
             /\ AfterFirst(buffer) \o more = rest
  <2>1. l >= w /\ w \in 0 .. l /\ NextLength(buffer) = n /\ \A k \in HeaderBytes + 1 .. w : k \in 1 .. l
      BY <1>2, <1>6, <1>7, <1>9
  <2>2. PICK a, c : a = SubSeq(buffer, 1, w) /\ c = SubSeq(buffer, w + 1, l)
      OBVIOUS
  <2>3. /\ a \in Seq(Byte) /\ Len(a) = w /\ c \in Seq(Byte) /\ a \o c = buffer
        /\ \A i \in 1 .. w : a[i] = buffer[i]
    <3>1. w \in 0 .. Len(buffer)
        BY <1>1, <2>1
    <3>2. /\ SubSeq(buffer, 1, w) \in Seq(Byte) /\ Len(SubSeq(buffer, 1, w)) = w
          /\ SubSeq(buffer, w + 1, Len(buffer)) \in Seq(Byte)
          /\ SubSeq(buffer, 1, w) \o SubSeq(buffer, w + 1, Len(buffer)) = buffer
          /\ \A i \in 1 .. w : SubSeq(buffer, 1, w)[i] = buffer[i]
        BY <3>1, CutInTwo
    <3> QED
        BY <1>1, <2>2, <3>2
  <2>4. AfterFirst(buffer) = c
      BY <1>1, <2>1, <2>2 DEF AfterFirst
  <2>5. a = Frame(message)
    <3>1. \A i \in 1 .. w : i \in 1 .. l
        BY <1>2, <2>1
    <3>2. \A i \in 1 .. w : a[i] = Frame(message)[i]
        BY <1>3, <1>5, <2>3, <3>1
    <3> QED
        BY <1>4, <2>3, <3>2, SeqEqual
  <2>6. c \o more = rest
    <3>1. buffer = a \o c /\ buffer \o more = a \o rest
        BY <2>3, <2>5
    <3>2. a \in Seq(Byte) /\ c \in Seq(Byte)
        BY <2>3
    <3> QED
        BY <3>1, <3>2, CancelFront
  <2>7. First(buffer) = message
    <3>1. First(buffer) = SubSeq(buffer, HeaderBytes + 1, w)
        BY <1>1, <2>1 DEF First
    <3>2. \A k \in HeaderBytes + 1 .. w : buffer[k] \in Byte
        BY <1>1, <2>1, ElementOfSeq
    <3>3. /\ SubSeq(buffer, HeaderBytes + 1, w) \in Seq(Byte)
          /\ Len(SubSeq(buffer, HeaderBytes + 1, w)) =
               IF HeaderBytes + 1 <= w THEN w - (HeaderBytes + 1) + 1 ELSE 0
          /\ \A i \in 1 .. w - (HeaderBytes + 1) + 1 :
               SubSeq(buffer, HeaderBytes + 1, w)[i] = buffer[(HeaderBytes + 1) + i - 1]
        BY <1>2, <3>2, SubSeqProperties
    <3>4. /\ w - (HeaderBytes + 1) + 1 = n /\ (~(HeaderBytes + 1 <= w) => n = 0)
          /\ \A i \in 1 .. n : /\ (HeaderBytes + 1) + i - 1 = HeaderBytes + i
                               /\ HeaderBytes + i \in 1 .. l /\ HeaderBytes + i \in 1 .. w
        BY <1>1, <1>2, <2>1
    <3>5. Len(First(buffer)) = n /\ First(buffer) \in Seq(Byte)
        BY <3>1, <3>3, <3>4
    <3>6. \A i \in 1 .. n : First(buffer)[i] = message[i]
      <4> SUFFICES ASSUME NEW i \in 1 .. n PROVE First(buffer)[i] = message[i]
          OBVIOUS
      <4>1. First(buffer)[i] = buffer[HeaderBytes + i]
          BY <3>1, <3>3, <3>4
      <4>2. buffer[HeaderBytes + i] = b[HeaderBytes + i]
          BY <1>3, <3>4
      <4>3. b[HeaderBytes + i] = Frame(message)[HeaderBytes + i]
          BY <1>5, <3>4
      <4> QED
          BY <1>4, <4>1, <4>2, <4>3
    <3> QED
        BY <1>1, <1>2, <3>5, <3>6, SeqEqual
  <2> QED
      BY <2>3, <2>4, <2>6, <2>7
<1> QED
    BY <1>8, <1>9

\* An empty buffer holds no message.
LEMMA NothingIsNotWhole == ~Whole(<<>>)
<1>1. Len(<<>>) = 0 /\ HeaderBytes \in Nat /\ HeaderBytes > 0
    BY SocketAssumption
<1> QED
    BY <1>1 DEF Whole

\* A message that was framed is read back: send puts its length in front, and receive takes
\* exactly its bytes out of the buffer and leaves what follows, whatever that is.  The one
\* assumption is that the length fits the header.
THEOREM FrameReadBack ==
    ASSUME NEW message \in Seq(Byte), Len(message) < Power[HeaderBytes], NEW rest \in Seq(Byte)
    PROVE  /\ Whole(Frame(message) \o rest)
           /\ First(Frame(message) \o rest) = message
           /\ AfterFirst(Frame(message) \o rest) = rest
<1>1. Short(message)
    BY DEF Short
<1>2. PICK b : b = Frame(message) \o rest
    OBVIOUS
<1>3. b \in Seq(Byte) /\ <<>> \in Seq(Byte) /\ b \o <<>> = b
    BY <1>1, <1>2, FrameType, ConcatProperties, ConcatEmptySeq
<1>4. Whole(b) /\ First(b) = message /\ AfterFirst(b) \in Seq(Byte) /\ AfterFirst(b) \o <<>> = rest
  <2>1. PICK none : none = <<>>
      OBVIOUS
  <2>2. b \in Seq(Byte) /\ none \in Seq(Byte) /\ b \o none = Frame(message) \o rest
      BY <1>2, <1>3, <2>1
  <2>3. /\ Whole(b) => /\ First(b) = message
                       /\ AfterFirst(b) \in Seq(Byte)
                       /\ AfterFirst(b) \o none = rest
        /\ none = <<>> => Whole(b)
      BY <1>1, <2>2, FirstTaken
  <2> QED
      BY <2>1, <2>3
<1>5. AfterFirst(b) \o <<>> = AfterFirst(b)
    BY <1>4, ConcatEmptySeq
<1> QED
    BY <1>2, <1>4, <1>5

-----------------------------------------------------------------------------
(* Split, the calls of receive *)

\* Taking a message out shortens the buffer, so that receive ends.
LEMMA RestIsShorter ==
    ASSUME NEW buffer \in Seq(Byte), Whole(buffer)
    PROVE  /\ AfterFirst(buffer) \in Seq(Byte) /\ Len(AfterFirst(buffer)) \in Nat
           /\ Len(AfterFirst(buffer)) < Len(buffer)
<1>1. PICK l, n, w : l = Len(buffer) /\ n = NextLength(buffer) /\ w = HeaderBytes + n
    OBVIOUS
<1>2. l \in Nat /\ HeaderBytes \in Nat /\ HeaderBytes > 0 /\ Base \in Nat
    BY <1>1, LenProperties, SocketAssumption
<1>3. l >= HeaderBytes /\ l >= w
    BY <1>1 DEF Whole
<1>4. n \in Nat
  <2>1. \A k \in 1 .. HeaderBytes : k \in 1 .. l
      BY <1>2, <1>3
  <2>2. \A k \in 1 .. HeaderBytes : buffer[k] \in Byte
      BY <1>1, <2>1, ElementOfSeq
  <2>3. Byte \subseteq Nat
      BY <1>2 DEF Byte
  <2>4. \A k \in 1 .. HeaderBytes : buffer[k] \in Nat
      BY <2>2, <2>3
  <2>5. PICK f \in [0 .. HeaderBytes -> Nat] : NextLength(buffer) = f[HeaderBytes]
      BY <2>4, LengthRead
  <2> QED
      BY <1>1, <1>2, <2>5
<1>5. w \in 0 .. l /\ w > 0
    BY <1>1, <1>2, <1>3, <1>4
<1>6. AfterFirst(buffer) = SubSeq(buffer, w + 1, l)
    BY <1>1 DEF AfterFirst
<1>7. SubSeq(buffer, w + 1, l) \in Seq(Byte) /\ Len(SubSeq(buffer, w + 1, l)) = l - w
    BY <1>1, <1>5, CutInTwo
<1> QED
    BY <1>1, <1>2, <1>5, <1>6, <1>7

\* The body of Split, and what it computes for buffers of a bounded length
SplitOnce(f, buffer) ==
    IF ~Whole(buffer) THEN [messages |-> <<>>, rest |-> buffer]
    ELSE [f[AfterFirst(buffer)] EXCEPT !.messages = <<First(buffer)>> \o @]
UpTo(n) == {buffer \in Seq(Byte) : Len(buffer) <= n}
SplitsTo(f, n) == f = [buffer \in UpTo(n) |-> SplitOnce(f, buffer)]

\* If Split is defined up to a length, it is up to the next.
LEMMA SplitOneMore ==
    ASSUME NEW n \in Nat, NEW r, SplitsTo(r, n)
    PROVE  \E q : SplitsTo(q, n + 1)
<1> DEFINE q == [buffer \in UpTo(n + 1) |-> SplitOnce(r, buffer)]
<1>1. ASSUME NEW buffer \in UpTo(n)
      PROVE  buffer \in UpTo(n + 1) /\ q[buffer] = r[buffer]
  <2>1. buffer \in UpTo(n + 1)
    <3>1. buffer \in Seq(Byte) /\ Len(buffer) <= n /\ Len(buffer) \in Nat
        BY LenProperties DEF UpTo
    <3>2. Len(buffer) <= n + 1
        BY <3>1
    <3> QED
        BY <3>1, <3>2 DEF UpTo
  <2>2. r[buffer] = SplitOnce(r, buffer)
      BY DEF SplitsTo
  <2> QED
      BY <2>1, <2>2
<1>2. \A buffer \in UpTo(n + 1) : q[buffer] = SplitOnce(r, buffer)
    OBVIOUS
<1>3. q = [buffer \in UpTo(n + 1) |-> q[buffer]]
    OBVIOUS
<1> HIDE DEF q
<1>4. ASSUME NEW buffer \in UpTo(n + 1)
      PROVE  SplitOnce(r, buffer) = SplitOnce(q, buffer)
  <2>1. CASE ~Whole(buffer)
      BY <2>1 DEF SplitOnce
  <2>2. CASE Whole(buffer)
    <3>1. buffer \in Seq(Byte) /\ Len(buffer) <= n + 1 /\ Len(buffer) \in Nat
        BY LenProperties DEF UpTo
    <3>2. PICK a, b : a = Len(AfterFirst(buffer)) /\ b = Len(buffer)
        OBVIOUS
    <3>3. AfterFirst(buffer) \in Seq(Byte) /\ a \in Nat /\ a < b
        BY <2>2, <3>1, <3>2, RestIsShorter
    <3>4. a <= n
        BY <3>1, <3>2, <3>3
    <3>5. AfterFirst(buffer) \in UpTo(n)
        BY <3>2, <3>3, <3>4 DEF UpTo
    <3>6. q[AfterFirst(buffer)] = r[AfterFirst(buffer)]
        BY <1>1, <3>5
    <3> QED
        BY <3>6 DEF SplitOnce
  <2> QED
      BY <2>1, <2>2
<1>5. SplitsTo(q, n + 1)
    BY <1>2, <1>3, <1>4 DEF SplitsTo
<1> QED
    BY <1>5

\* Split is defined for buffers of any bounded length.
LEMMA SplitUpTo ==
    ASSUME NEW n \in Nat
    PROVE  \E f : SplitsTo(f, n)
<1> DEFINE S == {k \in 0 .. n : \E f : SplitsTo(f, k)}
<1>1. 0 \in S
  <2> DEFINE f == [buffer \in UpTo(0) |-> [messages |-> <<>>, rest |-> buffer]]
  <2>1. ASSUME NEW buffer \in UpTo(0) PROVE ~Whole(buffer)
    <3>1. buffer \in Seq(Byte) /\ Len(buffer) <= 0 /\ Len(buffer) \in Nat
        BY LenProperties DEF UpTo
    <3>2. HeaderBytes \in Nat /\ HeaderBytes > 0
        BY SocketAssumption
    <3>3. ~(Len(buffer) >= HeaderBytes)
        BY <3>1, <3>2
    <3> QED
        BY <3>3 DEF Whole
  <2>2. SplitsTo(f, 0)
      BY <2>1 DEF SplitsTo, SplitOnce
  <2> QED
      BY <2>2
<1>2. \A k \in 0 .. n - 1 : k \in S => k + 1 \in S
    BY SplitOneMore
<1> HIDE DEF S
<1>3. \A k \in 0 .. n : k \in S
    BY <1>1, <1>2, CountUp
<1> QED
    BY <1>3 DEF S

\* Two such functions agree where both are defined.
LEMMA SplitsAgree ==
    ASSUME NEW m \in Nat, NEW n \in Nat, m <= n, NEW f, SplitsTo(f, m), NEW g, SplitsTo(g, n)
    PROVE  \A buffer \in UpTo(m) : f[buffer] = g[buffer]
<1> DEFINE S == {k \in 0 .. m : \A buffer \in UpTo(k) : f[buffer] = g[buffer]}
<1>1. ASSUME NEW k \in 0 .. m, NEW buffer \in UpTo(k)
      PROVE  f[buffer] = SplitOnce(f, buffer) /\ g[buffer] = SplitOnce(g, buffer)
  <2>1. buffer \in Seq(Byte) /\ Len(buffer) <= k /\ Len(buffer) \in Nat
      BY LenProperties DEF UpTo
  <2>2. Len(buffer) <= m /\ Len(buffer) <= n
      BY <2>1
  <2>3. buffer \in UpTo(m) /\ buffer \in UpTo(n)
      BY <2>1, <2>2 DEF UpTo
  <2> QED
      BY <2>3 DEF SplitsTo
<1>2. 0 \in S
  <2>1. ASSUME NEW buffer \in UpTo(0) PROVE f[buffer] = g[buffer]
    <3>1. buffer \in Seq(Byte) /\ Len(buffer) <= 0 /\ Len(buffer) \in Nat
        BY LenProperties DEF UpTo
    <3>2. HeaderBytes \in Nat /\ HeaderBytes > 0
        BY SocketAssumption
    <3>3. ~(Len(buffer) >= HeaderBytes)
        BY <3>1, <3>2
    <3>4. ~Whole(buffer)
        BY <3>3 DEF Whole
    <3>5. 0 \in 0 .. m
        OBVIOUS
    <3> QED
        BY <1>1, <3>4, <3>5 DEF SplitOnce
  <2> QED
      BY <2>1
<1>3. ASSUME NEW k \in 0 .. m - 1, k \in S PROVE k + 1 \in S
  <2>1. k + 1 \in 0 .. m /\ k \in Nat
      OBVIOUS
  <2>2. ASSUME NEW buffer \in UpTo(k + 1) PROVE f[buffer] = g[buffer]
    <3>1. f[buffer] = SplitOnce(f, buffer) /\ g[buffer] = SplitOnce(g, buffer)
        BY <1>1, <2>1
    <3>2. CASE ~Whole(buffer)
        BY <3>1, <3>2 DEF SplitOnce
    <3>3. CASE Whole(buffer)
      <4>1. buffer \in Seq(Byte) /\ Len(buffer) <= k + 1 /\ Len(buffer) \in Nat
          BY LenProperties DEF UpTo
      <4>2. PICK a, b : a = Len(AfterFirst(buffer)) /\ b = Len(buffer)
          OBVIOUS
      <4>3. AfterFirst(buffer) \in Seq(Byte) /\ a \in Nat /\ a < b
          BY <3>3, <4>1, <4>2, RestIsShorter
      <4>4. a <= k
          BY <2>1, <4>1, <4>2, <4>3
      <4>5. AfterFirst(buffer) \in UpTo(k)
          BY <4>2, <4>3, <4>4 DEF UpTo
      <4>6. f[AfterFirst(buffer)] = g[AfterFirst(buffer)]
          BY <1>3, <4>5
      <4> QED
          BY <3>1, <4>6 DEF SplitOnce
    <3> QED
        BY <3>2, <3>3
  <2> QED
      BY <2>1, <2>2
<1> HIDE DEF S
<1>4. \A k \in 0 .. m : k \in S
    BY <1>2, <1>3, CountUp
<1> QED
    BY <1>4 DEF S

\* Split has the values its definition says.
LEMMA SplitExists == Split = [buffer \in Seq(Byte) |-> SplitOnce(Split, buffer)]
<1> DEFINE A(n) == CHOOSE f : SplitsTo(f, n)
           F == [buffer \in Seq(Byte) |-> A(Len(buffer))[buffer]]
<1>1. ASSUME NEW n \in Nat PROVE SplitsTo(A(n), n)
    BY SplitUpTo
<1> HIDE DEF A
<1>2. ASSUME NEW buffer \in Seq(Byte)
      PROVE  F[buffer] = SplitOnce(F, buffer)
  <2>1. PICK l : l = Len(buffer)
      OBVIOUS
  <2>2. l \in Nat /\ F[buffer] = A(l)[buffer]
      BY <2>1, LenProperties
  <2>3. buffer \in UpTo(l)
      BY <2>1, <2>2 DEF UpTo
  <2>4. SplitsTo(A(l), l)
      BY <1>1, <2>2
  <2>5. A(l)[buffer] = SplitOnce(A(l), buffer)
      BY <2>3, <2>4 DEF SplitsTo
  <2>6. CASE ~Whole(buffer)
      BY <2>2, <2>5, <2>6 DEF SplitOnce
  <2>7. CASE Whole(buffer)
    <3>1. PICK x, k : x = AfterFirst(buffer) /\ k = Len(x)
        OBVIOUS
    <3>2. x \in Seq(Byte) /\ k \in Nat /\ k < l
        BY <2>1, <2>7, <3>1, RestIsShorter
    <3>3. x \in UpTo(k) /\ k <= l
        BY <2>2, <3>1, <3>2 DEF UpTo
    <3>4. SplitsTo(A(k), k)
        BY <1>1, <3>2
    <3>5. A(k)[x] = A(l)[x]
        BY <2>2, <2>4, <3>2, <3>3, <3>4, SplitsAgree
    <3>6. F[x] = A(k)[x]
        BY <3>1, <3>2
    <3> HIDE DEF F
    <3> QED
        BY <2>2, <2>5, <3>1, <3>5, <3>6 DEF SplitOnce
  <2> QED
      BY <2>6, <2>7
<1>3. F = [buffer \in Seq(Byte) |-> F[buffer]]
    OBVIOUS
<1> HIDE DEF F
<1>4. F = [buffer \in Seq(Byte) |-> SplitOnce(F, buffer)]
    BY <1>2, <1>3
<1>5. Split = CHOOSE f : f = [buffer \in Seq(Byte) |-> SplitOnce(f, buffer)]
    BY DEF Split, SplitOnce
<1> QED
    BY <1>4, <1>5

\* One call of receive, and the calls after it.
LEMMA SplitUnfolds ==
    ASSUME NEW buffer \in Seq(Byte)
    PROVE  IF Whole(buffer)
           THEN Split[buffer] = [Split[AfterFirst(buffer)] EXCEPT !.messages = <<First(buffer)>> \o @]
           ELSE Split[buffer] = [messages |-> <<>>, rest |-> buffer]
<1>1. Split[buffer] = SplitOnce(Split, buffer)
    BY SplitExists
<1> QED
    BY <1>1 DEF SplitOnce

-----------------------------------------------------------------------------
(* The frames of messages *)

\* The messages of Joining fit a header: this is what Base > 7 is for.
LEMMA MessagesAreShort ==
    ASSUME NEW message \in Messages
    PROVE  Short(message) /\ Len(message) > 0
<1>1. HeaderBytes \in Nat /\ HeaderBytes > 0 /\ Base \in Nat /\ Base > 7
    BY SocketAssumption, JoiningAssumption
<1>2. Power[HeaderBytes] \in Nat /\ Power[HeaderBytes] >= Base
  <2>1. HeaderBytes \in 1 .. HeaderBytes /\ HeaderBytes \in 0 .. HeaderBytes
        /\ HeaderBytes - 1 \in 0 .. HeaderBytes
      BY <1>1
  <2>2. PICK p : p = Power[HeaderBytes - 1]
      OBVIOUS
  <2>3. p \in Nat /\ p >= 1 /\ Power[HeaderBytes] = Base * p
      BY <2>1, <2>2, PowersOfBase
  <2>4. Base * p >= Base * 1 /\ Base * p \in Nat
      BY <1>1, <2>3
  <2> QED
      BY <1>1, <2>3, <2>4
<1>3. 1 \in Byte /\ 2 \in Byte /\ 3 \in Byte /\ 4 \in Byte /\ 5 \in Byte /\ 6 \in Byte /\ 7 \in Byte
    BY <1>1 DEF Byte
<1>4. ClientIds \subseteq Byte
    BY JoiningAssumption
<1>5. message \in Seq(Byte) /\ Len(message) \in {1, 2}
  <2>1. CASE message \in {Join, Reject, GetSetting, NotifySetting, Leave, Kick}
    <3>1. PICK n : n \in Byte /\ message = <<n>>
        BY <1>3, <2>1 DEF Join, Reject, GetSetting, NotifySetting, Leave, Kick
    <3> QED
        BY <3>1
  <2>2. CASE message \in {Accept(n) : n \in ClientIds}
    <3>1. PICK n \in ClientIds : message = <<2, n>>
        BY <2>2 DEF Accept
    <3>2. n \in Byte
        BY <1>4
    <3> QED
        BY <1>3, <3>1, <3>2
  <2> QED
      BY <2>1, <2>2 DEF Messages
<1>6. PICK p, l : p = Power[HeaderBytes] /\ l = Len(message)
    OBVIOUS
<1>7. l \in {1, 2} /\ p >= Base /\ p \in Nat
    BY <1>2, <1>5, <1>6
<1>8. l < p /\ l > 0
    BY <1>1, <1>7
<1> QED
    BY <1>5, <1>6, <1>8 DEF Short

\* How the bytes of some messages come about, one message after the other
FramesTo(r, ms) ==
    /\ r \in [0 .. Len(ms) -> Seq(Byte)]
    /\ r[0] = <<>>
    /\ \A k \in 1 .. Len(ms) : r[k] = r[k - 1] \o Frame(ms[k])
    /\ Frames(ms) = r[Len(ms)]

\* The bytes of messages come about one message after the other.
LEMMA FramesExist ==
    ASSUME NEW ms \in Seq(Messages)
    PROVE  \E r : FramesTo(r, ms)
<1>1. PICK n, seqs : n = Len(ms) /\ seqs = [i \in DOMAIN ms |-> Frame(ms[i])]
    OBVIOUS
<1>2. n \in Nat /\ DOMAIN ms = 1 .. n
    BY <1>1, LenProperties
<1>3. \A i \in 1 .. n : seqs[i] = Frame(ms[i]) /\ seqs[i] \in Seq(Byte)
  <2> SUFFICES ASSUME NEW i \in 1 .. n PROVE seqs[i] = Frame(ms[i]) /\ seqs[i] \in Seq(Byte)
      OBVIOUS
  <2>1. ms[i] \in Messages
      BY <1>1, ElementOfSeq
  <2> QED
      BY <1>1, <1>2, <2>1, MessagesAreShort, FrameType
<1>4. Len(seqs) = n
    BY <1>1, <1>2
<1>5. Frames(ms) = FlattenSeq(seqs)
    BY <1>1 DEF Frames
<1>6. CASE n = 0
  <2>1. seqs = <<>>
      BY <1>1, <1>2, <1>6
  <2>2. Frames(ms) = <<>>
      BY <1>4, <1>5, <1>6, <2>1 DEF FlattenSeq
  <2> DEFINE r == [k \in 0 .. 0 |-> <<>>]
  <2>3. FramesTo(r, ms)
      BY <1>1, <1>6, <2>2 DEF FramesTo
  <2> QED
      BY <2>3
<1>7. CASE n # 0
  <2> DEFINE f == CHOOSE f : f = [i \in 1 .. Len(seqs) |->
                                   IF i = 1 THEN seqs[i] ELSE f[i - 1] \o seqs[i]]
  <2>1. JoinsTo(f, seqs, n)
    <3>1. \E q : JoinsTo(q, seqs, n)
        BY <1>2, JoinExists
    <3> QED
        BY <1>4, <3>1 DEF JoinsTo
  <2>2. Frames(ms) = f[n]
      BY <1>4, <1>5, <1>7 DEF FlattenSeq
  <2> HIDE DEF f
  <2>3. /\ f[1] = seqs[1]
        /\ \A k \in 2 .. n : f[k] = f[k - 1] \o seqs[k]
    <3>1. 1 \in 1 .. n /\ \A k \in 2 .. n : k \in 1 .. n /\ k # 1
        BY <1>2, <1>7
    <3>2. \A k \in 1 .. n : f[k] = IF k = 1 THEN seqs[k] ELSE f[k - 1] \o seqs[k]
        BY <2>1 DEF JoinsTo
    <3>3. f[1] = seqs[1]
        BY <3>1, <3>2
    <3>4. ASSUME NEW k \in 2 .. n PROVE f[k] = f[k - 1] \o seqs[k]
        BY <3>1, <3>2
    <3> QED
        BY <3>3, <3>4
  <2> DEFINE r == [k \in 0 .. n |-> IF k = 0 THEN <<>> ELSE f[k]]
             S == {k \in 0 .. n : r[k] \in Seq(Byte)}
  <2>4. r[0] = <<>> /\ \A k \in 1 .. n : r[k] = f[k]
      BY <1>2
  <2>5. r[1] = r[0] \o seqs[1]
    <3>1. 1 \in 1 .. n /\ seqs[1] \in Seq(Byte)
        BY <1>2, <1>3, <1>7
    <3>2. <<>> \o seqs[1] = seqs[1]
        BY <3>1, ConcatEmptySeq
    <3> QED
        BY <2>3, <2>4, <3>1, <3>2
  <2>6. ASSUME NEW k \in 1 .. n PROVE r[k] = r[k - 1] \o seqs[k]
    <3>1. CASE k = 1
      <4>1. k - 1 = 0
          BY <3>1
      <4> QED
          BY <2>5, <3>1, <4>1
    <3>2. CASE k # 1
      <4>1. k \in 2 .. n /\ k - 1 \in 1 .. n
          BY <1>2, <3>2
      <4> QED
          BY <2>3, <2>4, <4>1
    <3> QED
        BY <3>1, <3>2
  <2>7. r = [k \in 0 .. n |-> r[k]]
      OBVIOUS
  <2> HIDE DEF r
  <2>8. 0 \in S
    <3>1. <<>> \in Seq(Byte) /\ 0 \in 0 .. n
        BY <1>2, EmptySeq
    <3>2. r[0] \in Seq(Byte)
        BY <2>4, <3>1
    <3> QED
        BY <3>1, <3>2
  <2>9. ASSUME NEW k \in 0 .. n - 1, k \in S PROVE k + 1 \in S
    <3>1. k + 1 \in 1 .. n /\ (k + 1) - 1 = k /\ k + 1 \in 0 .. n
        BY <1>2
    <3>2. r[k + 1] = r[k] \o seqs[k + 1] /\ seqs[k + 1] \in Seq(Byte) /\ r[k] \in Seq(Byte)
        BY <1>3, <2>6, <2>9, <3>1
    <3>3. r[k + 1] \in Seq(Byte)
        BY <3>2, ConcatProperties
    <3> QED
        BY <3>1, <3>3
  <2> HIDE DEF S
  <2>10. \A k \in 0 .. n : k \in S
      BY <1>2, <2>8, <2>9, CountUp
  <2>11. r \in [0 .. n -> Seq(Byte)]
      BY <2>7, <2>10 DEF S
  <2>12. r[n] = f[n]
      BY <1>2, <1>7, <2>4
  <2>13. \A k \in 1 .. n : r[k] = r[k - 1] \o Frame(ms[k])
      BY <1>3, <2>6
  <2>14. FramesTo(r, ms)
      BY <1>1, <2>2, <2>4, <2>11, <2>12, <2>13 DEF FramesTo
  <2> QED
      BY <2>14
<1> QED
    BY <1>6, <1>7

\* The frames of messages are bytes.
LEMMA FramesType ==
    ASSUME NEW ms \in Seq(Messages)
    PROVE  Frames(ms) \in Seq(Byte)
<1>1. PICK r : FramesTo(r, ms)
    BY FramesExist
<1>2. Len(ms) \in 0 .. Len(ms)
    BY LenProperties
<1> QED
    BY <1>1, <1>2 DEF FramesTo

\* No messages, no bytes.
LEMMA FramesOfNone == Frames(<<>>) = <<>>
<1>1. <<>> \in Seq(Messages) /\ Len(<<>>) = 0
    BY EmptySeq
<1>2. PICK r : FramesTo(r, <<>>)
    BY <1>1, FramesExist
<1> QED
    BY <1>1, <1>2 DEF FramesTo

\* One message, one frame.
LEMMA FramesOfOne ==
    ASSUME NEW message \in Messages
    PROVE  Frames(<<message>>) = Frame(message)
<1>1. PICK ms : ms = <<message>>
    OBVIOUS
<1>2. ms \in Seq(Messages) /\ Len(ms) = 1 /\ ms[1] = message
    BY <1>1
<1>3. PICK r : FramesTo(r, ms)
    BY <1>2, FramesExist
<1>4. r[0] = <<>> /\ r[1] = r[1 - 1] \o Frame(message) /\ Frames(ms) = r[1]
    BY <1>2, <1>3 DEF FramesTo
<1>5. Frame(message) \in Seq(Byte)
    BY MessagesAreShort, FrameType
<1>6. <<>> \o Frame(message) = Frame(message)
    BY <1>5, ConcatEmptySeq
<1>7. 1 - 1 = 0
    OBVIOUS
<1> QED
    BY <1>1, <1>4, <1>6, <1>7

\* Joining sequences is associative.
LEMMA JoinThree ==
    ASSUME NEW S, NEW a \in Seq(S), NEW b \in Seq(S), NEW c \in Seq(S)
    PROVE  (a \o b) \o c = a \o (b \o c)
BY ConcatAssociative

\* The frames of messages joined are the frames of both, joined.
LEMMA FramesOfBoth ==
    ASSUME NEW ms \in Seq(Messages), NEW ns \in Seq(Messages)
    PROVE  Frames(ms \o ns) = Frames(ms) \o Frames(ns)
<1>1. PICK both, m, n : both = ms \o ns /\ m = Len(ms) /\ n = Len(ns)
    OBVIOUS
<1>2. m \in Nat /\ n \in Nat
    BY <1>1, LenProperties
<1>3. /\ both \in Seq(Messages) /\ Len(both) = m + n
      /\ \A i \in 1 .. m : both[i] = ms[i]
      /\ \A i \in 1 .. n : both[m + i] = ns[i]
  <2>1. /\ ms \o ns \in Seq(Messages) /\ Len(ms \o ns) = Len(ms) + Len(ns)
        /\ \A i \in 1 .. Len(ms) + Len(ns) :
             (ms \o ns)[i] = IF i <= Len(ms) THEN ms[i] ELSE ns[i - Len(ms)]
      BY ConcatProperties
  <2>2. /\ \A i \in 1 .. m : i \in 1 .. m + n /\ i <= m
        /\ \A i \in 1 .. n : m + i \in 1 .. m + n /\ ~(m + i <= m) /\ (m + i) - m = i
      BY <1>2
  <2> QED
      BY <1>1, <2>1, <2>2
<1>4. PICK p : FramesTo(p, ms)
    BY FramesExist
<1>5. PICK q : FramesTo(q, ns)
    BY FramesExist
<1>6. PICK r : FramesTo(r, both)
    BY <1>3, FramesExist
<1> DEFINE S == {k \in 0 .. m : r[k] = p[k]}
           T == {k \in 0 .. n : r[m + k] = p[m] \o q[k]}
<1>7. 0 \in S
    BY <1>2, <1>4, <1>6 DEF FramesTo
<1>8. ASSUME NEW k \in 0 .. m - 1, k \in S PROVE k + 1 \in S
  <2>1. k + 1 \in 1 .. m /\ k + 1 \in 1 .. m + n /\ (k + 1) - 1 = k /\ k + 1 \in 0 .. m
      BY <1>2
  <2>2. p[k + 1] = p[k] \o Frame(ms[k + 1])
      BY <1>1, <1>4, <2>1 DEF FramesTo
  <2>3. r[k + 1] = r[k] \o Frame(both[k + 1])
      BY <1>3, <1>6, <2>1 DEF FramesTo
  <2> QED
      BY <1>3, <1>8, <2>1, <2>2, <2>3
<1> HIDE DEF S
<1>9. \A k \in 0 .. m : k \in S
    BY <1>2, <1>7, <1>8, CountUp
<1>10. r[m] = p[m] /\ p[m] \in Seq(Byte)
  <2>1. m \in 0 .. m
      BY <1>2
  <2> QED
      BY <1>1, <1>4, <1>9, <2>1 DEF S, FramesTo
<1>11. 0 \in T
  <2>1. m + 0 = m /\ 0 \in 0 .. n
      BY <1>2
  <2>2. q[0] = <<>>
      BY <1>5 DEF FramesTo
  <2>3. p[m] \o <<>> = p[m]
      BY <1>10, ConcatEmptySeq
  <2> QED
      BY <1>10, <2>1, <2>2, <2>3
<1>12. ASSUME NEW k \in 0 .. n - 1, k \in T PROVE k + 1 \in T
  <2>1. /\ k + 1 \in 1 .. n /\ m + (k + 1) \in 1 .. m + n /\ (k + 1) - 1 = k /\ k + 1 \in 0 .. n
        /\ (m + (k + 1)) - 1 = m + k /\ k \in 0 .. n
      BY <1>2
  <2>2. PICK f : f = Frame(ns[k + 1])
      OBVIOUS
  <2>3. q[k + 1] = q[k] \o f /\ q[k] \in Seq(Byte)
      BY <1>1, <1>5, <2>1, <2>2 DEF FramesTo
  <2>4. r[m + (k + 1)] = r[m + k] \o f
      BY <1>3, <1>6, <2>1, <2>2 DEF FramesTo
  <2>5. f \in Seq(Byte)
    <3>1. ns[k + 1] \in Messages
        BY <1>1, <2>1, ElementOfSeq
    <3> QED
        BY <2>2, <3>1, MessagesAreShort, FrameType
  <2>6. PICK a, b : a = p[m] /\ b = q[k]
      OBVIOUS
  <2>7. a \in Seq(Byte) /\ b \in Seq(Byte)
      BY <1>10, <2>3, <2>6
  <2>8. (a \o b) \o f = a \o (b \o f)
      BY <2>5, <2>7, JoinThree
  <2>9. r[m + k] = a \o b
      BY <1>12, <2>6
  <2> QED
      BY <2>1, <2>3, <2>4, <2>6, <2>8, <2>9
<1> HIDE DEF T
<1>13. \A k \in 0 .. n : k \in T
    BY <1>2, <1>11, <1>12, CountUp
<1>14. r[m + n] = p[m] \o q[n]
  <2>1. n \in 0 .. n
      BY <1>2
  <2> QED
      BY <1>13, <2>1 DEF T
<1> QED
    BY <1>1, <1>3, <1>4, <1>5, <1>6, <1>14 DEF FramesTo

-----------------------------------------------------------------------------
(* Streams that are framed *)

\* The bytes of a stream are the frames of what was promised
Framed(stream) == stream.buffer \o stream.wire = Frames(stream.promised)
Good(stream) == stream \in StreamType /\ Framed(stream)

\* A sequence is joined of two others, of known lengths
JoinedOf(S, s, a, b, la, lb) ==
    /\ s \in Seq(S) /\ b \in Seq(S) /\ la \in Nat /\ lb \in Nat
    /\ lb = Len(b) /\ Len(s) = la + lb
    /\ \A i \in 1 .. la + lb : s[i] = IF i <= la THEN a[i] ELSE b[i - la]

\* Without its front, what was joined is the back.
LEMMA DropParts ==
    ASSUME NEW S, NEW a, NEW b, NEW s, NEW la, NEW lb, JoinedOf(S, s, a, b, la, lb)
    PROVE  SubSeq(s, la + 1, la + lb) = b
<1>1. /\ s \in Seq(S) /\ b \in Seq(S) /\ la \in Nat /\ lb \in Nat
      /\ lb = Len(b) /\ Len(s) = la + lb
      /\ \A i \in 1 .. la + lb : s[i] = IF i <= la THEN a[i] ELSE b[i - la]
    BY DEF JoinedOf
<1>4. \A i \in la + 1 .. la + lb : i \in 1 .. Len(s)
    BY <1>1
<1>5. \A i \in la + 1 .. la + lb : s[i] \in S
    BY <1>1, <1>4, ElementOfSeq
<1>6. PICK m, n, d : m = la + 1 /\ n = la + lb /\ d = SubSeq(s, m, n)
    OBVIOUS
<1>7. m \in Int /\ n \in Int
    BY <1>1, <1>6
<1>12. \A i \in m .. n : s[i] \in S
    BY <1>5, <1>6
<1>8. /\ d \in Seq(S) /\ Len(d) = IF m <= n THEN n - m + 1 ELSE 0
      /\ \A i \in 1 .. n - m + 1 : d[i] = s[m + i - 1]
  <2>1. /\ SubSeq(s, m, n) \in Seq(S) /\ Len(SubSeq(s, m, n)) = IF m <= n THEN n - m + 1 ELSE 0
        /\ \A i \in 1 .. n - m + 1 : SubSeq(s, m, n)[i] = s[m + i - 1]
      BY <1>7, <1>12, SubSeqProperties
  <2> QED
      BY <1>6, <2>1
<1>9. n - m + 1 = lb /\ (~(m <= n) => lb = 0)
    BY <1>1, <1>6
<1>10. ASSUME NEW i \in 1 .. lb PROVE d[i] = b[i]
  <2>1. m + i - 1 \in 1 .. la + lb /\ ~(m + i - 1 <= la) /\ (m + i - 1) - la = i
      BY <1>1, <1>6
  <2> QED
      BY <1>1, <1>8, <1>9, <2>1
<1>11. Len(d) = lb
    BY <1>1, <1>8, <1>9
<1>13. d = b
    BY <1>1, <1>8, <1>10, <1>11, SeqEqual
<1> QED
    BY <1>6, <1>13

\* Without its front, what was joined is the back, by their lengths.
LEMMA DropFront ==
    ASSUME NEW S, NEW a \in Seq(S), NEW b \in Seq(S), NEW s, s = a \o b
    PROVE  SubSeq(s, Len(a) + 1, Len(s)) = b
<1>1. PICK la, lb : la = Len(a) /\ lb = Len(b)
    OBVIOUS
<1>2. la \in Nat /\ lb \in Nat
    BY <1>1, LenProperties
<1>3. /\ s \in Seq(S) /\ Len(s) = la + lb
      /\ \A i \in 1 .. la + lb : s[i] = IF i <= la THEN a[i] ELSE b[i - la]
    BY <1>1, ConcatProperties
<1>5. JoinedOf(S, s, a, b, la, lb)
    BY <1>1, <1>2, <1>3 DEF JoinedOf
<1>4. SubSeq(s, la + 1, la + lb) = b
    BY <1>5, DropParts
<1> QED
    BY <1>1, <1>3, <1>4

\* A sequence that is not empty is its first element and the rest.
LEMMA FirstAndRest ==
    ASSUME NEW S, NEW s \in Seq(S), s # <<>>
    PROVE  /\ Head(s) \in S /\ Tail(s) \in Seq(S) /\ s = <<Head(s)>> \o Tail(s)
           /\ Len(s) \in Nat /\ Len(s) > 0 /\ Len(Tail(s)) = Len(s) - 1
<1>1. Head(s) \in S /\ Tail(s) \in Seq(S) /\ Len(Tail(s)) = Len(s) - 1
      /\ \A i \in 1 .. Len(Tail(s)) : Tail(s)[i] = s[i + 1]
    BY HeadTailProperties
<1>2. PICK l : l = Len(s)
    OBVIOUS
<1>3. l \in Nat /\ l > 0
    BY <1>2, EmptySeq, LenProperties
<1>4. Head(s) = s[1]
    OBVIOUS
<1>5. PICK h, t : h = <<Head(s)>> /\ t = Tail(s)
    OBVIOUS
<1>6. h \in Seq(S) /\ Len(h) = 1 /\ h[1] = s[1]
    BY <1>1, <1>4, <1>5
<1>7. t \in Seq(S) /\ Len(t) = l - 1 /\ \A i \in 1 .. l - 1 : t[i] = s[i + 1]
    BY <1>1, <1>2, <1>5
<1>8. h \o t \in Seq(S) /\ Len(h \o t) = 1 + (l - 1)
      /\ \A i \in 1 .. 1 + (l - 1) : (h \o t)[i] = IF i <= 1 THEN h[i] ELSE t[i - 1]
  <2>1. PICK lh, lt : lh = Len(h) /\ lt = Len(t)
      OBVIOUS
  <2>2. h \in Seq(S) /\ t \in Seq(S)
      BY <1>6, <1>7
  <2>3. h \o t \in Seq(S) /\ Len(h \o t) = lh + lt
        /\ \A i \in 1 .. lh + lt : (h \o t)[i] = IF i <= lh THEN h[i] ELSE t[i - lh]
      BY <2>1, <2>2, ConcatProperties
  <2>4. lh = 1 /\ lt = l - 1
      BY <1>6, <1>7, <2>1
  <2> QED
      BY <2>3, <2>4
<1>9. ASSUME NEW i \in 1 .. l PROVE (h \o t)[i] = s[i]
  <2>1. i \in 1 .. 1 + (l - 1)
      BY <1>3
  <2>2. CASE i = 1
      BY <1>6, <1>8, <2>1, <2>2
  <2>3. CASE i # 1
    <3>1. ~(i <= 1) /\ i - 1 \in 1 .. l - 1 /\ (i - 1) + 1 = i
        BY <1>3, <2>3
    <3> QED
        BY <1>7, <1>8, <2>1, <3>1
  <2> QED
      BY <2>2, <2>3
<1>10. 1 + (l - 1) = l
    BY <1>3
<1>11. h \o t = s
    BY <1>2, <1>8, <1>9, <1>10, SeqEqual
<1> QED
    BY <1>1, <1>2, <1>3, <1>5, <1>11

\* A stream is its three parts.
LEMMA StreamParts ==
    /\ \A s \in StreamType : /\ s.wire \in Seq(Byte) /\ s.buffer \in Seq(Byte)
                             /\ s.promised \in Seq(Messages)
                             /\ s = [wire |-> s.wire, buffer |-> s.buffer, promised |-> s.promised]
    /\ \A w, b \in Seq(Byte), p \in Seq(Messages) :
          [wire |-> w, buffer |-> b, promised |-> p] \in StreamType
BY DEF StreamType

\* Three parts make a stream.
LEMMA StreamMade ==
    ASSUME NEW w \in Seq(Byte), NEW b \in Seq(Byte), NEW p \in Seq(Messages)
    PROVE  [wire |-> w, buffer |-> b, promised |-> p] \in StreamType
BY DEF StreamType

\* The stream of a new connection is framed.
LEMMA NoStreamGood == Good(NoStream) /\ NoStream.promised = <<>> /\ NoStream.wire = <<>>
<1>1. <<>> \in Seq(Byte) /\ <<>> \in Seq(Messages)
    BY EmptySeq
<1>2. NoStream \in StreamType
    BY <1>1 DEF NoStream, StreamType
<1>3. <<>> \o <<>> = <<>>
    BY <1>1, ConcatEmptySeq
<1> QED
    BY <1>2, <1>3, FramesOfNone DEF Good, Framed, NoStream

\* send keeps a stream framed, and promises the messages.
LEMMA SentGood ==
    ASSUME NEW s, Good(s), NEW ms \in Seq(Messages)
    PROVE  Good(Sent(s, ms)) /\ Sent(s, ms).promised = s.promised \o ms
<1>1. PICK w, b, p : w = s.wire /\ b = s.buffer /\ p = s.promised
    OBVIOUS
<1>2. /\ w \in Seq(Byte) /\ b \in Seq(Byte) /\ p \in Seq(Messages)
      /\ s = [wire |-> w, buffer |-> b, promised |-> p]
    BY <1>1, StreamParts DEF Good
<1>3. PICK f, g : f = Frames(ms) /\ g = Frames(p)
    OBVIOUS
<1>4. f \in Seq(Byte) /\ g \in Seq(Byte)
    BY <1>2, <1>3, FramesType
<1>5. Sent(s, ms) = [wire |-> w \o f, buffer |-> b, promised |-> p \o ms]
    BY <1>1, <1>3 DEF Sent
<1>6. w \o f \in Seq(Byte) /\ p \o ms \in Seq(Messages)
    BY <1>2, <1>4, ConcatProperties
<1>7. Sent(s, ms) \in StreamType
  <2>1. PICK x, y : x = w \o f /\ y = p \o ms
      OBVIOUS
  <2>2. x \in Seq(Byte) /\ y \in Seq(Messages) /\ b \in Seq(Byte)
      BY <1>2, <1>6, <2>1
  <2>3. [wire |-> x, buffer |-> b, promised |-> y] \in StreamType
      BY <2>2, StreamMade
  <2> QED
      BY <1>5, <2>1, <2>3
<1>8. b \o (w \o f) = (b \o w) \o f
  <2>1. b \in Seq(Byte) /\ w \in Seq(Byte) /\ f \in Seq(Byte)
      BY <1>2, <1>4
  <2> QED
      BY <2>1, JoinThree
<1>9. b \o w = g
    BY <1>1, <1>3 DEF Good, Framed
<1>10. Frames(p \o ms) = g \o f
    BY <1>2, <1>3, FramesOfBoth
<1>11. PICK t : t = Sent(s, ms)
    OBVIOUS
<1>12. t.wire = w \o f /\ t.buffer = b /\ t.promised = p \o ms
    BY <1>5, <1>11
<1>13. t.buffer \o t.wire = Frames(t.promised)
    BY <1>8, <1>9, <1>10, <1>12, Zenon
<1> QED
    BY <1>1, <1>7, <1>11, <1>12, <1>13 DEF Good, Framed

\* Bytes that arrive keep a stream framed.
LEMMA ArrivedGood ==
    ASSUME NEW s, Good(s), NEW n \in 0 .. Len(s.wire)
    PROVE  Good(Arrived(s, n)) /\ Arrived(s, n).promised = s.promised
<1>1. PICK w, b, p : w = s.wire /\ b = s.buffer /\ p = s.promised
    OBVIOUS
<1>2. /\ w \in Seq(Byte) /\ b \in Seq(Byte) /\ p \in Seq(Messages)
      /\ s = [wire |-> w, buffer |-> b, promised |-> p]
    BY <1>1, StreamParts DEF Good
<1>3. PICK c, d : c = SubSeq(w, 1, n) /\ d = SubSeq(w, n + 1, Len(w))
    OBVIOUS
<1>4. c \in Seq(Byte) /\ d \in Seq(Byte) /\ c \o d = w
    BY <1>1, <1>2, <1>3, CutInTwo
<1>5. Arrived(s, n) = [wire |-> d, buffer |-> b \o c, promised |-> p]
    BY <1>1, <1>3 DEF Arrived
<1>6. b \o c \in Seq(Byte)
    BY <1>2, <1>4, ConcatProperties
<1>7. Arrived(s, n) \in StreamType
  <2>1. PICK x : x = b \o c
      OBVIOUS
  <2>2. x \in Seq(Byte) /\ d \in Seq(Byte) /\ p \in Seq(Messages)
      BY <1>2, <1>4, <1>6, <2>1
  <2>3. [wire |-> d, buffer |-> x, promised |-> p] \in StreamType
      BY <2>2, StreamMade
  <2> QED
      BY <1>5, <2>1, <2>3
<1>8. (b \o c) \o d = b \o (c \o d)
  <2>1. b \in Seq(Byte) /\ c \in Seq(Byte) /\ d \in Seq(Byte)
      BY <1>2, <1>4
  <2> QED
      BY <2>1, JoinThree
<1>11. PICK t : t = Arrived(s, n)
    OBVIOUS
<1>12. t.wire = d /\ t.buffer = b \o c /\ t.promised = p
    BY <1>5, <1>11
<1>13. b \o w = Frames(p)
    BY <1>1 DEF Good, Framed
<1>14. t.buffer \o t.wire = Frames(t.promised)
    BY <1>4, <1>8, <1>12, <1>13, Zenon
<1> QED
    BY <1>1, <1>7, <1>11, <1>12, <1>14 DEF Good, Framed

\* Handing over messages that were promised keeps a stream framed.
LEMMA HandedGood ==
    ASSUME NEW s \in StreamType, NEW ms \in Seq(Messages), NEW later \in Seq(Messages),
           NEW rest \in Seq(Byte), s.promised = ms \o later, rest \o s.wire = Frames(later)
    PROVE  /\ Handed(s, ms, rest) =
                [messages |-> ms, stream |-> [wire |-> s.wire, buffer |-> rest, promised |-> later]]
           /\ Good(Handed(s, ms, rest).stream)
<1>1. PICK w, b, p : w = s.wire /\ b = s.buffer /\ p = s.promised
    OBVIOUS
<1>2. w \in Seq(Byte) /\ p \in Seq(Messages) /\ s = [wire |-> w, buffer |-> b, promised |-> p]
    BY <1>1, StreamParts
<1>3. SubSeq(p, Len(ms) + 1, Len(p)) = later
    BY <1>1, DropFront
<1>4. Handed(s, ms, rest) =
        [messages |-> ms, stream |-> [wire |-> w, buffer |-> rest, promised |-> later]]
    BY <1>1, <1>3 DEF Handed
<1>5. [wire |-> w, buffer |-> rest, promised |-> later] \in StreamType
    BY <1>2 DEF StreamType
<1>6. Framed([wire |-> w, buffer |-> rest, promised |-> later])
    BY <1>1 DEF Framed
<1> QED
    BY <1>1, <1>4, <1>5, <1>6 DEF Good

-----------------------------------------------------------------------------
(* What is received of a framed stream *)

\* Bytes b received and more to come are together the frames of messages p
Cut(b, more, p) ==
    /\ b \in Seq(Byte) /\ more \in Seq(Byte) /\ p \in Seq(Messages)
    /\ b \o more = Frames(p)

\* What is joined to nothing was nothing.
LEMMA NothingJoined ==
    ASSUME NEW b \in Seq(Byte), NEW more \in Seq(Byte), NEW f, f = b \o more, f = <<>>
    PROVE  b = <<>>
<1>1. PICK l, n : l = Len(b) /\ n = Len(more)
    OBVIOUS
<1>2. l \in Nat /\ n \in Nat
    BY <1>1, LenProperties
<1>3. Len(f) = l + n
    BY <1>1, ConcatProperties
<1>4. Len(f) = 0
    OBVIOUS
<1>5. l = 0
    BY <1>2, <1>3, <1>4
<1> QED
    BY <1>1, <1>5, EmptySeq

\* If messages are promised, the bytes begin with the frame of the first.
LEMMA SomeAreFramed ==
    ASSUME NEW b, NEW more, NEW p, Cut(b, more, p), p # <<>>
    PROVE  /\ Head(p) \in Messages /\ Short(Head(p)) /\ Tail(p) \in Seq(Messages)
           /\ Frames(Tail(p)) \in Seq(Byte) /\ p = <<Head(p)>> \o Tail(p)
           /\ b \o more = Frame(Head(p)) \o Frames(Tail(p))
<1>1. p \in Seq(Messages) /\ b \o more = Frames(p)
    BY DEF Cut
<1>2. Head(p) \in Messages /\ Tail(p) \in Seq(Messages) /\ p = <<Head(p)>> \o Tail(p)
    BY <1>1, FirstAndRest
<1>3. PICK m, t, o : m = Head(p) /\ t = Tail(p) /\ o = <<m>>
    OBVIOUS
<1>4. m \in Messages /\ t \in Seq(Messages) /\ o \in Seq(Messages)
    BY <1>2, <1>3
<1>5. Short(m) /\ Frames(t) \in Seq(Byte) /\ Frames(o) = Frame(m)
    BY <1>3, <1>4, MessagesAreShort, FramesType, FramesOfOne
<1>6. Frames(o \o t) = Frames(o) \o Frames(t)
    BY <1>4, FramesOfBoth
<1>7. Frames(p) = Frame(m) \o Frames(t)
    BY <1>2, <1>3, <1>5, <1>6, Zenon
<1> QED
    BY <1>1, <1>2, <1>3, <1>5, <1>7, Zenon

\* A whole message in the buffer is that which starts there
Starts(b, more, message, rest) ==
    /\ b \in Seq(Byte) /\ more \in Seq(Byte) /\ Short(message) /\ rest \in Seq(Byte)
    /\ b \o more = Frame(message) \o rest

\* FirstTaken, for bytes that start with a message.
LEMMA FirstOf ==
    ASSUME NEW b, NEW more, NEW message, NEW rest, Starts(b, more, message, rest)
    PROVE  /\ Whole(b) => /\ First(b) = message
                          /\ AfterFirst(b) \in Seq(Byte)
                          /\ AfterFirst(b) \o more = rest
           /\ more = <<>> => Whole(b)
<1>1. b \in Seq(Byte) /\ more \in Seq(Byte) /\ rest \in Seq(Byte)
    BY DEF Starts
<1>2. Short(message)
    BY DEF Starts
<1>3. b \o more = Frame(message) \o rest
    BY DEF Starts
<1> QED
    BY <1>1, <1>2, <1>3, FirstTaken

\* A whole message in the buffer is the first that is promised
LEMMA WholeTaken ==
    ASSUME NEW b, NEW more, NEW p, Cut(b, more, p), Whole(b)
    PROVE  p # <<>> /\ First(b) = Head(p) /\ Cut(AfterFirst(b), more, Tail(p))
<1>1. b \in Seq(Byte) /\ more \in Seq(Byte) /\ p \in Seq(Messages) /\ b \o more = Frames(p)
    BY DEF Cut
<1>2. p # <<>>
  <2> SUFFICES ASSUME p = <<>> PROVE FALSE
      OBVIOUS
  <2>1. Frames(p) = <<>>
      BY FramesOfNone
  <2>2. b = <<>>
      BY <1>1, <2>1, NothingJoined, Zenon
  <2> QED
      BY <2>2, NothingIsNotWhole
<1>3. /\ Head(p) \in Messages /\ Short(Head(p)) /\ Tail(p) \in Seq(Messages)
      /\ Frames(Tail(p)) \in Seq(Byte)
      /\ b \o more = Frame(Head(p)) \o Frames(Tail(p))
    BY <1>2, SomeAreFramed
<1>4. /\ First(b) = Head(p) /\ AfterFirst(b) \in Seq(Byte)
      /\ AfterFirst(b) \o more = Frames(Tail(p))
  <2>1. PICK m, rest : m = Head(p) /\ rest = Frames(Tail(p))
      OBVIOUS
  <2>2. /\ b \in Seq(Byte) /\ more \in Seq(Byte) /\ Short(m) /\ rest \in Seq(Byte)
        /\ b \o more = Frame(m) \o rest
      BY <1>1, <1>3, <2>1, Zenon
  <2>3. Starts(b, more, m, rest)
      BY <2>2, Zenon DEF Starts
  <2>4. First(b) = m /\ AfterFirst(b) \in Seq(Byte) /\ AfterFirst(b) \o more = rest
      BY <2>3, FirstOf
  <2> QED
      BY <2>1, <2>4, Zenon
<1> QED
    BY <1>1, <1>2, <1>3, <1>4 DEF Cut

\* When nothing is to come, a message that is promised is whole
LEMMA PromisedIsWhole ==
    ASSUME NEW b, NEW p, Cut(b, <<>>, p), p # <<>>
    PROVE  Whole(b)
<1>1. b \in Seq(Byte) /\ <<>> \in Seq(Byte)
    BY DEF Cut
<1>2. /\ Short(Head(p)) /\ Frames(Tail(p)) \in Seq(Byte)
      /\ b \o <<>> = Frame(Head(p)) \o Frames(Tail(p))
    BY SomeAreFramed
<1> QED
  <2>1. PICK none, m, rest : none = <<>> /\ m = Head(p) /\ rest = Frames(Tail(p))
      OBVIOUS
  <2>2. Starts(b, none, m, rest)
      BY <1>1, <1>2, <2>1, Zenon DEF Starts
  <2> QED
      BY <2>1, <2>2, FirstOf

\* The buffer is split into messages ms, of those that are promised, and the rest;
\* those that come later are still promised
Parts(b, more, p, ms, rest, later) ==
    /\ Split[b] = [messages |-> ms, rest |-> rest]
    /\ ms \in Seq(Messages) /\ later \in Seq(Messages) /\ ms \o later = p
    /\ Cut(rest, more, later)
    /\ more = <<>> => later = <<>>

\* A buffer without a whole message is split into nothing and itself.
LEMMA SplitNone ==
    ASSUME NEW b, NEW more, NEW p, Cut(b, more, p), ~Whole(b)
    PROVE  Parts(b, more, p, <<>>, b, p)
<1>1. b \in Seq(Byte) /\ p \in Seq(Messages) /\ <<>> \in Seq(Messages)
    BY DEF Cut
<1>2. Split[b] = [messages |-> <<>>, rest |-> b]
    BY <1>1, SplitUnfolds
<1>3. <<>> \o p = p
    BY <1>1, ConcatEmptySeq
<1>4. more = <<>> => p = <<>>
    BY PromisedIsWhole
<1> QED
    BY <1>1, <1>2, <1>3, <1>4 DEF Parts

\* Splitting off the first message, when the rest is split.
LEMMA SplitSome ==
    ASSUME NEW b, NEW more, NEW p, Cut(b, more, p), Whole(b), NEW ms, NEW rest, NEW later,
           Parts(AfterFirst(b), more, Tail(p), ms, rest, later)
    PROVE  Parts(b, more, p, <<Head(p)>> \o ms, rest, later)
<1>1. b \in Seq(Byte)
    BY DEF Cut
<1>2. p # <<>> /\ First(b) = Head(p)
    BY WholeTaken
<1>3. Head(p) \in Messages /\ Tail(p) \in Seq(Messages) /\ p = <<Head(p)>> \o Tail(p)
    BY <1>2, SomeAreFramed
<1>4. /\ Split[AfterFirst(b)] = [messages |-> ms, rest |-> rest]
      /\ ms \in Seq(Messages) /\ later \in Seq(Messages) /\ ms \o later = Tail(p)
      /\ Cut(rest, more, later) /\ (more = <<>> => later = <<>>)
    BY DEF Parts
<1>5. PICK o, all : o = <<Head(p)>> /\ all = o \o ms
    OBVIOUS
<1>6. o \in Seq(Messages)
    BY <1>3, <1>5
<1>7. all \in Seq(Messages)
    BY <1>4, <1>5, <1>6, ConcatProperties
<1>8. Split[b] = [messages |-> all, rest |-> rest]
  <2>1. Split[b] = [Split[AfterFirst(b)] EXCEPT !.messages = <<First(b)>> \o @]
      BY <1>1, SplitUnfolds
  <2>2. PICK r : r = Split[AfterFirst(b)]
      OBVIOUS
  <2>3. r = [messages |-> ms, rest |-> rest]
      BY <1>4, <2>2
  <2>4. PICK new : new = <<First(b)>> \o r.messages
      OBVIOUS
  <2>5. [r EXCEPT !.messages = new] = [messages |-> new, rest |-> rest]
      BY <2>3
  <2>6. r.messages = ms
      BY <2>3
  <2>7. new = all
      BY <1>2, <1>5, <2>4, <2>6, Zenon
  <2> QED
      BY <2>1, <2>2, <2>4, <2>5, <2>7, Zenon
<1>9. all \o later = p
  <2>0. o \in Seq(Messages) /\ ms \in Seq(Messages) /\ later \in Seq(Messages)
      BY <1>4, <1>6
  <2>1. (o \o ms) \o later = o \o (ms \o later)
      BY <2>0, JoinThree
  <2> QED
      BY <1>3, <1>4, <1>5, <2>1, Zenon
<1> QED
    BY <1>4, <1>5, <1>7, <1>8, <1>9 DEF Parts

\* However the bytes are cut, the buffer is split into the first messages promised.
LEMMA SplitParts ==
    ASSUME NEW b, NEW more, NEW p, Cut(b, more, p)
    PROVE  \E ms, rest, later : Parts(b, more, p, ms, rest, later)
<1>1. PICK n : n = Len(p)
    OBVIOUS
<1>2. p \in Seq(Messages) /\ n \in Nat
    BY <1>1, LenProperties DEF Cut
<1> DEFINE InParts(k) == \A x, q : Cut(x, more, q) /\ Len(q) = k =>
                            \E ms, rest, later : Parts(x, more, q, ms, rest, later)
           S == {k \in 0 .. n : InParts(k)}
<1>3. InParts(0)
  <2> SUFFICES ASSUME NEW x, NEW q, Cut(x, more, q), Len(q) = 0
               PROVE  \E ms, rest, later : Parts(x, more, q, ms, rest, later)
      OBVIOUS
  <2>1. q = <<>>
      BY EmptySeq DEF Cut
  <2>2. ~Whole(x)
      BY <2>1, WholeTaken
  <2> QED
      BY <2>2, SplitNone
<1>4. ASSUME NEW k \in 0 .. n - 1, InParts(k)
      PROVE  InParts(k + 1)
  <2> SUFFICES ASSUME NEW x, NEW q, Cut(x, more, q), Len(q) = k + 1
               PROVE  \E ms, rest, later : Parts(x, more, q, ms, rest, later)
      OBVIOUS
  <2>1. CASE ~Whole(x)
      BY <2>1, SplitNone
  <2>2. CASE Whole(x)
    <3>1. q # <<>> /\ Cut(AfterFirst(x), more, Tail(q))
        BY <2>2, WholeTaken
    <3>2. Len(Tail(q)) = k
      <4>1. q \in Seq(Messages)
          BY DEF Cut
      <4>2. Len(Tail(q)) = Len(q) - 1
          BY <3>1, <4>1, FirstAndRest
      <4>3. (k + 1) - 1 = k
          OBVIOUS
      <4> QED
          BY <4>2, <4>3
    <3>3. PICK ms, rest, later : Parts(AfterFirst(x), more, Tail(q), ms, rest, later)
        BY <1>4, <3>1, <3>2
    <3>4. Parts(x, more, q, <<Head(q)>> \o ms, rest, later)
        BY <2>2, <3>3, SplitSome
    <3> QED
        BY <3>4
  <2> QED
      BY <2>1, <2>2
<1> HIDE DEF InParts
<1>5. 0 \in S
    BY <1>2, <1>3
<1>6. \A k \in 0 .. n - 1 : k \in S => k + 1 \in S
    BY <1>2, <1>4
<1> HIDE DEF S
<1>7. \A k \in 0 .. n : k \in S
    BY <1>2, <1>5, <1>6, CountUp
<1>8. InParts(n)
    BY <1>2, <1>7 DEF S
<1> QED
    BY <1>1, <1>8 DEF InParts

\* A call of receive that takes nothing, or the next message promised
OneTakenOf(s, t) ==
    /\ Good(t.stream) /\ t.stream.wire = s.wire
    /\ \/ t.messages = <<>> /\ t.stream.promised = s.promised
       \/ /\ s.promised # <<>> /\ Head(s.promised) \in Messages
          /\ t.messages = <<Head(s.promised)>> /\ t.stream.promised = Tail(s.promised)

\* A framed stream is cut into what was received and what is to come.
LEMMA GoodIsCut ==
    ASSUME NEW s, Good(s)
    PROVE  s \in StreamType /\ Cut(s.buffer, s.wire, s.promised)
<1>1. s \in StreamType /\ s.buffer \o s.wire = Frames(s.promised)
    BY DEF Good, Framed
<1>2. s.wire \in Seq(Byte) /\ s.buffer \in Seq(Byte) /\ s.promised \in Seq(Messages)
    BY <1>1, StreamParts
<1> QED
    BY <1>1, <1>2 DEF Cut

\* A framed stream is about to hand over messages ms; later ones stay promised
Hands(s, ms, rest, later) ==
    /\ Good(s) /\ ms \in Seq(Messages) /\ ms \o later = s.promised
    /\ Cut(rest, s.wire, later)

\* The stream after messages were handed over is framed, and promises the later ones.
LEMMA HandedOver ==
    ASSUME NEW s, NEW ms, NEW later, NEW rest, Hands(s, ms, rest, later)
    PROVE  /\ Good(Handed(s, ms, rest).stream) /\ Handed(s, ms, rest).messages = ms
           /\ Handed(s, ms, rest).stream.promised = later
           /\ Handed(s, ms, rest).stream.wire = s.wire
<1>1. s \in StreamType /\ ms \in Seq(Messages) /\ s.promised = ms \o later
    BY GoodIsCut DEF Hands
<1>2. rest \in Seq(Byte) /\ later \in Seq(Messages) /\ rest \o s.wire = Frames(later)
    BY DEF Hands, Cut
<1>3. /\ Handed(s, ms, rest) =
            [messages |-> ms, stream |-> [wire |-> s.wire, buffer |-> rest, promised |-> later]]
      /\ Good(Handed(s, ms, rest).stream)
    BY <1>1, <1>2, HandedGood
<1> QED
    BY <1>3

\* A call of receive on a framed stream takes nothing, or the next message promised.
LEMMA OneTakenGood ==
    ASSUME NEW s, Good(s)
    PROVE  OneTakenOf(s, OneTaken(s))
<1>1. PICK b, w, p : b = s.buffer /\ w = s.wire /\ p = s.promised
    OBVIOUS
<1>2. Cut(b, w, p)
    BY <1>1, GoodIsCut
<1>3. p \in Seq(Messages) /\ <<>> \in Seq(Messages)
    BY <1>2 DEF Cut
<1>4. CASE ~Whole(b)
  <2>1. OneTaken(s) = Handed(s, <<>>, b)
      BY <1>1, <1>4 DEF OneTaken
  <2>2. <<>> \o p = p
      BY <1>3, ConcatEmptySeq
  <2>3. /\ Good(Handed(s, <<>>, b).stream) /\ Handed(s, <<>>, b).messages = <<>>
        /\ Handed(s, <<>>, b).stream.promised = p /\ Handed(s, <<>>, b).stream.wire = s.wire
    <3>1. Hands(s, <<>>, b, p)
        BY <1>1, <1>2, <1>3, <2>2, Zenon DEF Hands
    <3> QED
        BY <3>1, HandedOver
  <2> QED
      BY <1>1, <2>1, <2>3 DEF OneTakenOf
<1>5. CASE Whole(b)
  <2>1. p # <<>> /\ First(b) = Head(p) /\ Cut(AfterFirst(b), w, Tail(p))
      BY <1>2, <1>5, WholeTaken
  <2>2. PICK ms, rest, t : ms = <<First(b)>> /\ rest = AfterFirst(b) /\ t = Tail(p)
      OBVIOUS
  <2>3. OneTaken(s) = Handed(s, ms, rest)
      BY <1>1, <1>5, <2>2 DEF OneTaken
  <2>4. Head(p) \in Messages /\ p = <<Head(p)>> \o Tail(p)
      BY <1>3, <2>1, FirstAndRest
  <2>5. ms \in Seq(Messages)
      BY <2>1, <2>2, <2>4
  <2>6. ms \o t = p
      BY <2>1, <2>2, <2>4, Zenon
  <2>7. /\ Good(Handed(s, ms, rest).stream) /\ Handed(s, ms, rest).messages = ms
        /\ Handed(s, ms, rest).stream.promised = t /\ Handed(s, ms, rest).stream.wire = s.wire
    <3>1. Hands(s, ms, rest, t)
        BY <1>1, <2>1, <2>2, <2>5, <2>6, Zenon DEF Hands
    <3> QED
        BY <3>1, HandedOver
  <2> QED
      BY <1>1, <2>1, <2>2, <2>3, <2>4, <2>7 DEF OneTakenOf
<1> QED
    BY <1>4, <1>5

\* receive until there is nothing: all that was taken was promised, in order
AllTakenOf(s, t) ==
    /\ Good(t.stream) /\ t.stream.wire = s.wire /\ t.messages \in Seq(Messages)
    /\ t.stream.promised \in Seq(Messages) /\ t.messages \o t.stream.promised = s.promised

\* All that is received of a framed stream was promised, in order.
LEMMA AllTakenGood ==
    ASSUME NEW s, Good(s)
    PROVE  AllTakenOf(s, AllTaken(s))
<1>1. PICK b, w, p : b = s.buffer /\ w = s.wire /\ p = s.promised
    OBVIOUS
<1>2. Cut(b, w, p)
    BY <1>1, GoodIsCut
<1>3. PICK ms, rest, later : Parts(b, w, p, ms, rest, later)
    BY <1>2, SplitParts
<1>4. /\ Split[b] = [messages |-> ms, rest |-> rest]
      /\ ms \in Seq(Messages) /\ later \in Seq(Messages) /\ ms \o later = p
      /\ Cut(rest, w, later)
    BY <1>3 DEF Parts
<1>5. AllTaken(s) = Handed(s, ms, rest)
    BY <1>1, <1>4 DEF AllTaken
<1>6. /\ Good(Handed(s, ms, rest).stream) /\ Handed(s, ms, rest).messages = ms
      /\ Handed(s, ms, rest).stream.promised = later
      /\ Handed(s, ms, rest).stream.wire = s.wire
  <2>1. Hands(s, ms, rest, later)
      BY <1>1, <1>4, Zenon DEF Hands
  <2> QED
      BY <2>1, HandedOver
<1> QED
    BY <1>1, <1>4, <1>5, <1>6, Zenon DEF AllTakenOf

\* What a framed stream will hand over is what was promised: no message is lost, cut
\* short or run together with the next.
LEMMA ContentsPromised ==
    ASSUME NEW s, Good(s)
    PROVE  Contents(s) = s.promised
<1>1. PICK b, p : b = s.buffer \o s.wire /\ p = s.promised
    OBVIOUS
<1>2. s.buffer \in Seq(Byte) /\ s.wire \in Seq(Byte) /\ p \in Seq(Messages) /\ b = Frames(p)
    BY <1>1, GoodIsCut DEF Cut
<1>3. b \in Seq(Byte) /\ <<>> \in Seq(Byte)
    BY <1>2, FramesType
<1>4. b \o <<>> = b
    BY <1>3, ConcatEmptySeq
<1>5. Cut(b, <<>>, p)
    BY <1>2, <1>3, <1>4, Zenon DEF Cut
<1>6. PICK ms, rest, later : Parts(b, <<>>, p, ms, rest, later)
    BY <1>5, SplitParts
<1>7. Split[b] = [messages |-> ms, rest |-> rest] /\ ms \in Seq(Messages)
      /\ later = <<>> /\ ms \o later = p
    BY <1>6 DEF Parts
<1>8. ms \o <<>> = ms
    BY <1>7, ConcatEmptySeq
<1>9. ms = p
    BY <1>7, <1>8, Zenon
<1>10. Split[b].messages = ms
    BY <1>7
<1> QED
    BY <1>1, <1>9, <1>10, Zenon DEF Contents

-----------------------------------------------------------------------------
(* Messages *)

\* What sequences contain that are joined.
LEMMA ContainsJoined ==
    ASSUME NEW S, NEW p \in Seq(S), NEW q \in Seq(S), NEW e
    PROVE  Contains(p \o q, e) <=> Contains(p, e) \/ Contains(q, e)
<1>1. PICK b, m, n : b = p \o q /\ m = Len(p) /\ n = Len(q)
    OBVIOUS
<1>2. m \in Nat /\ n \in Nat
    BY <1>1, LenProperties
<1>3. Len(b) = m + n /\ \A i \in 1 .. m + n : b[i] = IF i <= m THEN p[i] ELSE q[i - m]
    BY <1>1, ConcatProperties
<1>4. ASSUME NEW i \in 1 .. m, p[i] = e PROVE \E j \in 1 .. m + n : b[j] = e
    BY <1>2, <1>3, <1>4
<1>5. ASSUME NEW i \in 1 .. n, q[i] = e PROVE \E j \in 1 .. m + n : b[j] = e
  <2>1. m + i \in 1 .. m + n /\ ~(m + i <= m) /\ (m + i) - m = i
      BY <1>2
  <2> QED
      BY <1>3, <1>5, <2>1
<1>6. ASSUME NEW j \in 1 .. m + n, b[j] = e
      PROVE  (\E i \in 1 .. m : p[i] = e) \/ (\E i \in 1 .. n : q[i] = e)
  <2>1. CASE j <= m
      BY <1>2, <1>3, <1>6, <2>1
  <2>2. CASE ~(j <= m)
    <3>1. j - m \in 1 .. n
        BY <1>2, <2>2
    <3> QED
        BY <1>3, <1>6, <2>2, <3>1
  <2> QED
      BY <2>1, <2>2
<1> QED
    BY <1>1, <1>3, <1>4, <1>5, <1>6 DEF Contains

\* What a sequence of one element contains.
LEMMA ContainsOne ==
    ASSUME NEW m, NEW e
    PROVE  Contains(<<m>>, e) <=> m = e
<1>1. Len(<<m>>) = 1 /\ <<m>>[1] = m
    OBVIOUS
<1> QED
    BY <1>1 DEF Contains

\* The empty sequence contains nothing.
LEMMA ContainsNone == \A e : ~Contains(<<>>, e)
BY DEF Contains

\* What is after the first contains what the first is not
LEMMA ContainsLater ==
    ASSUME NEW S, NEW p \in Seq(S), p # <<>>, NEW e
    PROVE  Contains(p, e) <=> Head(p) = e \/ Contains(Tail(p), e)
<1>1. Head(p) \in S /\ Tail(p) \in Seq(S) /\ p = <<Head(p)>> \o Tail(p)
    BY FirstAndRest
<1>2. PICK h, t : h = <<Head(p)>> /\ t = Tail(p)
    OBVIOUS
<1>3. h \in Seq(S) /\ t \in Seq(S)
    BY <1>1, <1>2
<1>4. Contains(h \o t, e) <=> Contains(h, e) \/ Contains(t, e)
    BY <1>3, ContainsJoined
<1>5. Contains(h, e) <=> Head(p) = e
    BY <1>2, ContainsOne
<1> QED
    BY <1>1, <1>2, <1>4, <1>5, Zenon

\* The first element of sequences that are joined.
LEMMA HeadJoined ==
    ASSUME NEW S, NEW p \in Seq(S), NEW q \in Seq(S)
    PROVE  /\ p # <<>> => p \o q # <<>> /\ Head(p \o q) = Head(p)
           /\ p = <<>> => p \o q = q
<1>1. PICK b, m, n : b = p \o q /\ m = Len(p) /\ n = Len(q)
    OBVIOUS
<1>2. m \in Nat /\ n \in Nat
    BY <1>1, LenProperties
<1>3. b \in Seq(S) /\ Len(b) = m + n /\ \A i \in 1 .. m + n : b[i] = IF i <= m THEN p[i] ELSE q[i - m]
    BY <1>1, ConcatProperties
<1>4. ASSUME p # <<>> PROVE b # <<>> /\ Head(b) = Head(p)
  <2>1. m # 0
      BY <1>1, <1>4, EmptySeq
  <2>2. m + n # 0 /\ 1 \in 1 .. m + n /\ 1 <= m
      BY <1>2, <2>1
  <2>3. b # <<>>
      BY <1>3, <2>2
  <2>4. b[1] = p[1]
      BY <1>3, <2>2
  <2>5. Head(b) = b[1] /\ Head(p) = p[1]
      OBVIOUS
  <2> QED
      BY <2>3, <2>4, <2>5
<1>5. <<>> \o q = q
    BY ConcatEmptySeq
<1> QED
    BY <1>1, <1>4, <1>5, Zenon

\* The messages are told apart by their types
LEMMA MessageTypes ==
    /\ Join \in Messages /\ Reject \in Messages /\ GetSetting \in Messages
    /\ NotifySetting \in Messages /\ Leave \in Messages /\ Kick \in Messages
    /\ \A n \in ClientIds : Accept(n) \in Messages
    /\ Join # Leave /\ GetSetting # Leave /\ Leave # Kick
    /\ \A n \in ClientIds : /\ Accept(n) # Kick /\ Accept(n) # Reject /\ Accept(n) # NotifySetting
                            /\ Accept(n) # Leave /\ Head(Accept(n)) = 2
    /\ \A m, n \in ClientIds : Accept(m) = Accept(n) => m = n
<1>1. /\ Head(Join) = 1 /\ Head(Reject) = 3 /\ Head(GetSetting) = 4 /\ Head(NotifySetting) = 5
      /\ Head(Leave) = 6 /\ Head(Kick) = 7
    BY DEF Join, Reject, GetSetting, NotifySetting, Leave, Kick
<1>2. \A n : Head(Accept(n)) = 2
    BY DEF Accept
<1>3. \A n : Accept(n)[2] = n
    BY DEF Accept
<1>4. Join # Leave /\ GetSetting # Leave /\ Leave # Kick
    BY <1>1
<1>5. \A n \in ClientIds : /\ Accept(n) # Kick /\ Accept(n) # Reject /\ Accept(n) # NotifySetting
                            /\ Accept(n) # Leave /\ Head(Accept(n)) = 2
    BY <1>1, <1>2
<1>6. \A m, n \in ClientIds : Accept(m) = Accept(n) => m = n
    BY <1>3
<1>7. /\ Join \in Messages /\ Reject \in Messages /\ GetSetting \in Messages
      /\ NotifySetting \in Messages /\ Leave \in Messages /\ Kick \in Messages
      /\ \A n \in ClientIds : Accept(n) \in Messages
    BY DEF Messages
<1> QED
    BY <1>4, <1>5, <1>6, <1>7

\* An acceptance carries a valid id.
LEMMA AcceptedId ==
    ASSUME NEW message \in Messages, Head(message) = 2
    PROVE  message[2] \in ClientIds /\ message = Accept(message[2])
<1>1. /\ Head(Join) = 1 /\ Head(Reject) = 3 /\ Head(GetSetting) = 4 /\ Head(NotifySetting) = 5
      /\ Head(Leave) = 6 /\ Head(Kick) = 7
    BY DEF Join, Reject, GetSetting, NotifySetting, Leave, Kick
<1>2. PICK n \in ClientIds : message = Accept(n)
    BY <1>1 DEF Messages
<1>3. Accept(n)[2] = n
    BY DEF Accept
<1> QED
    BY <1>2, <1>3

\* The sequences of messages that are sent.
LEMMA MessageSequences ==
    /\ <<>> \in Seq(Messages) /\ \A m \in Messages : <<m>> \in Seq(Messages)
OBVIOUS

-----------------------------------------------------------------------------
(* The invariant *)

\* A connection the server has not accepted, one that has not joined, and a client
InBacklog(c) == \E k \in DOMAIN backlog : backlog[k] = c
IsNew(c) == \E k \in DOMAIN newConnections : newConnections[k].connection = c
IsClient(c) == \E n \in DOMAIN clients : clients[n] = c

\* TypeOK, in parts
TypeInterfaces ==
    /\ stage \in [Interfaces -> {"idle", "waiting", "joined", "failed", "crashed"}]
    /\ socket \in [Interfaces -> Connections \cup {Nothing}]
    /\ id \in [Interfaces -> ClientIds \cup {Nothing}]
TypeEnds ==
    /\ clientEnd \in [Connections -> End] /\ serverEnd \in [Connections -> End]
    /\ serverReset \in [Connections -> ResetState]
    /\ clientReset \in [Connections -> ResetState]
TypeStreams ==
    up \in [Connections -> StreamType] /\ down \in [Connections -> StreamType]
TypeLoop ==
    /\ state \in {"serving", "ended", "died"}
    /\ phase \in {"accept", "new", "clients"} /\ it \in 1..(Len(newConnections) + 1)
    /\ IsFiniteSet(todo) /\ todo \subseteq ClientIds
TypeQueues ==
    /\ backlog \in Seq(Connections)
    /\ newConnections \in Seq([connection : Connections, late : BOOLEAN])
    /\ DOMAIN clients \subseteq ClientIds /\ Range(clients) \subseteq Connections
TypeTaken == taken.messages \in Seq(Messages)

\* What is in a stream is the frames of what was promised, unless a reset has arrived
StreamsFramed == \A c \in Connections :
    /\ serverReset[c] # "here" => Good(up[c])
    /\ clientReset[c] # "here" => Good(down[c])
\* What one side's view of a connection says of the other's
EndAgrees(c) ==
    /\ clientEnd[c] = "none" => serverEnd[c] = "none" /\ up[c] = NoStream /\ down[c] = NoStream
    /\ clientEnd[c] = "none" => ~InBacklog(c)
    /\ serverReset[c] # "no" => clientEnd[c] = "closed"
    /\ clientReset[c] # "no" => serverEnd[c] = "closed"
    /\ InBacklog(c) => serverEnd[c] = "none"
    /\ IsNew(c) \/ IsClient(c) => serverEnd[c] = "open"
    /\ InBacklog(c) \/ IsNew(c) => down[c] = NoStream /\ serverReset[c] = "no" /\ ~IsClient(c)
EndsAgree == \A c \in Connections : EndAgrees(c)
\* A connection is in one place once
Once ==
    /\ \A j, k \in DOMAIN backlog : backlog[j] = backlog[k] => j = k
    /\ \A j, k \in DOMAIN newConnections :
          newConnections[j].connection = newConnections[k].connection => j = k
    /\ \A m, n \in DOMAIN clients : clients[m] = clients[n] => m = n
\* A socket is that of one interface, whose stage tells whether it is open
SocketsOwned ==
    /\ \A i \in Interfaces :
          /\ stage[i] \in {"waiting", "joined", "crashed"} => socket[i] # Nothing
          /\ socket[i] # Nothing => clientEnd[socket[i]] = IF stage[i] = "crashed" THEN "closed" ELSE "open"
    /\ \A i, j \in Interfaces : socket[i] = socket[j] /\ socket[i] # Nothing => i = j
\* The loop is where its iterators say, and serves
LoopOK ==
    /\ phase # "new" => it = 1
    /\ todo \subseteq DOMAIN clients
    /\ state # "died"
\* The server knows connection c as client n, or the client will learn that it does not
Known(c, n) ==
    IF serverEnd[c] = "open" THEN n \in DOMAIN clients /\ clients[n] = c
    ELSE clientReset[c] # "no" \/ Contains(down[c].promised, Kick)
\* JoinAgreement with what leads to it: what the first message that is promised will
\* make the client believe, and that it has not said it leaves
AgreesWith(i) ==
    /\ stage[i] = "joined" => Known(socket[i], id[i])
    /\ \A n \in ClientIds : stage[i] = "waiting" /\ down[socket[i]].promised # <<>>
           /\ Head(down[socket[i]].promised) = Accept(n) => Known(socket[i], n)
    /\ stage[i] \in {"waiting", "joined"} => ~Contains(up[socket[i]].promised, Leave)
Agreement == \A i \in Interfaces : AgreesWith(i)

\* The invariant
Types == TypeInterfaces /\ TypeEnds /\ TypeStreams /\ TypeLoop /\ TypeQueues
Inv == Types /\ StreamsFramed /\ EndsAgree /\ Once /\ SocketsOwned /\ LoopOK /\ Agreement

\* The invariant holds at first.
LEMMA InvInit == Init => Inv /\ TypeTaken
<1> SUFFICES ASSUME Init PROVE Inv /\ TypeTaken
    OBVIOUS
<1> USE DEF Init
<1>1. Good(NoStream) /\ NoStream \in StreamType /\ NoStream.promised = <<>>
    BY NoStreamGood DEF Good
<1>2. Nothing \in Connections \cup {Nothing} /\ Nothing \in ClientIds \cup {Nothing}
    OBVIOUS
<1>3. TypeInterfaces
    BY <1>2 DEF TypeInterfaces
<1>4. TypeEnds
    BY DEF TypeEnds, End, ResetState
<1>5. TypeStreams
    BY <1>1 DEF TypeStreams
<1>6. TypeLoop
  <2>1. IsFiniteSet(todo)
      BY FS_EmptySet
  <2> QED
      BY <2>1 DEF TypeLoop
<1>7. DOMAIN clients = {} /\ DOMAIN backlog = {} /\ DOMAIN newConnections = {}
    OBVIOUS
<1>8. TypeQueues
  <2>1. Range(clients) = {}
      BY <1>7 DEF Range
  <2> QED
      BY <1>7, <2>1 DEF TypeQueues
<1>9. StreamsFramed
    BY <1>1 DEF StreamsFramed
<1>10. EndsAgree
    BY <1>7 DEF EndsAgree, EndAgrees, InBacklog, IsNew, IsClient
<1>11. Once
    BY <1>7 DEF Once
<1>12. SocketsOwned
    BY DEF SocketsOwned
<1>13. LoopOK
    BY <1>7 DEF LoopOK
<1>14. Agreement
    BY DEF Agreement, AgreesWith
<1>15. TypeTaken
    BY DEF TypeTaken, Taken
<1> QED
    BY <1>3, <1>4, <1>5, <1>6, <1>8, <1>9, <1>10, <1>11, <1>12, <1>13, <1>14, <1>15 DEF Inv, Types

\* What a client sends is framed and promised, unless the server's end is closed.
LEMMA UpWithGood ==
    ASSUME NEW c \in Connections, TypeStreams, Good(up[c]), NEW ms \in Seq(Messages)
    PROVE  /\ UpWith(c, ms) \in [Connections -> StreamType]
           /\ \A d \in Connections : d # c => UpWith(c, ms)[d] = up[d]
           /\ Good(UpWith(c, ms)[c])
           /\ UpWith(c, ms)[c].promised =
                 IF serverEnd[c] = "closed" THEN up[c].promised ELSE up[c].promised \o ms
<1>1. up \in [Connections -> StreamType]
    BY DEF TypeStreams
<1>2. PICK s : s = Sent(up[c], ms)
    OBVIOUS
<1>3. Good(s) /\ s.promised = up[c].promised \o ms
    BY <1>2, SentGood
<1>4. s \in StreamType
    BY <1>3 DEF Good
<1>5. UpWith(c, ms) = IF serverEnd[c] = "closed" THEN up ELSE [up EXCEPT ![c] = s]
    BY <1>2 DEF UpWith
<1>6. CASE serverEnd[c] = "closed"
    BY <1>1, <1>5, <1>6
<1>7. CASE serverEnd[c] # "closed"
  <2>1. UpWith(c, ms) = [up EXCEPT ![c] = s]
      BY <1>5, <1>7
  <2>2. PICK f : f = [up EXCEPT ![c] = s]
      OBVIOUS
  <2>3. f \in [Connections -> StreamType] /\ f[c] = s /\ \A d \in Connections : d # c => f[d] = up[d]
      BY <1>1, <1>4, <2>2
  <2> QED
      BY <1>3, <1>7, <2>1, <2>2, <2>3
<1> QED
    BY <1>6, <1>7

\* What the server sends is framed and promised, unless the client's end is closed.
LEMMA DownWithGood ==
    ASSUME NEW c \in Connections, TypeStreams, Good(down[c]), NEW ms \in Seq(Messages)
    PROVE  /\ DownWith(c, ms) \in [Connections -> StreamType]
           /\ \A d \in Connections : d # c => DownWith(c, ms)[d] = down[d]
           /\ Good(DownWith(c, ms)[c])
           /\ DownWith(c, ms)[c].promised =
                 IF clientEnd[c] = "closed" THEN down[c].promised ELSE down[c].promised \o ms
<1>1. down \in [Connections -> StreamType]
    BY DEF TypeStreams
<1>2. PICK s : s = Sent(down[c], ms)
    OBVIOUS
<1>3. Good(s) /\ s.promised = down[c].promised \o ms
    BY <1>2, SentGood
<1>4. s \in StreamType
    BY <1>3 DEF Good
<1>5. DownWith(c, ms) = IF clientEnd[c] = "closed" THEN down ELSE [down EXCEPT ![c] = s]
    BY <1>2 DEF DownWith
<1>6. CASE clientEnd[c] = "closed"
    BY <1>1, <1>5, <1>6
<1>7. CASE clientEnd[c] # "closed"
  <2>1. DownWith(c, ms) = [down EXCEPT ![c] = s]
      BY <1>5, <1>7
  <2>2. PICK f : f = [down EXCEPT ![c] = s]
      OBVIOUS
  <2>3. f \in [Connections -> StreamType] /\ f[c] = s /\ \A d \in Connections : d # c => f[d] = down[d]
      BY <1>1, <1>4, <2>2
  <2> QED
      BY <1>3, <1>7, <2>1, <2>2, <2>3
<1> QED
    BY <1>6, <1>7

\* What an interface agrees with depends on its own connection only
LEMMA AgreementKept ==
    ASSUME NEW i \in Interfaces, AgreesWith(i),
           stage'[i] \in {"waiting", "joined"} =>
              /\ stage'[i] = stage[i] /\ socket'[i] = socket[i] /\ id'[i] = id[i]
              /\ serverEnd'[socket[i]] = serverEnd[socket[i]]
              /\ clientReset[socket[i]] # "no" => clientReset'[socket[i]] # "no"
              /\ up'[socket[i]].promised = up[socket[i]].promised
              /\ down'[socket[i]].promised = down[socket[i]].promised
              /\ \A n \in DOMAIN clients : clients[n] = socket[i] =>
                    n \in DOMAIN clients' /\ clients'[n] = socket[i]
    PROVE  AgreesWith(i)'
BY DEF AgreesWith, Known

-----------------------------------------------------------------------------
(* tedomari *)

\* An interface that closes its end of a connection, sending last messages
Closes(i, last, st) ==
    /\ st \in {"idle", "failed", "crashed"}
    /\ CloseEnd(socket[i], last)
    /\ stage' = [stage EXCEPT ![i] = st]
    /\ socket' = IF st = "crashed" THEN socket ELSE [socket EXCEPT ![i] = Nothing]
    /\ UNCHANGED <<id, server>>

\* An interface that has a socket is the only one that has it, and it is open.
LEMMA OwnSocket ==
    ASSUME Inv, NEW i \in Interfaces, socket[i] # Nothing, stage[i] # "crashed"
    PROVE  /\ socket[i] \in Connections /\ clientEnd[socket[i]] = "open"
           /\ serverReset[socket[i]] = "no" /\ Good(up[socket[i]])
           /\ \A j \in Interfaces : j # i => socket[j] # socket[i]
<1>1. socket[i] \in Connections
    BY DEF Inv, Types, TypeInterfaces
<1>2. clientEnd[socket[i]] = "open" /\ \A j \in Interfaces : j # i => socket[j] # socket[i]
    BY DEF Inv, SocketsOwned
<1>3. serverReset[socket[i]] = "no"
    BY <1>1, <1>2 DEF Inv, EndsAgree, EndAgrees
<1> QED
    BY <1>1, <1>2, <1>3 DEF Inv, StreamsFramed

\* An interface closes its socket.
LEMMA ClosesInv ==
    ASSUME ~Datagrams, Inv, NEW i \in Interfaces, socket[i] # Nothing, stage[i] # "crashed",
           NEW last \in Seq(Messages), NEW st, Closes(i, last, st)
    PROVE  Inv'
<1>1. PICK c : c = socket[i]
    OBVIOUS
<1>2. /\ c \in Connections /\ clientEnd[c] = "open" /\ serverReset[c] = "no" /\ Good(up[c])
      /\ \A j \in Interfaces : j # i => socket[j] # c
    BY <1>1, OwnSocket
<1>3. /\ clientEnd' = [clientEnd EXCEPT ![c] = "closed"]
      /\ down' = [down EXCEPT ![c] = NoStream]
      /\ up' = UpWith(c, last)
      /\ clientReset' = [clientReset EXCEPT ![c] = "no"]
      /\ serverReset' = IF Unread(down[c]) /\ serverEnd[c] # "closed" /\ serverReset[c] = "no"
                        THEN [serverReset EXCEPT ![c] = "coming"] ELSE serverReset
      /\ serverEnd' = serverEnd
    BY <1>1 DEF Closes, CloseEnd
<1>4. /\ st \in {"idle", "failed", "crashed"} /\ stage' = [stage EXCEPT ![i] = st]
      /\ socket' = IF st = "crashed" THEN socket ELSE [socket EXCEPT ![i] = Nothing]
      /\ id' = id
    BY DEF Closes
<1>5. /\ state' = state /\ phase' = phase /\ it' = it /\ todo' = todo /\ backlog' = backlog
      /\ newConnections' = newConnections /\ clients' = clients
    BY DEF Closes, server
<1>6. /\ up' \in [Connections -> StreamType]
      /\ \A d \in Connections : d # c => up'[d] = up[d]
      /\ Good(up'[c])
    BY <1>2, <1>3, UpWithGood DEF Inv, Types
<1>7. TypeInterfaces'
    BY <1>4 DEF Inv, Types, TypeInterfaces
<1>8. TypeEnds'
    BY <1>2, <1>3 DEF Inv, Types, TypeEnds, End, ResetState
<1>9. NoStream \in StreamType /\ Good(NoStream) /\ NoStream.wire = <<>>
    BY NoStreamGood DEF Good
<1>10. /\ down' \in [Connections -> StreamType] /\ down'[c] = NoStream
       /\ \A d \in Connections : d # c => down'[d] = down[d]
    BY <1>2, <1>3, <1>9 DEF Inv, Types, TypeStreams
<1>11. TypeStreams'
    BY <1>6, <1>10 DEF TypeStreams
<1>12. TypeLoop' /\ TypeQueues' /\ Once' /\ LoopOK'
    BY <1>5 DEF Inv, Types, TypeLoop, TypeQueues, Once, LoopOK
<1>13. /\ clientEnd'[c] = "closed" /\ clientReset'[c] = "no"
       /\ \A d \in Connections : d # c => /\ clientEnd'[d] = clientEnd[d]
                                          /\ clientReset'[d] = clientReset[d]
                                          /\ serverReset'[d] = serverReset[d]
       /\ down[c] = NoStream => serverReset'[c] = "no"
    BY <1>2, <1>3, <1>9 DEF Inv, Types, TypeEnds, Unread
<1>14. StreamsFramed'
    BY <1>6, <1>9, <1>10, <1>13 DEF Inv, StreamsFramed
<1>15. \A d : (InBacklog(d)' <=> InBacklog(d)) /\ (IsNew(d)' <=> IsNew(d)) /\ (IsClient(d)' <=> IsClient(d))
    BY <1>5 DEF InBacklog, IsNew, IsClient
<1>16. EndsAgree'
  <2> SUFFICES ASSUME NEW d \in Connections PROVE EndAgrees(d)'
      BY DEF EndsAgree
  <2>1. CASE d = c
      BY <1>3, <1>10, <1>13, <1>15, <2>1 DEF Inv, EndsAgree, EndAgrees
  <2>2. CASE d # c
      BY <1>3, <1>6, <1>10, <1>13, <1>15, <2>2 DEF Inv, EndsAgree, EndAgrees
  <2> QED
      BY <2>1, <2>2
<1>17. SocketsOwned'
    BY <1>1, <1>2, <1>4, <1>13 DEF Inv, Types, TypeInterfaces, SocketsOwned
<1>18. Agreement'
  <2> SUFFICES ASSUME NEW j \in Interfaces PROVE AgreesWith(j)'
      BY DEF Agreement
  <2>1. AgreesWith(j)
      BY DEF Inv, Agreement
  <2>2. stage \in [Interfaces -> {"idle", "waiting", "joined", "failed", "crashed"}]
        /\ socket \in [Interfaces -> Connections \cup {Nothing}]
      BY DEF Inv, Types, TypeInterfaces
  <2>3. ASSUME stage'[j] \in {"waiting", "joined"}
        PROVE  /\ j # i /\ stage'[j] = stage[j] /\ socket'[j] = socket[j]
               /\ socket[j] \in Connections /\ socket[j] # c
    <3>1. j # i /\ stage'[j] = stage[j]
        BY <1>4, <2>2, <2>3
    <3>2. socket'[j] = socket[j]
        BY <1>4, <2>2, <3>1
    <3>3. socket[j] # Nothing
        BY <2>3, <3>1 DEF Inv, SocketsOwned
    <3> QED
        BY <1>2, <2>2, <3>1, <3>2, <3>3
  <2> QED
      BY <1>3, <1>4, <1>5, <1>6, <1>10, <1>13, <2>1, <2>3, AgreementKept
<1> QED
    BY <1>7, <1>8, <1>11, <1>12, <1>14, <1>16, <1>17, <1>18 DEF Inv, Types

\* A sequence with one more element.
LEMMA Appended ==
    ASSUME NEW S, NEW s \in Seq(S), NEW c \in S
    PROVE  /\ Append(s, c) \in Seq(S) /\ Len(s) \in Nat
           /\ DOMAIN s = 1 .. Len(s) /\ DOMAIN Append(s, c) = 1 .. Len(s) + 1
           /\ \A k \in 1 .. Len(s) : Append(s, c)[k] = s[k]
           /\ Append(s, c)[Len(s) + 1] = c
BY AppendProperties, LenProperties

\* An interface gets a new connection; it waits on it, or has crashed
Connects(i, c, st, e, s) ==
    /\ Connect(i) /\ c = Min(Unused)
    /\ stage' = [stage EXCEPT ![i] = st]
    /\ clientEnd' = [clientEnd EXCEPT ![c] = e]
    /\ up' = [up EXCEPT ![c] = s]
    /\ (st = "waiting" /\ e = "open") \/ (st = "crashed" /\ e = "closed")
    /\ Good(s) /\ ~Contains(s.promised, Leave)

\* An interface gets a new connection.
LEMMA ConnectsInv ==
    ASSUME Inv, NEW i \in Interfaces, NEW c, NEW st, NEW e, NEW s, Connects(i, c, st, e, s)
    PROVE  Inv'
<1>1. /\ socket[i] = Nothing /\ Unused # {}
      /\ socket' = [socket EXCEPT ![i] = c]
      /\ backlog' = Append(backlog, c)
    BY DEF Connects, Connect
<1>2. /\ id' = id /\ serverEnd' = serverEnd /\ down' = down /\ serverReset' = serverReset
      /\ clientReset' = clientReset /\ state' = state /\ phase' = phase /\ it' = it
      /\ todo' = todo /\ newConnections' = newConnections /\ clients' = clients
    BY DEF Connects, Connect, resets
<1>3. /\ stage' = [stage EXCEPT ![i] = st] /\ clientEnd' = [clientEnd EXCEPT ![c] = e]
      /\ up' = [up EXCEPT ![c] = s] /\ Good(s) /\ s \in StreamType
      /\ (st = "waiting" /\ e = "open") \/ (st = "crashed" /\ e = "closed")
      /\ ~Contains(s.promised, Leave)
    BY DEF Connects, Good
<1>4. c \in Connections /\ clientEnd[c] = "none" /\ c # Nothing
  <2>1. Unused \subseteq Connections /\ Connections \subseteq Nat
      BY JoiningAssumption DEF Unused
  <2>2. Unused \subseteq Nat
      BY <2>1
  <2>3. c \in Unused
      BY <1>1, <2>2, LeastOf DEF Connects
  <2> QED
      BY <2>3, JoiningAssumption DEF Unused
<1>5. /\ serverEnd[c] = "none" /\ down[c] = NoStream /\ ~InBacklog(c)
      /\ serverReset[c] = "no" /\ clientReset[c] = "no" /\ ~IsNew(c) /\ ~IsClient(c)
    BY <1>4 DEF Inv, EndsAgree, EndAgrees
<1>6. \A j \in Interfaces : socket[j] # c
    BY <1>4 DEF Inv, SocketsOwned
<1>7. TypeInterfaces'
    BY <1>1, <1>2, <1>3, <1>4 DEF Inv, Types, TypeInterfaces
<1>8. TypeEnds'
    BY <1>2, <1>3, <1>4 DEF Inv, Types, TypeEnds, End
<1>9. /\ up' \in [Connections -> StreamType] /\ up'[c] = s
      /\ \A d \in Connections : d # c => up'[d] = up[d]
    BY <1>3, <1>4 DEF Inv, Types, TypeStreams
<1>10. TypeStreams'
    BY <1>2, <1>9 DEF Inv, Types, TypeStreams
<1>11. TypeLoop' /\ LoopOK'
    BY <1>2 DEF Inv, Types, TypeLoop, LoopOK
<1>12. PICK n : n = Len(backlog)
    OBVIOUS
<1>13. /\ backlog' \in Seq(Connections) /\ n \in Nat
       /\ DOMAIN backlog = 1 .. n /\ DOMAIN backlog' = 1 .. n + 1
       /\ \A k \in 1 .. n : backlog'[k] = backlog[k]
       /\ backlog'[n + 1] = c
  <2>1. backlog \in Seq(Connections)
      BY DEF Inv, Types, TypeQueues
  <2> QED
      BY <1>1, <1>4, <1>12, <2>1, Appended
<1>14. TypeQueues'
    BY <1>2, <1>13 DEF Inv, Types, TypeQueues
<1>15. /\ \A d : InBacklog(d)' <=> InBacklog(d) \/ d = c
       /\ \A d : (IsNew(d)' <=> IsNew(d)) /\ (IsClient(d)' <=> IsClient(d))
  <2>1. \A k \in 1 .. n + 1 : k \in 1 .. n \/ k = n + 1
      BY <1>13
  <2>2. n + 1 \in 1 .. n + 1 /\ \A k \in 1 .. n : k \in 1 .. n + 1
      BY <1>13
  <2>3. ASSUME NEW d PROVE InBacklog(d)' <=> InBacklog(d) \/ d = c
      BY <1>13, <2>1, <2>2 DEF InBacklog
  <2> QED
      BY <1>2, <2>3 DEF IsNew, IsClient
<1>16. StreamsFramed'
    BY <1>2, <1>3, <1>5, <1>9 DEF Inv, StreamsFramed
<1>17. /\ clientEnd'[c] = e /\ \A d \in Connections : d # c => clientEnd'[d] = clientEnd[d]
    BY <1>3, <1>4 DEF Inv, Types, TypeEnds
<1>18. EndsAgree'
  <2> SUFFICES ASSUME NEW d \in Connections PROVE EndAgrees(d)'
      BY DEF EndsAgree
  <2>1. CASE d = c
      BY <1>2, <1>3, <1>5, <1>15, <1>17, <2>1 DEF EndAgrees
  <2>2. CASE d # c
      BY <1>2, <1>9, <1>15, <1>17, <2>2 DEF Inv, EndsAgree, EndAgrees
  <2> QED
      BY <2>1, <2>2
<1>19. Once'
  <2>1. ASSUME NEW j \in DOMAIN backlog', NEW k \in DOMAIN backlog', backlog'[j] = backlog'[k]
        PROVE  j = k
    <3>1. \A l \in 1 .. n : backlog[l] # c
        BY <1>5, <1>13 DEF InBacklog
    <3>2. \A l, m \in 1 .. n : backlog[l] = backlog[m] => l = m
        BY <1>13 DEF Inv, Once
    <3>3. (j \in 1 .. n \/ j = n + 1) /\ (k \in 1 .. n \/ k = n + 1)
        BY <1>13
    <3> QED
        BY <1>13, <2>1, <3>1, <3>2, <3>3
  <2> QED
      BY <1>2, <2>1 DEF Inv, Once
<1>20. SocketsOwned'
    BY <1>1, <1>3, <1>4, <1>6, <1>17 DEF Inv, Types, TypeInterfaces, SocketsOwned
<1>21. Agreement'
  <2> SUFFICES ASSUME NEW j \in Interfaces PROVE AgreesWith(j)'
      BY DEF Agreement
  <2>1. AgreesWith(j)
      BY DEF Inv, Agreement
  <2>2. stage \in [Interfaces -> {"idle", "waiting", "joined", "failed", "crashed"}]
        /\ socket \in [Interfaces -> Connections \cup {Nothing}]
      BY DEF Inv, Types, TypeInterfaces
  <2>3. CASE j = i
    <3>1. stage'[i] # "joined" /\ socket'[i] = c
        BY <1>1, <1>3, <2>2
    <3>2. down'[c].promised = <<>>
        BY <1>2, <1>5, NoStreamGood
    <3>3. ~Contains(up'[c].promised, Leave)
        BY <1>3, <1>9
    <3> QED
        BY <2>3, <3>1, <3>2, <3>3 DEF AgreesWith
  <2>4. CASE j # i
    <3>1. stage'[j] = stage[j] /\ socket'[j] = socket[j]
        BY <1>1, <1>3, <2>2, <2>4
    <3>2. ASSUME stage'[j] \in {"waiting", "joined"} PROVE socket[j] \in Connections /\ socket[j] # c
        BY <1>6, <2>2, <3>1, <3>2 DEF Inv, SocketsOwned
    <3> QED
        BY <1>2, <1>9, <2>1, <3>1, <3>2, AgreementKept
  <2> QED
      BY <2>3, <2>4
<1> QED
    BY <1>7, <1>8, <1>10, <1>11, <1>14, <1>16, <1>18, <1>19, <1>20, <1>21 DEF Inv, Types

\* join, up to its message.
LEMMA StartJoinInv ==
    ASSUME Inv, NEW i \in Interfaces, StartJoin(i)
    PROVE  Inv' /\ TypeTaken'
<1>1. PICK c, s : c = Min(Unused) /\ s = Sent(NoStream, <<Join>>)
    OBVIOUS
<1>2. <<Join>> \in Seq(Messages) /\ <<>> \in Seq(Messages) /\ Join # Leave
    BY MessageTypes, MessageSequences
<1>3. Good(s) /\ s.promised = <<>> \o <<Join>>
    BY <1>1, <1>2, NoStreamGood, SentGood, Zenon
<1>4. <<>> \o <<Join>> = <<Join>>
    BY <1>2, ConcatEmptySeq
<1>7. s.promised = <<Join>>
    BY <1>3, <1>4, Zenon
<1>5. ~Contains(s.promised, Leave)
    BY <1>2, <1>7, ContainsOne
<1>6. Connects(i, c, "waiting", "open", s)
    BY <1>1, <1>3, <1>5 DEF StartJoin, Connects
<1>8. Inv'
    BY <1>6, ConnectsInv
<1>9. TypeTaken'
    BY <1>2 DEF StartJoin, Connect, NothingTaken, Taken, TypeTaken
<1> QED
    BY <1>8, <1>9

\* A crash before the join message.
LEMMA CrashConnectingInv ==
    ASSUME Inv, NEW i \in Interfaces, CrashConnecting(i)
    PROVE  Inv' /\ TypeTaken'
<1>1. PICK c : c = Min(Unused)
    OBVIOUS
<1>2. c \in Unused
  <2>1. Unused \subseteq Connections /\ Connections \subseteq Nat
      BY JoiningAssumption DEF Unused
  <2>2. Unused \subseteq Nat /\ Unused # {}
      BY <2>1 DEF CrashConnecting, Connect
  <2> QED
      BY <1>1, <2>2, LeastOf
<1>3. c \in Connections /\ up[c] = NoStream
    BY <1>2 DEF Unused, Inv, EndsAgree, EndAgrees
<1>4. up' = [up EXCEPT ![c] = NoStream]
    BY <1>3 DEF CrashConnecting, Inv, Types, TypeStreams
<1>5. Good(NoStream) /\ ~Contains(NoStream.promised, Leave)
    BY NoStreamGood, ContainsNone
<1>6. Connects(i, c, "crashed", "closed", NoStream)
    BY <1>1, <1>4, <1>5 DEF CrashConnecting, Connects
<1>7. Inv'
    BY <1>6, ConnectsInv
<1>8. TypeTaken'
    BY MessageSequences DEF CrashConnecting, Connect, NothingTaken, Taken, TypeTaken
<1> QED
    BY <1>7, <1>8

\* An interface that reads from its connection, or sends, and keeps it
Stays(i) == LET c == socket[i] IN
    /\ stage' \in [Interfaces -> {"idle", "waiting", "joined", "failed", "crashed"}]
    /\ stage'[i] \in {"idle", "waiting", "joined"}
    /\ id' \in [Interfaces -> ClientIds \cup {Nothing}]
    /\ \A j \in Interfaces : j # i => stage'[j] = stage[j] /\ id'[j] = id[j]
    /\ up' \in [Connections -> StreamType] /\ Good(up'[c])
    /\ down' \in [Connections -> StreamType] /\ (clientReset[c] # "here" => Good(down'[c]))
    /\ down'[c] = down[c] \/ ~(InBacklog(c) \/ IsNew(c))
    /\ clientReset' \in [Connections -> ResetState]
    /\ clientReset'[c] # "no" => serverEnd[c] = "closed"
    /\ clientReset[c] # "no" => clientReset'[c] = clientReset[c]
    /\ clientReset[c] = "no" => clientReset'[c] # "here"
    /\ \A d \in Connections : d # c =>
          up'[d] = up[d] /\ down'[d] = down[d] /\ clientReset'[d] = clientReset[d]
    /\ UNCHANGED <<socket, ends, serverReset, server>>

\* A step of an interface on its own connection, which it keeps.
LEMMA StaysInv ==
    ASSUME Inv, NEW i \in Interfaces, socket[i] # Nothing, stage[i] # "crashed", Stays(i), AgreesWith(i)'
    PROVE  Inv'
<1>1. PICK c : c = socket[i]
    OBVIOUS
<1>2. /\ c \in Connections /\ clientEnd[c] = "open" /\ serverReset[c] = "no"
      /\ \A j \in Interfaces : j # i => socket[j] # c
    BY <1>1, OwnSocket
<1>3. /\ stage' \in [Interfaces -> {"idle", "waiting", "joined", "failed", "crashed"}]
      /\ stage'[i] \in {"idle", "waiting", "joined"}
      /\ id' \in [Interfaces -> ClientIds \cup {Nothing}]
      /\ \A j \in Interfaces : j # i => stage'[j] = stage[j] /\ id'[j] = id[j]
    BY DEF Stays
<1>4. /\ up' \in [Connections -> StreamType] /\ Good(up'[c])
      /\ down' \in [Connections -> StreamType] /\ (clientReset[c] # "here" => Good(down'[c]))
      /\ down'[c] = down[c] \/ ~(InBacklog(c) \/ IsNew(c))
    BY <1>1 DEF Stays
<1>5. /\ clientReset' \in [Connections -> ResetState]
      /\ clientReset'[c] # "no" => serverEnd[c] = "closed"
      /\ clientReset[c] # "no" => clientReset'[c] = clientReset[c]
      /\ clientReset[c] = "no" => clientReset'[c] # "here"
    BY <1>1 DEF Stays
<1>6. \A d \in Connections : d # c =>
          up'[d] = up[d] /\ down'[d] = down[d] /\ clientReset'[d] = clientReset[d]
    BY <1>1 DEF Stays
<1>7. /\ socket' = socket /\ clientEnd' = clientEnd /\ serverEnd' = serverEnd
      /\ serverReset' = serverReset /\ state' = state /\ phase' = phase /\ it' = it
      /\ todo' = todo /\ backlog' = backlog /\ newConnections' = newConnections /\ clients' = clients
    BY DEF Stays, ends, server
<1>8. TypeInterfaces' /\ TypeEnds' /\ TypeStreams' /\ TypeLoop' /\ TypeQueues' /\ Once' /\ LoopOK'
  <2>1. TypeInterfaces'
      BY <1>3, <1>7 DEF Inv, Types, TypeInterfaces
  <2>2. TypeEnds'
      BY <1>5, <1>7 DEF Inv, Types, TypeEnds
  <2>3. TypeStreams'
      BY <1>4 DEF TypeStreams
  <2>4. TypeLoop' /\ TypeQueues' /\ Once' /\ LoopOK'
      BY <1>7 DEF Inv, Types, TypeLoop, TypeQueues, Once, LoopOK
  <2> QED
      BY <2>1, <2>2, <2>3, <2>4
<1>9. StreamsFramed'
  <2> SUFFICES ASSUME NEW d \in Connections
               PROVE  /\ serverReset'[d] # "here" => Good(up'[d])
                      /\ clientReset'[d] # "here" => Good(down'[d])
      BY DEF StreamsFramed
  <2>1. CASE d = c
      BY <1>4, <1>5, <2>1
  <2>2. CASE d # c
      BY <1>6, <1>7, <2>2 DEF Inv, StreamsFramed
  <2> QED
      BY <2>1, <2>2
<1>10. \A d : (InBacklog(d)' <=> InBacklog(d)) /\ (IsNew(d)' <=> IsNew(d)) /\ (IsClient(d)' <=> IsClient(d))
    BY <1>7 DEF InBacklog, IsNew, IsClient
<1>11. EndsAgree'
  <2> SUFFICES ASSUME NEW d \in Connections PROVE EndAgrees(d)'
      BY DEF EndsAgree
  <2>1. CASE d = c
      BY <1>2, <1>4, <1>5, <1>7, <1>10, <2>1 DEF Inv, EndsAgree, EndAgrees
  <2>2. CASE d # c
      BY <1>6, <1>7, <1>10, <2>2 DEF Inv, EndsAgree, EndAgrees
  <2> QED
      BY <2>1, <2>2
<1>12. SocketsOwned'
    BY <1>1, <1>2, <1>3, <1>7 DEF Inv, SocketsOwned
<1>13. Agreement'
  <2> SUFFICES ASSUME NEW j \in Interfaces PROVE AgreesWith(j)'
      BY DEF Agreement
  <2>1. CASE j = i
      BY <2>1
  <2>2. CASE j # i
    <3>1. AgreesWith(j)
        BY DEF Inv, Agreement
    <3>2. stage'[j] = stage[j] /\ id'[j] = id[j]
        BY <1>3, <2>2
    <3>3. ASSUME stage'[j] \in {"waiting", "joined"} PROVE socket[j] \in Connections /\ socket[j] # c
        BY <1>2, <2>2, <3>2, <3>3 DEF Inv, SocketsOwned, Types, TypeInterfaces
    <3> QED
        BY <1>6, <1>7, <3>1, <3>2, <3>3, AgreementKept
  <2> QED
      BY <2>1, <2>2
<1> QED
    BY <1>8, <1>9, <1>11, <1>12, <1>13 DEF Inv, Types

\* An interface that waits or has joined has a socket.
LEMMA HasSocket ==
    ASSUME Inv, NEW i \in Interfaces, stage[i] \in {"waiting", "joined"}
    PROVE  socket[i] # Nothing /\ stage[i] # "crashed"
BY DEF Inv, SocketsOwned

\* An exception in tedomari.
LEMMA FailInv ==
    ASSUME ~Datagrams, Inv, NEW i \in Interfaces, stage[i] \in {"waiting", "joined"}, Fail(i)
    PROVE  Inv' /\ TypeTaken'
<1>1. Closes(i, <<>>, "failed")
    BY DEF Fail, CloseSocket, Closes
<1>2. TypeTaken'
    BY MessageSequences DEF Fail, NothingTaken, Taken, TypeTaken
<1> QED
    BY <1>1, <1>2, HasSocket, MessageSequences, ClosesInv

\* join gives up.
LEMMA TimeOutInv ==
    ASSUME ~Datagrams, Inv, NEW i \in Interfaces, TimeOut(i)
    PROVE  Inv' /\ TypeTaken'
<1>1. Closes(i, <<>>, "idle") /\ stage[i] \in {"waiting", "joined"}
    BY DEF TimeOut, CloseSocket, Closes
<1>2. TypeTaken'
    BY MessageSequences DEF TimeOut, NothingTaken, Taken, TypeTaken
<1> QED
    BY <1>1, <1>2, HasSocket, MessageSequences, ClosesInv

\* The interface is destroyed.
LEMMA ReconnectInv ==
    ASSUME ~Datagrams, Inv, NEW i \in Interfaces, Reconnect(i)
    PROVE  Inv' /\ TypeTaken'
<1>1. PICK last : last = IF stage[i] = "joined" /\ ~ClientSendFails(socket[i]) THEN <<Leave>> ELSE <<>>
    OBVIOUS
<1>2. last \in Seq(Messages)
    BY <1>1, MessageSequences, MessageTypes
<1>3. Closes(i, last, "idle") /\ stage[i] \in {"idle", "joined"} /\ socket[i] # Nothing
    BY <1>1 DEF Reconnect, CloseSocket, Closes
<1>4. TypeTaken'
    BY MessageSequences DEF Reconnect, NothingTaken, Taken, TypeTaken
<1> QED
    BY <1>2, <1>3, <1>4, ClosesInv

\* tedomari is killed.
LEMMA CrashInv ==
    ASSUME ~Datagrams, Inv, NEW i \in Interfaces, Crash(i)
    PROVE  Inv' /\ TypeTaken'
<1>1. Closes(i, <<>>, "crashed") /\ stage[i] \in {"waiting", "joined"}
    BY DEF Crash, Closes
<1>2. TypeTaken'
    BY MessageSequences DEF Crash, NothingTaken, Taken, TypeTaken
<1> QED
    BY <1>1, <1>2, HasSocket, MessageSequences, ClosesInv

\* What a call of receive does to the stream that some bytes arrived on.
LEMMA OneReceived ==
    ASSUME ~Datagrams, NEW s, Good(s), NEW n \in Arrivals(s), NEW t, t = OneTaken(Arrived(s, n))
    PROVE  /\ n \in 0 .. Len(s.wire)
           /\ Good(t.stream) /\ t.stream \in StreamType /\ t.messages \in Seq(Messages)
           /\ s.promised \in Seq(Messages)
           /\ \/ t.messages = <<>> /\ t.stream.promised = s.promised
              \/ /\ s.promised # <<>> /\ Head(s.promised) \in Messages
                 /\ t.messages = <<Head(s.promised)>> /\ t.stream.promised = Tail(s.promised)
<1>1. n \in 0 .. Len(s.wire)
    BY DEF Arrivals
<1>2. PICK a : a = Arrived(s, n)
    OBVIOUS
<1>3. Good(a) /\ a.promised = s.promised
    BY <1>1, <1>2, ArrivedGood
<1>4. OneTakenOf(a, t)
    BY <1>2, <1>3, OneTakenGood
<1>5. /\ Good(t.stream)
      /\ \/ t.messages = <<>> /\ t.stream.promised = s.promised
         \/ /\ s.promised # <<>> /\ Head(s.promised) \in Messages
            /\ t.messages = <<Head(s.promised)>> /\ t.stream.promised = Tail(s.promised)
    BY <1>3, <1>4 DEF OneTakenOf
<1>6. t.stream \in StreamType
    BY <1>5 DEF Good
<1>7. t.messages \in Seq(Messages)
    BY <1>5, MessageSequences
<1>8. s.promised \in Seq(Messages)
    BY StreamParts DEF Good
<1> QED
    BY <1>1, <1>5, <1>6, <1>7, <1>8

\* A client that was sent anything is not waiting to be accepted.
LEMMA PendingIsSilent ==
    ASSUME Inv, NEW c \in Connections, down[c] # NoStream
    PROVE  ~(InBacklog(c) \/ IsNew(c))
BY DEF Inv, EndsAgree, EndAgrees

\* An interface that has joined is not waiting to be accepted.
LEMMA JoinedIsNotPending ==
    ASSUME Inv, NEW i \in Interfaces, stage[i] = "joined"
    PROVE  ~(InBacklog(socket[i]) \/ IsNew(socket[i]))
<1>1. PICK c : c = socket[i]
    OBVIOUS
<1>2. socket[i] # Nothing /\ stage[i] # "crashed"
    BY HasSocket
<1>3. c \in Connections
    BY <1>1, <1>2, OwnSocket
<1>4. Known(c, id[i])
    BY <1>1 DEF Inv, Agreement, AgreesWith
<1>5. CASE serverEnd[c] = "open"
  <2>1. IsClient(c)
      BY <1>4, <1>5 DEF Known, IsClient
  <2> QED
      BY <1>1, <1>3, <2>1 DEF Inv, EndsAgree, EndAgrees
<1>6. CASE serverEnd[c] # "open" /\ clientReset[c] # "no"
    BY <1>1, <1>3, <1>6 DEF Inv, EndsAgree, EndAgrees
<1>7. CASE Contains(down[c].promised, Kick)
  <2>1. down[c] # NoStream
      BY <1>7, NoStreamGood, ContainsNone
  <2> QED
      BY <1>1, <1>3, <2>1, PendingIsSilent
<1> QED
    BY <1>4, <1>5, <1>6, <1>7 DEF Known

\* leave.
LEMMA LeaveServerInv ==
    ASSUME ~Datagrams, Inv, NEW i \in Interfaces, LeaveServer(i)
    PROVE  Inv' /\ TypeTaken'
<1>1. PICK c : c = socket[i]
    OBVIOUS
<1>2. stage[i] = "joined" /\ socket[i] # Nothing
    BY HasSocket DEF LeaveServer
<1>3. c \in Connections /\ Good(up[c])
    BY <1>1, <1>2, OwnSocket
<1>4. /\ stage' = [stage EXCEPT ![i] = "idle"]
      /\ IF ClientSendFails(c) THEN UNCHANGED <<up, clientReset>>
         ELSE up' = UpWith(c, <<Leave>>) /\ clientReset' = ClientBounced(c, <<Leave>>)
    BY <1>1 DEF LeaveServer
<1>5. UNCHANGED <<socket, id, ends, down, serverReset, server>>
    BY DEF LeaveServer
<1>6. <<Leave>> \in Seq(Messages)
    BY MessageSequences, MessageTypes
<1>7. /\ up' \in [Connections -> StreamType] /\ Good(up'[c])
      /\ \A d \in Connections : d # c => up'[d] = up[d]
  <2>1. TypeStreams
      BY DEF Inv, Types
  <2>2. CASE up' = up
      BY <1>3, <2>1, <2>2 DEF TypeStreams
  <2>3. CASE up' = UpWith(c, <<Leave>>)
      BY <1>3, <1>6, <2>1, <2>3, UpWithGood
  <2> QED
      BY <1>4, <2>2, <2>3
<1>8. /\ clientReset' \in [Connections -> ResetState]
      /\ clientReset'[c] # "no" => serverEnd[c] = "closed"
      /\ clientReset[c] # "no" => clientReset'[c] = clientReset[c]
      /\ clientReset[c] = "no" => clientReset'[c] # "here"
      /\ \A d \in Connections : d # c => clientReset'[d] = clientReset[d]
  <2>1. clientReset \in [Connections -> ResetState] /\ (clientReset[c] # "no" => serverEnd[c] = "closed")
      BY <1>3 DEF Inv, Types, TypeEnds, EndsAgree, EndAgrees
  <2> QED
      BY <1>3, <1>4, <2>1 DEF ClientBounced, ResetState
<1>9. Stays(i)
  <2>1. /\ stage' \in [Interfaces -> {"idle", "waiting", "joined", "failed", "crashed"}]
        /\ stage'[i] = "idle" /\ \A j \in Interfaces : j # i => stage'[j] = stage[j]
      BY <1>4 DEF Inv, Types, TypeInterfaces
  <2>2. id' \in [Interfaces -> ClientIds \cup {Nothing}] /\ id' = id
      BY <1>5 DEF Inv, Types, TypeInterfaces
  <2>3. down' = down /\ down' \in [Connections -> StreamType] /\ (clientReset[c] # "here" => Good(down[c]))
      BY <1>3, <1>5 DEF Inv, Types, TypeStreams, StreamsFramed
  <2> QED
      BY <1>1, <1>5, <1>7, <1>8, <2>1, <2>2, <2>3 DEF Stays
<1>10. AgreesWith(i)'
    BY <1>4 DEF AgreesWith, Inv, Types, TypeInterfaces
<1>11. TypeTaken'
    BY MessageSequences DEF LeaveServer, NothingTaken, Taken, TypeTaken
<1> QED
    BY <1>2, <1>9, <1>10, <1>11, StaysInv

\* A client reads from its connection, and may send nothing
Reads(i, st, s) == LET c == socket[i] IN
    /\ st \in {"idle", "waiting", "joined"} /\ stage' = [stage EXCEPT ![i] = st]
    /\ Good(s) /\ down' = [down EXCEPT ![c] = s]
    /\ s = down[c] \/ ~(InBacklog(c) \/ IsNew(c))
    /\ UNCHANGED <<socket, id, ends, up, resets, server>>

\* A client that reads keeps its connection.
LEMMA ReadsStays ==
    ASSUME Inv, NEW i \in Interfaces, socket[i] # Nothing, stage[i] # "crashed",
           NEW st, NEW s, Reads(i, st, s)
    PROVE  /\ Stays(i) /\ stage'[i] = st /\ down'[socket[i]] = s
<1>1. PICK c : c = socket[i]
    OBVIOUS
<1>2. c \in Connections /\ Good(up[c])
    BY <1>1, OwnSocket
<1>3. /\ st \in {"idle", "waiting", "joined"} /\ stage' = [stage EXCEPT ![i] = st]
      /\ Good(s) /\ down' = [down EXCEPT ![c] = s]
      /\ s = down[c] \/ ~(InBacklog(c) \/ IsNew(c))
    BY <1>1 DEF Reads
<1>4. /\ UNCHANGED <<socket, ends, serverReset, server>>
      /\ id' = id /\ up' = up /\ clientReset' = clientReset
    BY DEF Reads, resets
<1>5. s \in StreamType
    BY <1>3 DEF Good
<1>6. /\ down' \in [Connections -> StreamType] /\ down'[c] = s
      /\ \A d \in Connections : d # c => down'[d] = down[d]
    BY <1>2, <1>3, <1>5 DEF Inv, Types, TypeStreams
<1>7. /\ stage' \in [Interfaces -> {"idle", "waiting", "joined", "failed", "crashed"}]
      /\ stage'[i] = st /\ \A j \in Interfaces : j # i => stage'[j] = stage[j]
    BY <1>3 DEF Inv, Types, TypeInterfaces
<1>8. down'[c] = down[c] \/ ~(InBacklog(c) \/ IsNew(c))
    BY <1>3, <1>6
<1>9. id' \in [Interfaces -> ClientIds \cup {Nothing}] /\ up' \in [Connections -> StreamType]
    BY <1>4 DEF Inv, Types, TypeInterfaces, TypeStreams
<1>10. clientReset' \in [Connections -> ResetState] /\ (clientReset'[c] # "no" => serverEnd[c] = "closed")
    BY <1>2, <1>4 DEF Inv, Types, TypeEnds, EndsAgree, EndAgrees
<1> QED
    BY <1>1, <1>2, <1>3, <1>4, <1>6, <1>7, <1>8, <1>9, <1>10 DEF Stays

\* On a new stream there is nothing.
LEMMA NoStreamSilent == ASSUME NEW s, s.promised # <<>> \/ s.wire # <<>> PROVE s # NoStream
BY NoStreamGood

\* flushIncoming.
LEMMA FlushInv ==
    ASSUME ~Datagrams, Inv, NEW i \in Interfaces, Flush(i)
    PROVE  Inv' /\ TypeTaken'
<1>1. PICK c : c = socket[i]
    OBVIOUS
<1>2. stage[i] = "joined" /\ socket[i] # Nothing
    BY HasSocket DEF Flush
<1>3. c \in Connections
    BY <1>1, <1>2, OwnSocket
<1>4. CASE Fail(i)
    BY <1>2, <1>4, FailInv
<1>5. CASE ~Fail(i)
  <2>1. PICK n, t :
           /\ n \in Arrivals(down[c])
           /\ t = OneTaken(Arrived(down[c], n))
           /\ clientReset[c] # "here"
           /\ down' = [down EXCEPT ![c] = t.stream]
           /\ stage' = IF t.messages = <<Kick>> THEN [stage EXCEPT ![i] = "idle"] ELSE stage
           /\ ClientTakes(c, t.messages)
           /\ UNCHANGED <<socket, id, ends, up, resets, server>>
      BY <1>1, <1>5 DEF Flush
  <2>2. Good(down[c])
      BY <1>3, <2>1 DEF Inv, StreamsFramed
  <2>3. PICK s, p : s = t.stream /\ p = down[c].promised
      OBVIOUS
  <2>4. /\ Good(s) /\ t.messages \in Seq(Messages) /\ p \in Seq(Messages)
        /\ \/ t.messages = <<>> /\ s.promised = p
           \/ p # <<>> /\ t.messages = <<Head(p)>> /\ s.promised = Tail(p)
      BY <2>1, <2>2, <2>3, OneReceived
  <2>5. PICK st : st = IF t.messages = <<Kick>> THEN "idle" ELSE "joined"
      OBVIOUS
  <2>6. stage' = [stage EXCEPT ![i] = st]
      BY <1>2, <2>1, <2>5 DEF Inv, Types, TypeInterfaces
  <2>7. AgreesWith(i)
      BY DEF Inv, Agreement
  <2>8. Known(c, id[i]) /\ ~Contains(up[c].promised, Leave)
      BY <1>1, <1>2, <2>7 DEF AgreesWith
  <2>9. ~(InBacklog(c) \/ IsNew(c))
      BY <1>1, <1>2, JoinedIsNotPending
  <2>10. Reads(i, st, s)
      BY <1>1, <2>1, <2>3, <2>4, <2>5, <2>6, <2>9 DEF Reads
  <2>11. Stays(i) /\ stage'[i] = st /\ down'[c] = s
      BY <1>1, <1>2, <2>10, ReadsStays
  <2>12. /\ socket' = socket /\ id' = id /\ serverEnd' = serverEnd /\ up' = up
         /\ clientReset' = clientReset /\ clients' = clients
      BY <2>1 DEF ends, resets, server
  <2>13. st = "joined" /\ Contains(p, Kick) => Contains(s.promised, Kick)
    <3> SUFFICES ASSUME st = "joined", Contains(p, Kick) PROVE Contains(s.promised, Kick)
        OBVIOUS
    <3>1. CASE s.promised = p
        BY <3>1
    <3>2. CASE p # <<>> /\ t.messages = <<Head(p)>> /\ s.promised = Tail(p)
      <4>1. Head(p) # Kick
          BY <2>5, <3>2
      <4> QED
          BY <2>4, <3>2, <4>1, ContainsLater
    <3> QED
        BY <2>4, <3>1, <3>2
  <2>14. AgreesWith(i)'
    <3>1. Contains(down[c].promised, Kick) <=> Contains(p, Kick)
        BY <2>3
    <3>2. st = "joined" => Known(c, id[i])'
        BY <2>8, <2>11, <2>12, <2>13, <3>1 DEF Known
    <3>3. st # "waiting" /\ socket'[i] = c /\ id'[i] = id[i] /\ up'[c] = up[c]
        BY <1>1, <2>5, <2>12
    <3> QED
        BY <2>8, <2>11, <2>12, <3>2, <3>3 DEF AgreesWith
  <2>15. TypeTaken'
      BY <2>1, <2>4 DEF ClientTakes, Taken, TypeTaken
  <2> QED
      BY <1>2, <2>11, <2>14, <2>15, StaysInv
<1> QED
    BY <1>4, <1>5

\* join receives its answer.
LEMMA AnswerInv ==
    ASSUME ~Datagrams, Inv, NEW i \in Interfaces, Answer(i)
    PROVE  Inv' /\ TypeTaken'
<1>1. PICK c : c = socket[i]
    OBVIOUS
<1>2. stage[i] = "waiting" /\ socket[i] # Nothing /\ stage[i] # "crashed"
    BY HasSocket DEF Answer
<1>3. c \in Connections /\ Good(up[c])
    BY <1>1, <1>2, OwnSocket
<1>4. AgreesWith(i)
    BY DEF Inv, Agreement
<1>5. CASE Fail(i)
    BY <1>2, <1>5, FailInv
<1>6. CASE ~Fail(i)
  <2>1. PICK n, t, message :
           /\ n \in Arrivals(down[c])
           /\ t = OneTaken(Arrived(down[c], n))
           /\ message = IF t.messages = <<>> THEN <<0>> ELSE t.messages[1]
           /\ clientReset[c] # "here"
           /\ \/ /\ t.messages = <<>> /\ n > 0
                 /\ down' = [down EXCEPT ![c] = t.stream]
                 /\ NothingTaken
                 /\ UNCHANGED <<interface, ends, up, resets, server>>
              \/ /\ Head(message) = 2
                 /\ ~ClientSendFails(c)
                 /\ stage' = [stage EXCEPT ![i] = "joined"]
                 /\ id' = [id EXCEPT ![i] = message[2]]
                 /\ down' = [down EXCEPT ![c] = t.stream]
                 /\ up' = UpWith(c, <<GetSetting>>)
                 /\ clientReset' = ClientBounced(c, <<GetSetting>>)
                 /\ ClientTakes(c, t.messages)
                 /\ UNCHANGED <<socket, ends, serverReset, server>>
              \/ /\ t.messages # <<>> /\ Head(message) # 2
                 /\ stage' = [stage EXCEPT ![i] = "idle"]
                 /\ CloseSocket(i, <<>>)
                 /\ ClientTakes(c, t.messages)
                 /\ UNCHANGED <<id, server>>
      BY <1>1, <1>6 DEF Answer
  <2>2. Good(down[c])
      BY <1>3, <2>1 DEF Inv, StreamsFramed
  <2>3. PICK s, p : s = t.stream /\ p = down[c].promised
      OBVIOUS
  <2>4. /\ n \in 0 .. Len(down[c].wire)
        /\ Good(s) /\ s \in StreamType /\ t.messages \in Seq(Messages) /\ p \in Seq(Messages)
        /\ \/ t.messages = <<>> /\ s.promised = p
           \/ /\ p # <<>> /\ Head(p) \in Messages
              /\ t.messages = <<Head(p)>> /\ s.promised = Tail(p)
      BY <2>1, <2>2, <2>3, OneReceived
  <2>5. CASE /\ t.messages = <<>> /\ n > 0
             /\ down' = [down EXCEPT ![c] = t.stream]
             /\ NothingTaken
             /\ UNCHANGED <<interface, ends, up, resets, server>>
    <3>1. down[c] # NoStream
      <4>1. PICK l : l = Len(down[c].wire)
          OBVIOUS
      <4>2. ~(l = 0)
          BY <2>4, <2>5, <4>1
      <4>3. down[c].wire # <<>>
          BY <4>1, <4>2
      <4> QED
          BY <4>3, NoStreamSilent
    <3>2. ~(InBacklog(c) \/ IsNew(c))
        BY <1>3, <3>1, PendingIsSilent
    <3>3. stage' = [stage EXCEPT ![i] = "waiting"] /\ socket' = socket /\ id' = id
        BY <1>2, <2>5 DEF interface, Inv, Types, TypeInterfaces
    <3>4. Reads(i, "waiting", s)
        BY <1>1, <2>3, <2>4, <2>5, <3>2, <3>3 DEF Reads
    <3>5. Stays(i) /\ stage'[i] = "waiting" /\ down'[c] = s
        BY <1>1, <1>2, <3>4, ReadsStays
    <3>6. /\ serverEnd' = serverEnd /\ up' = up /\ clientReset' = clientReset /\ clients' = clients
        BY <2>5 DEF ends, resets, server
    <3>7. s.promised = p
        BY <2>4, <2>5
    <3>8. AgreesWith(i)'
        BY <1>1, <1>2, <1>4, <2>3, <3>3, <3>5, <3>6, <3>7, AgreementKept
    <3>9. TypeTaken'
        BY <2>5, MessageSequences DEF NothingTaken, Taken, TypeTaken
    <3> QED
        BY <1>2, <3>5, <3>8, <3>9, StaysInv
  <2>6. CASE /\ Head(message) = 2
             /\ ~ClientSendFails(c)
             /\ stage' = [stage EXCEPT ![i] = "joined"]
             /\ id' = [id EXCEPT ![i] = message[2]]
             /\ down' = [down EXCEPT ![c] = t.stream]
             /\ up' = UpWith(c, <<GetSetting>>)
             /\ clientReset' = ClientBounced(c, <<GetSetting>>)
             /\ ClientTakes(c, t.messages)
             /\ UNCHANGED <<socket, ends, serverReset, server>>
    <3>1. t.messages # <<>>
      <4>1. Head(<<0>>) = 0
          OBVIOUS
      <4> QED
          BY <2>1, <2>6, <4>1
    <3>2. /\ p # <<>> /\ Head(p) \in Messages /\ t.messages = <<Head(p)>> /\ s.promised = Tail(p)
        BY <2>4, <3>1
    <3>3. message = Head(p)
        BY <2>1, <3>1, <3>2
    <3>4. PICK k : k = message[2]
        OBVIOUS
    <3>5. k \in ClientIds /\ message = Accept(k)
        BY <2>6, <3>2, <3>3, <3>4, AcceptedId
    <3>6. Known(c, k) /\ ~Contains(up[c].promised, Leave)
        BY <1>1, <1>2, <1>4, <2>3, <3>2, <3>3, <3>5 DEF AgreesWith
    <3>7. ~(InBacklog(c) \/ IsNew(c))
      <4>1. down[c] # NoStream
          BY <2>3, <3>2, NoStreamSilent
      <4> QED
          BY <1>3, <4>1, PendingIsSilent
    <3>8. /\ stage' \in [Interfaces -> {"idle", "waiting", "joined", "failed", "crashed"}]
          /\ stage'[i] = "joined" /\ id'[i] = k
          /\ id' \in [Interfaces -> ClientIds \cup {Nothing}]
          /\ \A j \in Interfaces : j # i => stage'[j] = stage[j] /\ id'[j] = id[j]
        BY <2>6, <3>4, <3>5 DEF Inv, Types, TypeInterfaces
    <3>9. /\ down' \in [Connections -> StreamType] /\ down'[c] = s
          /\ \A d \in Connections : d # c => down'[d] = down[d]
        BY <1>3, <2>3, <2>4, <2>6 DEF Inv, Types, TypeStreams
    <3>10. <<GetSetting>> \in Seq(Messages) /\ up[c].promised \in Seq(Messages)
        BY <1>3, MessageSequences, MessageTypes, StreamParts DEF Good
    <3>11. /\ up' \in [Connections -> StreamType] /\ Good(up'[c])
           /\ \A d \in Connections : d # c => up'[d] = up[d]
           /\ up'[c].promised = IF serverEnd[c] = "closed" THEN up[c].promised
                                ELSE up[c].promised \o <<GetSetting>>
        BY <1>3, <2>6, <3>10, UpWithGood DEF Inv, Types
    <3>12. ~Contains(up'[c].promised, Leave)
      <4>1. PICK q, g : q = up[c].promised /\ g = <<GetSetting>>
          OBVIOUS
      <4>2. ~Contains(g, Leave)
          BY <4>1, ContainsOne, MessageTypes
      <4>3. q \in Seq(Messages) /\ g \in Seq(Messages)
          BY <3>10, <4>1
      <4>4. ~Contains(q \o g, Leave)
          BY <3>6, <4>1, <4>2, <4>3, ContainsJoined
      <4> QED
          BY <3>6, <3>11, <4>1, <4>4, Zenon
    <3>13. /\ clientReset' \in [Connections -> ResetState]
           /\ clientReset'[c] # "no" => serverEnd[c] = "closed"
           /\ clientReset[c] # "no" => clientReset'[c] = clientReset[c]
           /\ clientReset[c] = "no" => clientReset'[c] # "here"
           /\ \A d \in Connections : d # c => clientReset'[d] = clientReset[d]
      <4>1. clientReset \in [Connections -> ResetState] /\ (clientReset[c] # "no" => serverEnd[c] = "closed")
          BY <1>3 DEF Inv, Types, TypeEnds, EndsAgree, EndAgrees
      <4> QED
          BY <1>3, <2>6, <4>1 DEF ClientBounced, ResetState
    <3>14. Stays(i)
        BY <1>1, <2>4, <2>6, <3>7, <3>8, <3>9, <3>11, <3>13 DEF Stays
    <3>15. Contains(p, Kick) => Contains(s.promised, Kick)
      <4>1. Head(p) # Kick
          BY <3>3, <3>5, MessageTypes
      <4> QED
          BY <2>4, <3>2, <4>1, ContainsLater
    <3>16. serverEnd' = serverEnd /\ clients' = clients /\ socket' = socket
        BY <2>6 DEF ends, server
    <3>17. Known(c, k)'
        BY <2>3, <3>6, <3>9, <3>13, <3>15, <3>16 DEF Known
    <3>18. AgreesWith(i)'
        BY <1>1, <3>8, <3>12, <3>16, <3>17 DEF AgreesWith
    <3>19. TypeTaken'
        BY <2>4, <2>6 DEF ClientTakes, Taken, TypeTaken
    <3> QED
        BY <1>2, <3>14, <3>18, <3>19, StaysInv
  <2>7. CASE /\ t.messages # <<>> /\ Head(message) # 2
             /\ stage' = [stage EXCEPT ![i] = "idle"]
             /\ CloseSocket(i, <<>>)
             /\ ClientTakes(c, t.messages)
             /\ UNCHANGED <<id, server>>
    <3>1. Closes(i, <<>>, "idle")
        BY <2>7 DEF CloseSocket, Closes
    <3>2. TypeTaken'
        BY <2>4, <2>7 DEF ClientTakes, Taken, TypeTaken
    <3> QED
        BY <1>2, <3>1, <3>2, MessageSequences, ClosesInv
  <2> QED
      BY <2>1, <2>5, <2>6, <2>7
<1> QED
    BY <1>5, <1>6

-----------------------------------------------------------------------------
(* The timers and the network *)

\* The loop turns to its clients.
LEMMA StartClientsInv ==
    ASSUME Inv, StartClients
    PROVE  Inv' /\ TypeTaken'
<1>1. /\ phase' = "clients" /\ it' = 1 /\ todo' = DOMAIN clients
      /\ UNCHANGED <<interface, ends, up, down, resets, state, backlog, newConnections, clients>>
    BY DEF StartClients
<1>2. /\ stage' = stage /\ socket' = socket /\ id' = id /\ clientEnd' = clientEnd
      /\ serverEnd' = serverEnd /\ up' = up /\ down' = down /\ serverReset' = serverReset
      /\ clientReset' = clientReset /\ state' = state /\ backlog' = backlog
      /\ newConnections' = newConnections /\ clients' = clients
    BY <1>1 DEF interface, ends, resets
<1>3. TypeLoop'
  <2>1. DOMAIN clients \subseteq ClientIds
      BY DEF Inv, Types, TypeQueues
  <2>2. IsFiniteSet(DOMAIN clients)
      BY <2>1, JoiningAssumption, FS_Subset
  <2>3. 1 \in 1 .. Len(newConnections) + 1
    <3>1. Len(newConnections) \in Nat
        BY LenProperties DEF Inv, Types, TypeQueues
    <3> QED
        BY <3>1
  <2> QED
      BY <1>1, <1>2, <2>1, <2>2, <2>3 DEF Inv, Types, TypeLoop
<1>4. LoopOK'
    BY <1>1, <1>2 DEF Inv, LoopOK
<1>5. /\ TypeInterfaces' /\ TypeEnds' /\ TypeStreams' /\ TypeQueues' /\ StreamsFramed' /\ Once'
      /\ SocketsOwned'
    BY <1>2 DEF Inv, Types, TypeInterfaces, TypeEnds, TypeStreams, TypeQueues, StreamsFramed, Once,
                SocketsOwned
<1>6. EndsAgree' /\ Agreement'
    BY <1>2 DEF Inv, EndsAgree, EndAgrees, InBacklog, IsNew, IsClient, Agreement, AgreesWith, Known
<1>7. TypeTaken'
    BY MessageSequences DEF StartClients, NothingTaken, Taken, TypeTaken
<1> QED
    BY <1>3, <1>4, <1>5, <1>6, <1>7 DEF Inv, Types

\* The loop starts again.
LEMMA NextRoundInv ==
    ASSUME Inv, NextRound
    PROVE  Inv' /\ TypeTaken'
<1>1. /\ phase' = "accept" /\ phase = "clients"
      /\ UNCHANGED <<interface, ends, up, down, resets, state, it, todo, backlog, newConnections, clients>>
    BY DEF NextRound, Serving
<1>2. /\ stage' = stage /\ socket' = socket /\ id' = id /\ clientEnd' = clientEnd
      /\ serverEnd' = serverEnd /\ up' = up /\ down' = down /\ serverReset' = serverReset
      /\ clientReset' = clientReset /\ state' = state /\ backlog' = backlog /\ it' = it
      /\ todo' = todo /\ newConnections' = newConnections /\ clients' = clients
    BY <1>1 DEF interface, ends, resets
<1>3. TypeLoop' /\ LoopOK'
    BY <1>1, <1>2 DEF Inv, Types, TypeLoop, LoopOK
<1>5. /\ TypeInterfaces' /\ TypeEnds' /\ TypeStreams' /\ TypeQueues' /\ StreamsFramed' /\ Once'
      /\ SocketsOwned'
    BY <1>2 DEF Inv, Types, TypeInterfaces, TypeEnds, TypeStreams, TypeQueues, StreamsFramed, Once,
                SocketsOwned
<1>6. EndsAgree' /\ Agreement'
    BY <1>2 DEF Inv, EndsAgree, EndAgrees, InBacklog, IsNew, IsClient, Agreement, AgreesWith, Known
<1>7. TypeTaken'
    BY MessageSequences DEF NextRound, NothingTaken, Taken, TypeTaken
<1> QED
    BY <1>3, <1>5, <1>6, <1>7 DEF Inv, Types

\* The invariant speaks of the variables only.
LEMMA StutterInv ==
    ASSUME Inv, UNCHANGED vars
    PROVE  Inv'
<1>2. /\ stage' = stage /\ socket' = socket /\ id' = id /\ clientEnd' = clientEnd
      /\ serverEnd' = serverEnd /\ up' = up /\ down' = down /\ serverReset' = serverReset
      /\ clientReset' = clientReset /\ state' = state /\ backlog' = backlog /\ it' = it
      /\ phase' = phase
      /\ todo' = todo /\ newConnections' = newConnections /\ clients' = clients
    BY DEF vars, interface, ends, resets, server
<1>3. TypeLoop' /\ LoopOK'
    BY <1>2 DEF Inv, Types, TypeLoop, LoopOK
<1>5. /\ TypeInterfaces' /\ TypeEnds' /\ TypeStreams' /\ TypeQueues' /\ StreamsFramed' /\ Once'
      /\ SocketsOwned'
    BY <1>2 DEF Inv, Types, TypeInterfaces, TypeEnds, TypeStreams, TypeQueues, StreamsFramed, Once,
                SocketsOwned
<1>6. EndsAgree' /\ Agreement'
    BY <1>2 DEF Inv, EndsAgree, EndAgrees, InBacklog, IsNew, IsClient, Agreement, AgreesWith, Known
<1> QED
    BY <1>3, <1>5, <1>6 DEF Inv, Types

\* An element of newConnections
NewRecord == [connection : Connections, late : BOOLEAN]

\* The timer of a connection runs out.
LEMMA FiveSecondsPassInv ==
    ASSUME Inv, FiveSecondsPass
    PROVE  Inv' /\ TypeTaken'
<1>1. PICK k \in DOMAIN newConnections :
         /\ newConnections' = [newConnections EXCEPT ![k].late = TRUE]
         /\ NothingTaken
         /\ UNCHANGED <<interface, ends, up, down, resets, state, phase, it, todo, backlog, clients>>
    BY DEF FiveSecondsPass
<1>2. /\ stage' = stage /\ socket' = socket /\ id' = id /\ clientEnd' = clientEnd
      /\ serverEnd' = serverEnd /\ up' = up /\ down' = down /\ serverReset' = serverReset
      /\ clientReset' = clientReset /\ state' = state /\ backlog' = backlog /\ it' = it
      /\ phase' = phase /\ todo' = todo /\ clients' = clients
    BY <1>1 DEF interface, ends, resets
<1>3. PICK n, r : n = Len(newConnections) /\ r = [newConnections[k] EXCEPT !.late = TRUE]
    OBVIOUS
<1>4. newConnections \in Seq(NewRecord) /\ n \in Nat /\ DOMAIN newConnections = 1 .. n
    BY <1>3, LenProperties DEF Inv, Types, TypeQueues, NewRecord
<1>5. newConnections[k] \in NewRecord
    BY <1>3, <1>4, ElementOfSeq
<1>6. r \in NewRecord /\ r.connection = newConnections[k].connection
    BY <1>3, <1>5 DEF NewRecord
<1>7. newConnections' = [newConnections EXCEPT ![k] = r]
    BY <1>1, <1>3
<1>8. /\ newConnections' \in Seq(NewRecord) /\ Len(newConnections') = n
      /\ DOMAIN newConnections' = 1 .. n
      /\ \A l \in 1 .. n : newConnections'[l] = IF l = k THEN r ELSE newConnections[l]
    BY <1>3, <1>4, <1>6, <1>7, ExceptSeq
<1>9. \A l \in 1 .. n : newConnections'[l].connection = newConnections[l].connection
    BY <1>6, <1>8
<1>10. TypeLoop' /\ LoopOK'
    BY <1>2, <1>3, <1>8 DEF Inv, Types, TypeLoop, LoopOK
<1>11. TypeQueues'
    BY <1>2, <1>8 DEF Inv, Types, TypeQueues, NewRecord
<1>12. /\ TypeInterfaces' /\ TypeEnds' /\ TypeStreams' /\ StreamsFramed' /\ SocketsOwned'
    BY <1>2 DEF Inv, Types, TypeInterfaces, TypeEnds, TypeStreams, StreamsFramed, SocketsOwned
<1>13. Once'
  <2>1. \A j, l \in DOMAIN newConnections' :
           newConnections'[j].connection = newConnections'[l].connection => j = l
      BY <1>4, <1>8, <1>9 DEF Inv, Once
  <2> QED
      BY <1>2, <2>1 DEF Inv, Once
<1>14. \A d : (InBacklog(d)' <=> InBacklog(d)) /\ (IsNew(d)' <=> IsNew(d)) /\ (IsClient(d)' <=> IsClient(d))
    BY <1>2, <1>4, <1>8, <1>9 DEF InBacklog, IsNew, IsClient
<1>15. EndsAgree'
    BY <1>2, <1>14 DEF Inv, EndsAgree, EndAgrees
<1>16. Agreement'
    BY <1>2 DEF Inv, Agreement, AgreesWith, Known
<1>17. TypeTaken'
    BY <1>1, MessageSequences DEF NothingTaken, Taken, TypeTaken
<1> QED
    BY <1>10, <1>11, <1>12, <1>13, <1>15, <1>16, <1>17 DEF Inv, Types

\* A reset takes the bytes that were not read, not what was promised.
LEMMA WireLost ==
    ASSUME NEW s \in StreamType
    PROVE  [s EXCEPT !.wire = <<>>] \in StreamType /\ [s EXCEPT !.wire = <<>>].promised = s.promised
<1>1. <<>> \in Seq(Byte)
    BY EmptySeq
<1> QED
    BY <1>1 DEF StreamType

\* A reset arrives.
LEMMA ResetArrivesInv ==
    ASSUME Inv, NEW c \in Connections, ResetArrives(c)
    PROVE  Inv' /\ TypeTaken'
<1>1. /\ stage' = stage /\ socket' = socket /\ id' = id /\ clientEnd' = clientEnd
      /\ serverEnd' = serverEnd /\ state' = state /\ backlog' = backlog /\ it' = it
      /\ phase' = phase /\ todo' = todo /\ newConnections' = newConnections /\ clients' = clients
    BY DEF ResetArrives, interface, ends, server
<1>2. /\ TypeLoop' /\ LoopOK' /\ TypeQueues' /\ Once' /\ TypeInterfaces' /\ SocketsOwned'
    BY <1>1 DEF Inv, Types, TypeLoop, LoopOK, TypeQueues, Once, TypeInterfaces, SocketsOwned
<1>3. \A d : (InBacklog(d)' <=> InBacklog(d)) /\ (IsNew(d)' <=> IsNew(d)) /\ (IsClient(d)' <=> IsClient(d))
    BY <1>1 DEF InBacklog, IsNew, IsClient
<1>4. TypeTaken'
    BY MessageSequences DEF ResetArrives, NothingTaken, Taken, TypeTaken
<1>5. up[c] \in StreamType /\ down[c] \in StreamType
    BY DEF Inv, Types, TypeStreams
<1>6. CASE /\ serverReset[c] = "coming"
           /\ serverReset' = [serverReset EXCEPT ![c] = "here"]
           /\ up' = [up EXCEPT ![c].wire = <<>>]
           /\ UNCHANGED <<clientReset, down>>
  <2>1. PICK s : s = [up[c] EXCEPT !.wire = <<>>]
      OBVIOUS
  <2>2. s \in StreamType /\ s.promised = up[c].promised
      BY <1>5, <2>1, WireLost
  <2>3. up' = [up EXCEPT ![c] = s]
      BY <1>6, <2>1
  <2>4. /\ up' \in [Connections -> StreamType] /\ up'[c] = s
        /\ \A d \in Connections : d # c => up'[d] = up[d]
      BY <2>2, <2>3 DEF Inv, Types, TypeStreams
  <2>5. clientEnd[c] = "closed"
      BY <1>6 DEF Inv, EndsAgree, EndAgrees
  <2>6. /\ serverReset' \in [Connections -> ResetState] /\ serverReset'[c] = "here"
        /\ \A d \in Connections : d # c => serverReset'[d] = serverReset[d]
      BY <1>6 DEF Inv, Types, TypeEnds, ResetState
  <2>7. TypeEnds' /\ TypeStreams'
      BY <1>1, <1>6, <2>4, <2>6 DEF Inv, Types, TypeEnds, TypeStreams
  <2>8. StreamsFramed'
      BY <1>6, <2>4, <2>6 DEF Inv, StreamsFramed
  <2>9. ~(InBacklog(c) \/ IsNew(c))
      BY <1>6 DEF Inv, EndsAgree, EndAgrees
  <2>10. EndsAgree'
      BY <1>1, <1>3, <1>6, <2>4, <2>5, <2>6, <2>9 DEF Inv, EndsAgree, EndAgrees
  <2>11. Agreement'
    <3> SUFFICES ASSUME NEW i \in Interfaces PROVE AgreesWith(i)'
        BY DEF Agreement
    <3>1. AgreesWith(i)
        BY DEF Inv, Agreement
    <3>2. stage[i] \in {"waiting", "joined"} => socket[i] \in Connections
        BY HasSocket, OwnSocket
    <3>3. \A d \in Connections : up'[d].promised = up[d].promised
        BY <2>2, <2>4
    <3> QED
        BY <1>1, <1>6, <3>1, <3>2, <3>3, AgreementKept
  <2> QED
      BY <1>2, <1>4, <2>7, <2>8, <2>10, <2>11 DEF Inv, Types
<1>7. CASE /\ clientReset[c] = "coming"
           /\ clientReset' = [clientReset EXCEPT ![c] = "here"]
           /\ down' = [down EXCEPT ![c].wire = <<>>]
           /\ UNCHANGED <<serverReset, up>>
  <2>1. PICK s : s = [down[c] EXCEPT !.wire = <<>>]
      OBVIOUS
  <2>2. s \in StreamType /\ s.promised = down[c].promised
      BY <1>5, <2>1, WireLost
  <2>3. down' = [down EXCEPT ![c] = s]
      BY <1>7, <2>1
  <2>4. /\ down' \in [Connections -> StreamType] /\ down'[c] = s
        /\ \A d \in Connections : d # c => down'[d] = down[d]
      BY <2>2, <2>3 DEF Inv, Types, TypeStreams
  <2>5. serverEnd[c] = "closed"
      BY <1>7 DEF Inv, EndsAgree, EndAgrees
  <2>6. /\ clientReset' \in [Connections -> ResetState] /\ clientReset'[c] = "here"
        /\ \A d \in Connections : d # c => clientReset'[d] = clientReset[d]
      BY <1>7 DEF Inv, Types, TypeEnds, ResetState
  <2>7. TypeEnds' /\ TypeStreams'
      BY <1>1, <1>7, <2>4, <2>6 DEF Inv, Types, TypeEnds, TypeStreams
  <2>8. StreamsFramed'
      BY <1>7, <2>4, <2>6 DEF Inv, StreamsFramed
  <2>9. ~(InBacklog(c) \/ IsNew(c)) /\ clientEnd[c] # "none"
      BY <2>5 DEF Inv, EndsAgree, EndAgrees
  <2>10. EndsAgree'
      BY <1>1, <1>3, <1>7, <2>4, <2>5, <2>6, <2>9 DEF Inv, EndsAgree, EndAgrees
  <2>11. Agreement'
    <3> SUFFICES ASSUME NEW i \in Interfaces PROVE AgreesWith(i)'
        BY DEF Agreement
    <3>1. AgreesWith(i)
        BY DEF Inv, Agreement
    <3>2. stage[i] \in {"waiting", "joined"} => socket[i] \in Connections
        BY HasSocket, OwnSocket
    <3>3. \A d \in Connections : /\ down'[d].promised = down[d].promised
                                 /\ clientReset[d] # "no" => clientReset'[d] # "no"
        BY <2>2, <2>4, <2>6
    <3> QED
        BY <1>1, <1>7, <3>1, <3>2, <3>3, AgreementKept
  <2> QED
      BY <1>2, <1>4, <2>7, <2>8, <2>10, <2>11 DEF Inv, Types
<1> QED
    BY <1>6, <1>7 DEF ResetArrives

-----------------------------------------------------------------------------
(* fuseki *)

\* The queue AcceptAll makes, and its elements
AcceptedAs(all) ==
    all = newConnections \o [k \in DOMAIN backlog |-> [connection |-> backlog[k], late |-> FALSE]]

\* The queue after n more were accepted, element by element
AcceptedOf(m, n, all) ==
    /\ m \in Nat /\ n \in Nat /\ DOMAIN newConnections = 1 .. m /\ DOMAIN backlog = 1 .. n
    /\ all \in Seq(NewRecord) /\ Len(all) = m + n /\ DOMAIN all = 1 .. m + n
    /\ \A k \in 1 .. m : all[k].connection = newConnections[k].connection
    /\ \A k \in 1 .. n : all[m + k].connection = backlog[k]

\* The queue after all that waited were accepted.
LEMMA AcceptedQueue ==
    ASSUME Inv, NEW all, AcceptedAs(all)
    PROVE  AcceptedOf(Len(newConnections), Len(backlog), all)
<1>22. PICK m, n : m = Len(newConnections) /\ n = Len(backlog)
    OBVIOUS
<1>1. newConnections \in Seq(NewRecord) /\ backlog \in Seq(Connections)
    BY DEF Inv, Types, TypeQueues, NewRecord
<1>2. m \in Nat /\ n \in Nat /\ DOMAIN newConnections = 1 .. m /\ DOMAIN backlog = 1 .. n
    BY <1>1, <1>22, LenProperties
<1>3. PICK added : added = [k \in DOMAIN backlog |-> [connection |-> backlog[k], late |-> FALSE]]
    OBVIOUS
<1>4. \A k \in 1 .. n : backlog[k] \in Connections
    BY <1>1, <1>2, ElementOfSeq
<1>5. \A k \in 1 .. n : added[k] \in NewRecord /\ added[k].connection = backlog[k]
    BY <1>2, <1>3, <1>4 DEF NewRecord
<1>6. added \in Seq(NewRecord) /\ Len(added) = n
  <2>1. added \in [1 .. n -> NewRecord]
      BY <1>2, <1>3, <1>5
  <2> QED
      BY <1>2, <2>1
<1>7. all = newConnections \o added
    BY <1>3 DEF AcceptedAs
<1>8. PICK q, r : q = newConnections /\ r = added
    OBVIOUS
<1>9. q \in Seq(NewRecord) /\ r \in Seq(NewRecord) /\ Len(q) = m /\ Len(r) = n
    BY <1>1, <1>6, <1>8, <1>22
<1>10. /\ q \o r \in Seq(NewRecord) /\ Len(q \o r) = m + n
       /\ \A k \in 1 .. m + n : (q \o r)[k] = IF k <= m THEN q[k] ELSE r[k - m]
  <2>1. PICK lq, lr : lq = Len(q) /\ lr = Len(r)
      OBVIOUS
  <2>2. q \in Seq(NewRecord) /\ r \in Seq(NewRecord)
      BY <1>9
  <2>3. /\ q \o r \in Seq(NewRecord) /\ Len(q \o r) = lq + lr
        /\ \A k \in 1 .. lq + lr : (q \o r)[k] = IF k <= lq THEN q[k] ELSE r[k - lq]
      BY <2>1, <2>2, ConcatProperties
  <2>4. lq = m /\ lr = n
      BY <1>9, <2>1
  <2> QED
      BY <2>3, <2>4
<1>11. DOMAIN (q \o r) = 1 .. m + n
    BY <1>10, LenProperties
<1>12. \A k \in 1 .. m : k \in 1 .. m + n /\ k <= m
    BY <1>2
<1>13. \A k \in 1 .. n : m + k \in 1 .. m + n /\ ~(m + k <= m) /\ (m + k) - m = k
    BY <1>2
<1>14. all = q \o r
    BY <1>7, <1>8, Zenon
<1>15. PICK b : b = q \o r
    OBVIOUS
<1>16. /\ b \in Seq(NewRecord) /\ Len(b) = m + n /\ DOMAIN b = 1 .. m + n
       /\ \A k \in 1 .. m + n : b[k] = IF k <= m THEN q[k] ELSE r[k - m]
    BY <1>10, <1>11, <1>15, Zenon
<1>17. /\ \A k \in 1 .. m : b[k] = newConnections[k]
       /\ \A k \in 1 .. n : b[m + k] = added[k]
    BY <1>8, <1>12, <1>13, <1>16
<1>18. all = b
    BY <1>14, <1>15, Zenon
<1>19. all \in Seq(NewRecord) /\ Len(all) = m + n /\ DOMAIN all = 1 .. m + n
    BY <1>16, <1>18, Zenon
<1>20. \A k \in 1 .. m : all[k].connection = newConnections[k].connection
    BY <1>17, <1>18, Zenon
<1>21. \A k \in 1 .. n : all[m + k].connection = backlog[k]
  <2> SUFFICES ASSUME NEW k \in 1 .. n PROVE all[m + k].connection = backlog[k]
      OBVIOUS
  <2>1. PICK j : j = m + k
      OBVIOUS
  <2>2. b[j] = added[k]
      BY <1>17, <2>1
  <2>3. all[j] = added[k]
      BY <1>18, <2>2, Zenon
  <2> QED
      BY <1>5, <2>1, <2>3
<1> QED
    BY <1>2, <1>19, <1>20, <1>21, <1>22 DEF AcceptedOf

\* All connections that wait are accepted.
LEMMA AcceptAllInv ==
    ASSUME Inv, AcceptAll
    PROVE  Inv' /\ TypeTaken'
<1>1. /\ AcceptedAs(newConnections')
      /\ serverEnd' = With(serverEnd, Range(backlog), "open")
      /\ backlog' = <<>> /\ phase' = "new" /\ phase = "accept"
    BY DEF AcceptAll, Serving, AcceptedAs
<1>2. /\ stage' = stage /\ socket' = socket /\ id' = id /\ clientEnd' = clientEnd
      /\ up' = up /\ down' = down /\ serverReset' = serverReset
      /\ clientReset' = clientReset /\ state' = state /\ it' = it
      /\ todo' = todo /\ clients' = clients
    BY DEF AcceptAll, interface, resets
<1>3. PICK m, n : m = Len(newConnections) /\ n = Len(backlog)
    OBVIOUS
<1>4. /\ m \in Nat /\ n \in Nat /\ DOMAIN newConnections = 1 .. m /\ DOMAIN backlog = 1 .. n
      /\ newConnections' \in Seq(NewRecord) /\ Len(newConnections') = m + n
      /\ DOMAIN newConnections' = 1 .. m + n
      /\ \A k \in 1 .. m : newConnections'[k].connection = newConnections[k].connection
      /\ \A k \in 1 .. n : newConnections'[m + k].connection = backlog[k]
  <2>1. PICK all : all = newConnections'
      OBVIOUS
  <2>2. AcceptedAs(all)
      BY <1>1, <2>1
  <2>3. /\ m \in Nat /\ n \in Nat /\ DOMAIN newConnections = 1 .. m /\ DOMAIN backlog = 1 .. n
        /\ all \in Seq(NewRecord) /\ Len(all) = m + n /\ DOMAIN all = 1 .. m + n
        /\ \A k \in 1 .. m : all[k].connection = newConnections[k].connection
        /\ \A k \in 1 .. n : all[m + k].connection = backlog[k]
    <3>1. AcceptedOf(Len(newConnections), Len(backlog), all)
        BY <2>2, AcceptedQueue
    <3>2. AcceptedOf(m, n, all)
        BY <1>3, <3>1
    <3> QED
        BY <3>2 DEF AcceptedOf
  <2> QED
      BY <2>1, <2>3
<1>5. \A k \in 1 .. m + n : k \in 1 .. m \/ \E h \in 1 .. n : k = m + h
  <2> SUFFICES ASSUME NEW k \in 1 .. m + n, ~(k \in 1 .. m) PROVE \E h \in 1 .. n : k = m + h
      OBVIOUS
  <2>1. k - m \in 1 .. n /\ k = m + (k - m)
      BY <1>4
  <2> QED
      BY <2>1
<1>6. (\A k \in 1 .. m : k \in 1 .. m + n) /\ (\A k \in 1 .. n : m + k \in 1 .. m + n)
    BY <1>4
<1>7. /\ \A d : IsNew(d)' <=> IsNew(d) \/ InBacklog(d)
      /\ \A d : IsClient(d)' <=> IsClient(d)
      /\ \A d : ~InBacklog(d)'
  <2>1. ASSUME NEW d PROVE IsNew(d)' <=> IsNew(d) \/ InBacklog(d)
    <3>1. ASSUME NEW k \in 1 .. m + n, newConnections'[k].connection = d
          PROVE  IsNew(d) \/ InBacklog(d)
      <4>1. CASE k \in 1 .. m
          BY <1>4, <3>1, <4>1 DEF IsNew
      <4>2. ASSUME NEW h \in 1 .. n, k = m + h PROVE InBacklog(d)
          BY <1>4, <3>1, <4>2 DEF InBacklog
      <4> QED
          BY <1>5, <4>1, <4>2
    <3>2. ASSUME NEW k \in 1 .. m, newConnections[k].connection = d PROVE IsNew(d)'
      <4>1. k \in 1 .. m + n /\ newConnections'[k].connection = d
          BY <1>4, <1>6, <3>2
      <4> QED
          BY <1>4, <4>1 DEF IsNew
    <3>3. ASSUME NEW k \in 1 .. n, backlog[k] = d PROVE IsNew(d)'
      <4>1. PICK j : j = m + k
          OBVIOUS
      <4>2. j \in 1 .. m + n /\ newConnections'[j].connection = d
          BY <1>4, <1>6, <3>3, <4>1
      <4> QED
          BY <1>4, <4>2 DEF IsNew
    <3>4. IsNew(d)' => \E k \in 1 .. m + n : newConnections'[k].connection = d
        BY <1>4 DEF IsNew
    <3>5. /\ IsNew(d) => \E k \in 1 .. m : newConnections[k].connection = d
          /\ InBacklog(d) => \E k \in 1 .. n : backlog[k] = d
        BY <1>4 DEF IsNew, InBacklog
    <3> QED
        BY <3>1, <3>2, <3>3, <3>4, <3>5
  <2>2. ASSUME NEW d PROVE ~InBacklog(d)'
    <3>1. DOMAIN backlog' = {}
        BY <1>1
    <3> QED
        BY <3>1 DEF InBacklog
  <2> QED
      BY <1>2, <2>1, <2>2 DEF IsClient
<1>8. /\ serverEnd' \in [Connections -> End]
      /\ \A d \in Connections : serverEnd'[d] = IF InBacklog(d) THEN "open" ELSE serverEnd[d]
  <2>1. serverEnd \in [Connections -> End]
      BY DEF Inv, Types, TypeEnds
  <2>2. \A d : d \in Range(backlog) <=> InBacklog(d)
      BY DEF Range, InBacklog
  <2>3. serverEnd' = [d \in Connections |-> IF d \in Range(backlog) THEN "open" ELSE serverEnd[d]]
      BY <1>1, <2>1 DEF With
  <2> QED
      BY <2>1, <2>2, <2>3 DEF End
<1>9. TypeInterfaces' /\ TypeStreams' /\ StreamsFramed' /\ SocketsOwned'
    BY <1>2 DEF Inv, Types, TypeInterfaces, TypeStreams, StreamsFramed, SocketsOwned
<1>10. TypeEnds'
    BY <1>2, <1>8 DEF Inv, Types, TypeEnds
<1>11. TypeLoop' /\ LoopOK'
  <2>1. it = 1 /\ 1 \in 1 .. (m + n) + 1
      BY <1>1, <1>4 DEF Inv, LoopOK
  <2> QED
      BY <1>1, <1>2, <1>4, <2>1 DEF Inv, Types, TypeLoop, LoopOK
<1>12. TypeQueues'
  <2>1. backlog' \in Seq(Connections)
      BY <1>1
  <2> QED
      BY <1>2, <1>4, <2>1 DEF Inv, Types, TypeQueues, NewRecord
<1>13. Once'
  <2>1. ASSUME NEW j \in 1 .. m + n, NEW l \in 1 .. m + n,
               newConnections'[j].connection = newConnections'[l].connection
        PROVE  j = l
    <3>1. \A k \in 1 .. m, h \in 1 .. n : newConnections[k].connection # backlog[h]
      <4>1. \A k \in 1 .. n : backlog[k] \in Connections
          BY <1>4, ElementOfSeq DEF Inv, Types, TypeQueues
      <4>2. \A k \in 1 .. n : InBacklog(backlog[k])
          BY <1>4 DEF InBacklog
      <4>3. \A k \in 1 .. m : IsNew(newConnections[k].connection)
          BY <1>4 DEF IsNew
      <4> QED
          BY <4>1, <4>2, <4>3 DEF Inv, EndsAgree, EndAgrees
    <3>2. \A k, h \in 1 .. m : newConnections[k].connection = newConnections[h].connection => k = h
        BY <1>4 DEF Inv, Once
    <3>3. \A k, h \in 1 .. n : backlog[k] = backlog[h] => k = h
        BY <1>4 DEF Inv, Once
    <3>4. CASE j \in 1 .. m /\ l \in 1 .. m
        BY <1>4, <2>1, <3>2, <3>4
    <3>5. ASSUME NEW k \in 1 .. m + n, NEW g \in 1 .. m, NEW h \in 1 .. n, k = m + h,
                 newConnections'[g].connection = newConnections'[k].connection
          PROVE  FALSE
        BY <1>4, <3>1, <3>5
    <3>6. CASE j \in 1 .. m /\ ~(l \in 1 .. m)
        BY <1>5, <2>1, <3>5, <3>6
    <3>7. CASE ~(j \in 1 .. m) /\ l \in 1 .. m
        BY <1>5, <2>1, <3>5, <3>7
    <3>8. CASE ~(j \in 1 .. m) /\ ~(l \in 1 .. m)
      <4>1. PICK g \in 1 .. n, h \in 1 .. n : j = m + g /\ l = m + h
          BY <1>5, <3>8
      <4>2. newConnections'[j].connection = backlog[g] /\ newConnections'[l].connection = backlog[h]
          BY <1>4, <4>1
      <4>3. g = h
          BY <2>1, <3>3, <4>2
      <4> QED
          BY <4>1, <4>3
    <3> QED
        BY <3>4, <3>6, <3>7, <3>8
  <2>2. DOMAIN backlog' = {}
      BY <1>1
  <2> QED
      BY <1>2, <1>4, <2>1, <2>2 DEF Inv, Once
<1>14. EndsAgree'
  <2> SUFFICES ASSUME NEW d \in Connections PROVE EndAgrees(d)'
      BY DEF EndsAgree
  <2> QED
      BY <1>2, <1>7, <1>8 DEF Inv, EndsAgree, EndAgrees
<1>15. Agreement'
  <2> SUFFICES ASSUME NEW i \in Interfaces PROVE AgreesWith(i)'
      BY DEF Agreement
  <2>1. AgreesWith(i)
      BY DEF Inv, Agreement
  <2>2. CASE ~(stage[i] \in {"waiting", "joined"})
      BY <1>2, <2>1, <2>2, AgreementKept
  <2>3. CASE stage[i] \in {"waiting", "joined"}
    <3>1. socket[i] \in Connections
        BY <2>3, HasSocket, OwnSocket
    <3>2. CASE ~InBacklog(socket[i])
        BY <1>2, <1>8, <2>1, <3>1, <3>2, AgreementKept
    <3>3. CASE InBacklog(socket[i])
      <4>1. stage[i] = "waiting"
          BY <2>3, <3>3, JoinedIsNotPending
      <4>2. down[socket[i]].promised = <<>>
          BY <3>1, <3>3, NoStreamGood DEF Inv, EndsAgree, EndAgrees
      <4> QED
          BY <1>2, <2>1, <4>1, <4>2 DEF AgreesWith
    <3> QED
        BY <3>2, <3>3
  <2> QED
      BY <2>2, <2>3
<1>16. TypeTaken'
    BY MessageSequences DEF AcceptAll, NothingTaken, Taken, TypeTaken
<1> QED
    BY <1>9, <1>10, <1>11, <1>12, <1>13, <1>14, <1>15, <1>16 DEF Inv, Types

\* A step of the server that concerns one connection
OnOne(c) ==
    /\ c \in Connections /\ clientEnd[c] # "none" /\ ~InBacklog(c)
    /\ UNCHANGED <<stage, socket, id, clientEnd, backlog>>
    /\ up' \in [Connections -> StreamType] /\ down' \in [Connections -> StreamType]
    /\ serverEnd' \in [Connections -> End]
    /\ serverReset' \in [Connections -> ResetState]
    /\ clientReset' \in [Connections -> ResetState]
    /\ \A d \in Connections : d # c =>
          /\ up'[d] = up[d] /\ down'[d] = down[d] /\ serverEnd'[d] = serverEnd[d]
          /\ serverReset'[d] = serverReset[d] /\ clientReset'[d] = clientReset[d]
          /\ (IsNew(d)' <=> IsNew(d)) /\ (IsClient(d)' <=> IsClient(d))
OneAgrees(c) ==
    /\ serverReset'[c] # "here" => Good(up'[c])
    /\ clientReset'[c] # "here" => Good(down'[c])
    /\ serverReset'[c] # "no" => clientEnd[c] = "closed"
    /\ clientReset'[c] # "no" => serverEnd'[c] = "closed"
    /\ IsNew(c)' \/ IsClient(c)' => serverEnd'[c] = "open"
    /\ IsNew(c)' => down'[c] = NoStream /\ serverReset'[c] = "no" /\ ~IsClient(c)'
    /\ \A n \in DOMAIN clients : clients[n] # c => n \in DOMAIN clients' /\ clients'[n] = clients[n]
    /\ \A i \in Interfaces : socket[i] = c /\ stage[i] \in {"waiting", "joined"} => AgreesWith(i)'

\* A step of the server on one connection: the invariant of that one, and the rest follows.
LEMMA OnOneInv ==
    ASSUME Inv, NEW c, OnOne(c), OneAgrees(c), TypeLoop', TypeQueues', Once', LoopOK'
    PROVE  Inv'
<1>1. /\ c \in Connections /\ clientEnd[c] # "none" /\ ~InBacklog(c)
      /\ stage' = stage /\ socket' = socket /\ id' = id /\ clientEnd' = clientEnd /\ backlog' = backlog
    BY DEF OnOne
<1>2. /\ up' \in [Connections -> StreamType] /\ down' \in [Connections -> StreamType]
      /\ serverEnd' \in [Connections -> End]
      /\ serverReset' \in [Connections -> ResetState]
      /\ clientReset' \in [Connections -> ResetState]
    BY DEF OnOne
<1>3. \A d \in Connections : d # c =>
          /\ up'[d] = up[d] /\ down'[d] = down[d] /\ serverEnd'[d] = serverEnd[d]
          /\ serverReset'[d] = serverReset[d] /\ clientReset'[d] = clientReset[d]
          /\ (IsNew(d)' <=> IsNew(d)) /\ (IsClient(d)' <=> IsClient(d))
    BY DEF OnOne
<1>4. /\ serverReset'[c] # "here" => Good(up'[c])
      /\ clientReset'[c] # "here" => Good(down'[c])
      /\ serverReset'[c] # "no" => clientEnd[c] = "closed"
      /\ clientReset'[c] # "no" => serverEnd'[c] = "closed"
      /\ IsNew(c)' \/ IsClient(c)' => serverEnd'[c] = "open"
      /\ IsNew(c)' => down'[c] = NoStream /\ serverReset'[c] = "no" /\ ~IsClient(c)'
    BY DEF OneAgrees
<1>5. /\ \A n \in DOMAIN clients : clients[n] # c => n \in DOMAIN clients' /\ clients'[n] = clients[n]
      /\ \A i \in Interfaces : socket[i] = c /\ stage[i] \in {"waiting", "joined"} => AgreesWith(i)'
    BY DEF OneAgrees
<1>6. TypeInterfaces' /\ TypeEnds' /\ TypeStreams' /\ SocketsOwned'
    BY <1>1, <1>2 DEF Inv, Types, TypeInterfaces, TypeEnds, TypeStreams, SocketsOwned
<1>7. StreamsFramed'
    BY <1>3, <1>4 DEF Inv, StreamsFramed
<1>8. \A d : InBacklog(d)' <=> InBacklog(d)
    BY <1>1 DEF InBacklog
<1>9. EndsAgree'
  <2> SUFFICES ASSUME NEW d \in Connections PROVE EndAgrees(d)'
      BY DEF EndsAgree
  <2>1. CASE d = c
      BY <1>1, <1>4, <1>8, <2>1 DEF EndAgrees
  <2>2. CASE d # c
      BY <1>1, <1>3, <1>8, <2>2 DEF Inv, EndsAgree, EndAgrees
  <2> QED
      BY <2>1, <2>2
<1>10. Agreement'
  <2> SUFFICES ASSUME NEW i \in Interfaces PROVE AgreesWith(i)'
      BY DEF Agreement
  <2>1. AgreesWith(i)
      BY DEF Inv, Agreement
  <2>2. CASE ~(stage[i] \in {"waiting", "joined"})
      BY <1>1, <2>1, <2>2, AgreementKept
  <2>3. CASE stage[i] \in {"waiting", "joined"} /\ socket[i] # c
    <3>1. socket[i] \in Connections
        BY <2>3, HasSocket, OwnSocket
    <3> QED
        BY <1>1, <1>3, <1>5, <2>1, <2>3, <3>1, AgreementKept
  <2>4. CASE stage[i] \in {"waiting", "joined"} /\ socket[i] = c
      BY <1>5, <2>4
  <2> QED
      BY <2>2, <2>3, <2>4
<1> QED
    BY <1>6, <1>7, <1>9, <1>10 DEF Inv, Types

\* What the server's closing of one end does, and leaves
ClosedOne(c) ==
    /\ up' \in [Connections -> StreamType] /\ serverEnd' \in [Connections -> End]
    /\ serverReset' \in [Connections -> ResetState] /\ clientReset' \in [Connections -> ResetState]
    /\ up'[c] = NoStream /\ serverEnd'[c] = "closed" /\ serverReset'[c] = "no"
    /\ clientReset[c] # "no" => clientReset'[c] = clientReset[c]
    /\ clientReset[c] = "no" => clientReset'[c] # "here"
    /\ \A d \in Connections : d # c =>
          /\ up'[d] = up[d] /\ serverEnd'[d] = serverEnd[d]
          /\ serverReset'[d] = serverReset[d] /\ clientReset'[d] = clientReset[d]

\* The server closes one connection.
LEMMA ServerClosesOne ==
    ASSUME Types, NEW c \in Connections, NEW streams \in [Connections -> StreamType],
           \A d \in Connections : d # c => streams[d] = up[d],
           ServerCloses({c}, streams)
    PROVE  ClosedOne(c)
<1>1. /\ serverEnd' = With(serverEnd, {c}, "closed") /\ up' = With(streams, {c}, NoStream)
      /\ serverReset' = With(serverReset, {c}, "no")
      /\ clientReset' = [d \in Connections |->
             IF d \in {c} /\ Unread(streams[d]) /\ clientEnd[d] = "open" /\ clientReset[d] = "no"
             THEN "coming" ELSE clientReset[d]]
    BY DEF ServerCloses
<1>2. /\ serverEnd \in [Connections -> End] /\ serverReset \in [Connections -> ResetState]
      /\ clientReset \in [Connections -> ResetState]
    BY DEF Types, TypeEnds
<1>3. NoStream \in StreamType
    BY NoStreamGood DEF Good
<1>4. /\ serverEnd' \in [Connections -> End] /\ serverEnd'[c] = "closed"
      /\ \A d \in Connections : d # c => serverEnd'[d] = serverEnd[d]
    BY <1>1, <1>2 DEF With, End
<1>5. /\ serverReset' \in [Connections -> ResetState] /\ serverReset'[c] = "no"
      /\ \A d \in Connections : d # c => serverReset'[d] = serverReset[d]
    BY <1>1, <1>2 DEF With, ResetState
<1>6. /\ up' \in [Connections -> StreamType] /\ up'[c] = NoStream
      /\ \A d \in Connections : d # c => up'[d] = up[d]
    BY <1>1, <1>3 DEF With
<1>7. /\ clientReset' \in [Connections -> ResetState]
      /\ clientReset[c] # "no" => clientReset'[c] = clientReset[c]
      /\ clientReset[c] = "no" => clientReset'[c] # "here"
      /\ \A d \in Connections : d # c => clientReset'[d] = clientReset[d]
    BY <1>1, <1>2 DEF ResetState
<1> QED
    BY <1>4, <1>5, <1>6, <1>7 DEF ClosedOne

\* The queue after the connection that the loop is at was erased
Erased(c) ==
    /\ newConnections' \in Seq(NewRecord) /\ it \in 1 .. Len(newConnections') + 1
    /\ \A d : IsNew(d)' <=> IsNew(d) /\ d # c
    /\ \A j, k \in DOMAIN newConnections' :
          newConnections'[j].connection = newConnections'[k].connection => j = k

\* A connection leaves the queue.
LEMMA EraseOne ==
    ASSUME Inv, it \in DOMAIN newConnections, newConnections' = RemoveAt(newConnections, it)
    PROVE  Erased(newConnections[it].connection)
<1>1. PICK n, q, r, c, h : /\ q = newConnections /\ n = Len(q) /\ r = newConnections' /\ h = it
                           /\ c = q[h].connection
    OBVIOUS
<1>2. q \in Seq(NewRecord) /\ n \in Nat /\ DOMAIN q = 1 .. n /\ h \in 1 .. n
    BY <1>1, LenProperties DEF Inv, Types, TypeQueues, NewRecord
<1>3. /\ r \in Seq(NewRecord) /\ Len(r) = n - 1
      /\ \A k \in 1 .. n - 1 : r[k] = IF k < h THEN q[k] ELSE q[k + 1]
    BY <1>1, <1>2, RemovedAt
<1>4. DOMAIN r = 1 .. n - 1
    BY <1>2, <1>3, LenProperties
<1>5. \A j, k \in 1 .. n : q[j].connection = q[k].connection => j = k
    BY <1>1, <1>2 DEF Inv, Once
<1>6. h \in 1 .. (n - 1) + 1
    BY <1>2
<1>7. ASSUME NEW k \in 1 .. n - 1
      PROVE  \E j \in 1 .. n : j # h /\ r[k] = q[j] /\ (k < h <=> j < h) /\ (k < h => j = k) /\ (~(k < h) => j = k + 1)
  <2>1. CASE k < h
    <3>1. k \in 1 .. n /\ k # h
        BY <1>2, <2>1
    <3> QED
        BY <1>3, <2>1, <3>1
  <2>2. CASE ~(k < h)
    <3>1. k + 1 \in 1 .. n /\ k + 1 # h /\ ~(k + 1 < h)
        BY <1>2, <2>2
    <3> QED
        BY <1>3, <2>2, <3>1
  <2> QED
      BY <2>1, <2>2
<1>8. ASSUME NEW j \in 1 .. n, j # h PROVE \E k \in 1 .. n - 1 : r[k] = q[j]
  <2>1. CASE j < h
    <3>1. j \in 1 .. n - 1
        BY <1>2, <2>1
    <3> QED
        BY <1>3, <2>1, <3>1
  <2>2. CASE ~(j < h)
    <3>1. j - 1 \in 1 .. n - 1 /\ ~(j - 1 < h) /\ (j - 1) + 1 = j
        BY <1>2, <1>8, <2>2
    <3> QED
        BY <1>3, <3>1
  <2> QED
      BY <2>1, <2>2
<1>9. ASSUME NEW d PROVE (\E k \in 1 .. n - 1 : r[k].connection = d)
                            <=> (\E j \in 1 .. n : q[j].connection = d) /\ d # c
  <2>1. ASSUME NEW k \in 1 .. n - 1, r[k].connection = d
        PROVE  (\E j \in 1 .. n : q[j].connection = d) /\ d # c
    <3>1. PICK j \in 1 .. n : j # h /\ r[k] = q[j]
        BY <1>7
    <3>2. q[j].connection = d
        BY <2>1, <3>1
    <3>3. d # c
        BY <1>1, <1>2, <1>5, <3>1, <3>2
    <3> QED
        BY <3>2, <3>3
  <2>2. ASSUME NEW j \in 1 .. n, q[j].connection = d, d # c
        PROVE  \E k \in 1 .. n - 1 : r[k].connection = d
    <3>1. j # h
        BY <1>1, <2>2
    <3> QED
        BY <1>8, <2>2, <3>1
  <2> QED
      BY <2>1, <2>2
<1>10. ASSUME NEW k \in 1 .. n - 1, NEW l \in 1 .. n - 1, r[k].connection = r[l].connection
       PROVE  k = l
  <2>1. PICK i \in 1 .. n : r[k] = q[i] /\ (k < h <=> i < h) /\ (k < h => i = k) /\ (~(k < h) => i = k + 1)
      BY <1>7
  <2>2. PICK j \in 1 .. n : r[l] = q[j] /\ (l < h <=> j < h) /\ (l < h => j = l) /\ (~(l < h) => j = l + 1)
      BY <1>7
  <2>3. i = j
      BY <1>5, <1>10, <2>1, <2>2
  <2>4. (k < h <=> l < h)
      BY <2>1, <2>2, <2>3
  <2> QED
      BY <1>2, <2>1, <2>2, <2>3, <2>4
<1>11. \A d : IsNew(d)' <=> IsNew(d) /\ d # c
  <2> SUFFICES ASSUME NEW d PROVE IsNew(d)' <=> IsNew(d) /\ d # c
      OBVIOUS
  <2>1. IsNew(d)' <=> \E k \in 1 .. n - 1 : r[k].connection = d
      BY <1>1, <1>4 DEF IsNew
  <2>2. IsNew(d) <=> \E j \in 1 .. n : q[j].connection = d
      BY <1>1, <1>2 DEF IsNew
  <2> QED
      BY <1>9, <2>1, <2>2
<1>12. it \in 1 .. Len(newConnections') + 1
    BY <1>1, <1>3, <1>6
<1>13. \A j, k \in DOMAIN newConnections' :
          newConnections'[j].connection = newConnections'[k].connection => j = k
    BY <1>1, <1>4, <1>10
<1> QED
    BY <1>1, <1>3, <1>11, <1>12, <1>13 DEF Erased

\* What is known of the connection the loop is at.
LEMMA PendingFacts ==
    ASSUME Inv, it \in DOMAIN newConnections, NEW c, c = newConnections[it].connection
    PROVE  /\ c \in Connections /\ IsNew(c) /\ ~InBacklog(c) /\ ~IsClient(c)
           /\ serverEnd[c] = "open" /\ clientEnd[c] # "none" /\ down[c] = NoStream
           /\ serverReset[c] = "no" /\ clientReset[c] = "no" /\ Good(up[c])
           /\ \A i \in Interfaces : socket[i] = c => stage[i] # "joined"
<1>1. newConnections \in Seq(NewRecord)
    BY DEF Inv, Types, TypeQueues, NewRecord
<1>2. newConnections[it] \in NewRecord
  <2>1. it \in 1 .. Len(newConnections)
      BY <1>1, LenProperties
  <2> QED
      BY <1>1, <2>1, ElementOfSeq
<1>3. c \in Connections /\ IsNew(c)
    BY <1>2 DEF NewRecord, IsNew
<1>4. /\ ~InBacklog(c) /\ ~IsClient(c) /\ serverEnd[c] = "open" /\ clientEnd[c] # "none"
      /\ down[c] = NoStream /\ serverReset[c] = "no" /\ clientReset[c] = "no"
    BY <1>3 DEF Inv, EndsAgree, EndAgrees
<1>5. Good(up[c])
    BY <1>3, <1>4 DEF Inv, StreamsFramed
<1>6. \A i \in Interfaces : socket[i] = c => stage[i] # "joined"
    BY <1>3, JoinedIsNotPending
<1> QED
    BY <1>3, <1>4, <1>5, <1>6

\* A connection that is closed before it has joined
LEMMA TurnedAway ==
    ASSUME Inv, it \in DOMAIN newConnections, NEW c, c = newConnections[it].connection,
           newConnections' = RemoveAt(newConnections, it), ClosedOne(c),
           down' \in [Connections -> StreamType], \A d \in Connections : d # c => down'[d] = down[d],
           Good(down'[c]),
           down'[c].promised # <<>> => Head(down'[c].promised) = Reject,
           phase = "new", UNCHANGED <<interface, clientEnd, phase, it, todo, backlog, clients, state>>
    PROVE  Inv'
<1>1. /\ c \in Connections /\ IsNew(c) /\ ~InBacklog(c) /\ ~IsClient(c)
      /\ clientEnd[c] # "none" /\ clientReset[c] = "no"
      /\ \A i \in Interfaces : socket[i] = c => stage[i] # "joined"
    BY PendingFacts
<1>2. Erased(c)
    BY EraseOne
<1>3. /\ \A d : IsNew(d)' <=> IsNew(d) /\ d # c
      /\ \A d : IsClient(d)' <=> IsClient(d)
    BY <1>2 DEF Erased, IsClient
<1>4. /\ stage' = stage /\ socket' = socket /\ id' = id
    BY DEF interface
<1>5. OnOne(c)
    BY <1>1, <1>3, <1>4 DEF OnOne, ClosedOne
<1>6. ASSUME NEW i \in Interfaces, socket[i] = c, stage[i] \in {"waiting", "joined"}
      PROVE  AgreesWith(i)'
  <2>1. stage'[i] = "waiting" /\ socket'[i] = c
      BY <1>1, <1>4, <1>6
  <2>2. ~Contains(up'[c].promised, Leave)
      BY NoStreamGood, ContainsNone DEF ClosedOne
  <2> QED
      BY <2>1, <2>2, MessageTypes DEF AgreesWith
<1>7. OneAgrees(c)
  <2>1. Good(up'[c])
      BY NoStreamGood DEF ClosedOne
  <2> QED
      BY <1>1, <1>3, <1>6, <2>1 DEF OneAgrees, ClosedOne
<1>8. TypeLoop' /\ TypeQueues' /\ Once' /\ LoopOK'
  <2>1. TypeLoop'
      BY <1>2 DEF Erased, Inv, Types, TypeLoop
  <2>2. TypeQueues'
      BY <1>2 DEF Erased, Inv, Types, TypeQueues, NewRecord
  <2>3. Once' /\ LoopOK'
      BY <1>2 DEF Erased, Inv, Once, LoopOK
  <2> QED
      BY <2>1, <2>2, <2>3
<1> QED
    BY <1>5, <1>7, <1>8, OnOneInv

\* A client that is accepted
LEMMA Accepted ==
    ASSUME ~Datagrams, Inv, it \in DOMAIN newConnections, NEW c, c = newConnections[it].connection,
           newConnections' = RemoveAt(newConnections, it),
           NEW s, Good(s), up' = [up EXCEPT ![c] = s],
           ~Contains(up[c].promised, Leave) => ~Contains(s.promised, Leave),
           NEW n, n \in ClientIds, n \notin DOMAIN clients,
           clients' = [m \in DOMAIN clients \cup {n} |-> IF m = n THEN c ELSE clients[m]],
           down' = DownWith(c, <<Accept(n)>>),
           serverReset' = ServerBounced(c, <<Accept(n)>>),
           serverEnd' = [serverEnd EXCEPT ![c] = "open"],
           phase = "new",
           UNCHANGED <<interface, clientEnd, clientReset, phase, it, todo, backlog, state>>
    PROVE  Inv'
<1>1. /\ c \in Connections /\ IsNew(c) /\ ~InBacklog(c) /\ ~IsClient(c)
      /\ serverEnd[c] = "open" /\ clientEnd[c] # "none" /\ down[c] = NoStream
      /\ serverReset[c] = "no" /\ clientReset[c] = "no"
      /\ \A i \in Interfaces : socket[i] = c => stage[i] # "joined"
    BY PendingFacts
<1>2. Erased(c)
    BY EraseOne
<1>3. /\ DOMAIN clients' = DOMAIN clients \cup {n} /\ clients'[n] = c
      /\ \A m \in DOMAIN clients : clients'[m] = clients[m]
    OBVIOUS
<1>4. /\ \A d : IsNew(d)' <=> IsNew(d) /\ d # c
      /\ \A d : IsClient(d)' <=> IsClient(d) \/ d = c
    BY <1>2, <1>3 DEF Erased, IsClient
<1>5. /\ stage' = stage /\ socket' = socket /\ id' = id
    BY DEF interface
<1>6. /\ up' \in [Connections -> StreamType] /\ up'[c] = s
      /\ \A d \in Connections : d # c => up'[d] = up[d]
    BY <1>1 DEF Good, Inv, Types, TypeStreams
<1>7. Good(down[c]) /\ down[c].promised = <<>>
    BY <1>1, NoStreamGood
<1>8. <<Accept(n)>> \in Seq(Messages)
    BY MessageTypes, MessageSequences
<1>9. /\ down' \in [Connections -> StreamType]
      /\ \A d \in Connections : d # c => down'[d] = down[d]
      /\ Good(down'[c])
      /\ down'[c].promised = IF clientEnd[c] = "closed" THEN down[c].promised
                             ELSE down[c].promised \o <<Accept(n)>>
    BY <1>1, <1>7, <1>8, DownWithGood DEF Inv, Types
<1>10. clientEnd[c] # "closed" => down'[c].promised = <<Accept(n)>>
  <2>1. <<>> \o <<Accept(n)>> = <<Accept(n)>>
      BY <1>8, ConcatEmptySeq
  <2> QED
      BY <1>7, <1>9, <2>1, Zenon
<1>11. /\ serverReset' \in [Connections -> ResetState]
       /\ serverReset'[c] # "no" => clientEnd[c] = "closed"
       /\ \A d \in Connections : d # c => serverReset'[d] = serverReset[d]
  <2>1. serverReset \in [Connections -> ResetState]
      BY DEF Inv, Types, TypeEnds
  <2> QED
      BY <1>1, <2>1 DEF ServerBounced, ResetState
<1>12. /\ serverEnd' \in [Connections -> End] /\ serverEnd'[c] = "open"
       /\ \A d \in Connections : d # c => serverEnd'[d] = serverEnd[d]
    BY <1>1 DEF Inv, Types, TypeEnds, End
<1>13. clientReset' = clientReset /\ clientReset \in [Connections -> ResetState]
    BY DEF Inv, Types, TypeEnds
<1>14. OnOne(c)
    BY <1>1, <1>4, <1>5, <1>6, <1>9, <1>11, <1>12, <1>13 DEF OnOne
<1>15. ASSUME NEW i \in Interfaces, socket[i] = c, stage[i] \in {"waiting", "joined"}
       PROVE  AgreesWith(i)'
  <2>1. stage[i] = "waiting" /\ stage'[i] = "waiting" /\ socket'[i] = c
      BY <1>1, <1>5, <1>15
  <2>2. socket[i] # Nothing
      BY <2>1, HasSocket
  <2>3. clientEnd[c] = "open"
      BY <1>15, <2>1, <2>2, OwnSocket
  <2>4. AgreesWith(i)
      BY DEF Inv, Agreement
  <2>5. ~Contains(up'[c].promised, Leave)
      BY <1>6, <1>15, <2>1, <2>4 DEF AgreesWith
  <2>6. down'[c].promised = <<Accept(n)>>
      BY <1>10, <2>3
  <2>7. \A m \in ClientIds : Head(down'[c].promised) = Accept(m) => m = n
    <3>1. Head(down'[c].promised) = Accept(n)
        BY <2>6
    <3> QED
        BY <3>1, MessageTypes
  <2>8. Known(c, n)'
      BY <1>3, <1>12 DEF Known
  <2> QED
      BY <2>1, <2>5, <2>7, <2>8 DEF AgreesWith
<1>16. OneAgrees(c)
  <2>1. Good(up'[c]) /\ clientReset'[c] = "no"
      BY <1>1, <1>6, <1>13
  <2>2. \A m \in DOMAIN clients : m \in DOMAIN clients' /\ clients'[m] = clients[m]
      BY <1>3
  <2> QED
      BY <1>4, <1>9, <1>11, <1>12, <1>15, <2>1, <2>2 DEF OneAgrees
<1>17. TypeLoop'
    BY <1>2 DEF Erased, Inv, Types, TypeLoop
<1>18. TypeQueues'
  <2>1. DOMAIN clients \subseteq ClientIds /\ Range(clients) \subseteq Connections
      BY DEF Inv, Types, TypeQueues
  <2>2. DOMAIN clients' \subseteq ClientIds
      BY <1>3, <2>1
  <2>3. \A m \in DOMAIN clients : clients[m] \in Connections
      BY <2>1 DEF Range
  <2>4. \A m \in DOMAIN clients' : clients'[m] \in Connections
      BY <1>1, <1>3, <2>3
  <2>5. Range(clients') \subseteq Connections
      BY <2>4 DEF Range
  <2> QED
      BY <1>2, <2>2, <2>5 DEF Erased, Inv, Types, TypeQueues, NewRecord
<1>19. Once'
  <2>1. \A m \in DOMAIN clients : clients[m] # c
      BY <1>1 DEF IsClient
  <2>2. \A l, m \in DOMAIN clients' : clients'[l] = clients'[m] => l = m
      BY <1>3, <2>1 DEF Inv, Once
  <2> QED
      BY <1>2, <2>2 DEF Erased, Inv, Once
<1>20. LoopOK'
    BY <1>3 DEF Inv, LoopOK
<1> QED
    BY <1>14, <1>16, <1>17, <1>18, <1>19, <1>20, OnOneInv

\* A connection that has not sent its join message, and may still do so
LEMMA NotYet ==
    ASSUME Inv, it \in DOMAIN newConnections, NEW c, c = newConnections[it].connection,
           NEW s, Good(s), up' = [up EXCEPT ![c] = s], s.promised = up[c].promised,
           phase = "new", it' = it + 1,
           UNCHANGED <<interface, ends, resets, down, newConnections, clients, state, phase, todo, backlog>>
    PROVE  Inv'
<1>1. /\ c \in Connections /\ IsNew(c) /\ ~InBacklog(c) /\ ~IsClient(c)
      /\ serverEnd[c] = "open" /\ clientEnd[c] # "none" /\ down[c] = NoStream
      /\ serverReset[c] = "no" /\ clientReset[c] = "no"
    BY PendingFacts
<1>2. /\ stage' = stage /\ socket' = socket /\ id' = id /\ clientEnd' = clientEnd
      /\ serverEnd' = serverEnd /\ serverReset' = serverReset /\ clientReset' = clientReset
      /\ down' = down /\ newConnections' = newConnections /\ clients' = clients
      /\ state' = state /\ phase' = phase /\ todo' = todo /\ backlog' = backlog
    BY DEF interface, ends, resets
<1>3. /\ up' \in [Connections -> StreamType] /\ up'[c] = s
      /\ \A d \in Connections : d # c => up'[d] = up[d]
    BY <1>1 DEF Good, Inv, Types, TypeStreams
<1>4. /\ \A d : IsNew(d)' <=> IsNew(d)
      /\ \A d : IsClient(d)' <=> IsClient(d)
    BY <1>2 DEF IsNew, IsClient
<1>5. OnOne(c)
    BY <1>1, <1>2, <1>3, <1>4 DEF OnOne, Inv, Types, TypeEnds, TypeStreams
<1>6. ASSUME NEW i \in Interfaces PROVE AgreesWith(i)'
  <2>1. AgreesWith(i)
      BY DEF Inv, Agreement
  <2>2. stage[i] \in {"waiting", "joined"} => socket[i] \in Connections
      BY HasSocket, OwnSocket
  <2>3. \A d \in Connections : up'[d].promised = up[d].promised
      BY <1>3
  <2> QED
      BY <1>2, <2>1, <2>2, <2>3, AgreementKept
<1>7. OneAgrees(c)
  <2>1. Good(down[c])
      BY <1>1, NoStreamGood
  <2> QED
      BY <1>1, <1>2, <1>3, <1>4, <1>6, <2>1 DEF OneAgrees
<1>8. TypeLoop' /\ TypeQueues' /\ Once' /\ LoopOK'
  <2>1. it' \in 1 .. Len(newConnections') + 1
    <3>1. PICK l : l = Len(newConnections)
        OBVIOUS
    <3>2. l \in Nat /\ it \in 1 .. l
        BY <3>1, LenProperties DEF Inv, Types, TypeQueues
    <3>3. it + 1 \in 1 .. l + 1
        BY <3>2
    <3> QED
        BY <1>2, <3>1, <3>3
  <2>2. TypeLoop'
      BY <1>2, <2>1 DEF Inv, Types, TypeLoop
  <2> QED
      BY <1>2, <2>2 DEF Inv, Types, TypeQueues, Once, LoopOK
<1> QED
    BY <1>5, <1>7, <1>8, OnOneInv

\* The loop looks at a new connection.
LEMMA CheckNewInv ==
    ASSUME ~Datagrams, Inv, CheckNew
    PROVE  Inv' /\ TypeTaken'
<1>1. PICK c : c = newConnections[it].connection
    OBVIOUS
<1>2. /\ phase = "new" /\ it \in DOMAIN newConnections
      /\ UNCHANGED <<interface, clientEnd, phase, todo, backlog>>
    BY DEF CheckNew, Serving
<1>3. /\ c \in Connections /\ serverReset[c] = "no" /\ Good(up[c]) /\ down[c] = NoStream
      /\ clientReset[c] = "no" /\ clientEnd[c] # "none"
    BY <1>1, <1>2, PendingFacts
<1>4. PICK n, t, streams :
         /\ n \in Arrivals(up[c])
         /\ t = OneTaken(Arrived(up[c], n))
         /\ streams = [up EXCEPT ![c] = t.stream]
         /\ \/ /\ t.messages # <<>>
               /\ ServerTakes(c, t.messages)
               /\ AddClient(c, streams)
               /\ newConnections' = RemoveAt(newConnections, it) /\ UNCHANGED it
            \/ /\ t.messages = <<>>
               /\ NothingTaken
               /\ ServerCloses({c}, streams)
               /\ newConnections' = RemoveAt(newConnections, it) /\ UNCHANGED it
               /\ UNCHANGED <<down, clients, state>>
            \/ /\ t.messages = <<>>
               /\ NothingTaken
               /\ up' = streams
               /\ it' = it + 1
               /\ UNCHANGED <<serverEnd, resets, down, newConnections, clients, state>>
    BY <1>1, <1>3 DEF CheckNew
<1>5. PICK s, p : s = t.stream /\ p = up[c].promised
    OBVIOUS
<1>6. /\ Good(s) /\ s \in StreamType /\ t.messages \in Seq(Messages) /\ p \in Seq(Messages)
      /\ \/ t.messages = <<>> /\ s.promised = p
         \/ /\ p # <<>> /\ Head(p) \in Messages
            /\ t.messages = <<Head(p)>> /\ s.promised = Tail(p)
    BY <1>3, <1>4, <1>5, OneReceived
<1>7. streams = [up EXCEPT ![c] = s]
    BY <1>4, <1>5
<1>8. /\ streams \in [Connections -> StreamType]
      /\ \A d \in Connections : d # c => streams[d] = up[d]
    BY <1>3, <1>6, <1>7 DEF Inv, Types, TypeStreams
<1>9. ~Contains(p, Leave) => ~Contains(s.promised, Leave)
    BY <1>6, ContainsLater
<1>10. TypeStreams /\ Types
    BY DEF Inv, Types
<1>11. CASE /\ t.messages # <<>>
            /\ ServerTakes(c, t.messages)
            /\ AddClient(c, streams)
            /\ newConnections' = RemoveAt(newConnections, it) /\ UNCHANGED it
  <2>1. ~ServerSendFails(c)
      BY <1>3 DEF ServerSendFails
  <2>2. TypeTaken'
      BY <1>6, <1>11 DEF ServerTakes, Taken, TypeTaken
  <2>3. CASE /\ down' = DownWith(c, <<Reject>>)
             /\ ServerCloses({c}, streams)
             /\ UNCHANGED <<clients, state>>
    <3>1. ClosedOne(c)
        BY <1>3, <1>8, <1>10, <2>3, ServerClosesOne
    <3>2. <<Reject>> \in Seq(Messages) /\ Good(down[c]) /\ down[c].promised = <<>>
        BY <1>3, MessageTypes, MessageSequences, NoStreamGood
    <3>3. /\ down' \in [Connections -> StreamType]
          /\ \A d \in Connections : d # c => down'[d] = down[d]
          /\ Good(down'[c])
          /\ down'[c].promised = IF clientEnd[c] = "closed" THEN down[c].promised
                                 ELSE down[c].promised \o <<Reject>>
        BY <1>3, <1>10, <2>3, <3>2, DownWithGood
    <3>4. <<>> \o <<Reject>> = <<Reject>>
        BY <3>2, ConcatEmptySeq
    <3>5. down'[c].promised = <<>> \/ down'[c].promised = <<Reject>>
        BY <3>2, <3>3, <3>4, Zenon
    <3>6. down'[c].promised # <<>> => Head(down'[c].promised) = Reject
        BY <3>5
    <3> QED
        BY <1>1, <1>2, <1>11, <2>2, <2>3, <3>1, <3>3, <3>6, TurnedAway
  <2>4. CASE /\ FreeIds # {}
             /\ clients' = [m \in DOMAIN clients \cup {Min(FreeIds)} |->
                               IF m = Min(FreeIds) THEN c ELSE clients[m]]
             /\ down' = DownWith(c, <<Accept(Min(FreeIds))>>)
             /\ serverReset' = ServerBounced(c, <<Accept(Min(FreeIds))>>)
             /\ serverEnd' = [serverEnd EXCEPT ![c] = "open"]
             /\ up' = streams
             /\ UNCHANGED <<clientReset, state>>
    <3>1. PICK k : k = Min(FreeIds)
        OBVIOUS
    <3>2. k \in ClientIds /\ k \notin DOMAIN clients
      <4>1. FreeIds \subseteq Nat
        <5>1. ClientIds \subseteq Byte
            BY JoiningAssumption
        <5>2. Byte \subseteq Nat
            BY SocketAssumption DEF Byte
        <5>3. FreeIds \subseteq ClientIds
            BY DEF FreeIds
        <5> QED
            BY <5>1, <5>2, <5>3
      <4>2. k \in FreeIds
          BY <2>4, <3>1, <4>1, LeastOf
      <4> QED
          BY <4>2 DEF FreeIds
    <3>3. /\ clients' = [m \in DOMAIN clients \cup {k} |-> IF m = k THEN c ELSE clients[m]]
          /\ down' = DownWith(c, <<Accept(k)>>)
          /\ serverReset' = ServerBounced(c, <<Accept(k)>>)
        BY <2>4, <3>1
    <3>4. up' = [up EXCEPT ![c] = s]
        BY <1>7, <2>4
    <3> QED
        BY <1>1, <1>2, <1>5, <1>6, <1>9, <1>11, <2>2, <2>4, <3>2, <3>3, <3>4, Accepted
  <2> QED
      BY <1>11, <2>1, <2>3, <2>4 DEF AddClient
<1>12. CASE /\ t.messages = <<>>
            /\ NothingTaken
            /\ ServerCloses({c}, streams)
            /\ newConnections' = RemoveAt(newConnections, it) /\ UNCHANGED it
            /\ UNCHANGED <<down, clients, state>>
  <2>1. ClosedOne(c)
      BY <1>3, <1>8, <1>10, <1>12, ServerClosesOne
  <2>2. /\ down' \in [Connections -> StreamType] /\ Good(down'[c]) /\ down'[c].promised = <<>>
        /\ \A d \in Connections : d # c => down'[d] = down[d]
      BY <1>3, <1>10, <1>12, NoStreamGood DEF TypeStreams
  <2>3. TypeTaken'
      BY <1>12, MessageSequences DEF NothingTaken, Taken, TypeTaken
  <2> QED
      BY <1>1, <1>2, <1>12, <2>1, <2>2, <2>3, TurnedAway
<1>13. CASE /\ t.messages = <<>>
            /\ NothingTaken
            /\ up' = streams
            /\ it' = it + 1
            /\ UNCHANGED <<serverEnd, resets, down, newConnections, clients, state>>
  <2>1. s.promised = p
      BY <1>6, <1>13
  <2>2. up' = [up EXCEPT ![c] = s]
      BY <1>7, <1>13
  <2>3. UNCHANGED <<interface, ends, resets, down, newConnections, clients, state, phase, todo, backlog>>
      BY <1>2, <1>13 DEF ends
  <2>4. TypeTaken'
      BY <1>13, MessageSequences DEF NothingTaken, Taken, TypeTaken
  <2> QED
      BY <1>1, <1>2, <1>5, <1>6, <1>13, <2>1, <2>2, <2>3, <2>4, NotYet
<1> QED
    BY <1>4, <1>11, <1>12, <1>13

\* What all calls of receive do to the stream that some bytes arrived on.
LEMMA ManyReceived ==
    ASSUME ~Datagrams, NEW s, Good(s), NEW n \in Arrivals(s), NEW t, t = AllTaken(Arrived(s, n))
    PROVE  /\ Good(t.stream) /\ t.stream \in StreamType /\ t.messages \in Seq(Messages)
           /\ \A e : Contains(s.promised, e) <=> Contains(t.messages, e) \/ Contains(t.stream.promised, e)
<1>1. n \in 0 .. Len(s.wire)
    BY DEF Arrivals
<1>2. PICK a : a = Arrived(s, n)
    OBVIOUS
<1>3. Good(a) /\ a.promised = s.promised
    BY <1>1, <1>2, ArrivedGood
<1>4. AllTakenOf(a, t)
    BY <1>2, <1>3, AllTakenGood
<1>5. PICK ms, q : ms = t.messages /\ q = t.stream.promised
    OBVIOUS
<1>6. /\ Good(t.stream) /\ ms \in Seq(Messages) /\ q \in Seq(Messages) /\ ms \o q = s.promised
    BY <1>3, <1>4, <1>5, Zenon DEF AllTakenOf
<1>7. \A e : Contains(ms \o q, e) <=> Contains(ms, e) \/ Contains(q, e)
  <2>1. ms \in Seq(Messages) /\ q \in Seq(Messages)
      BY <1>6
  <2> QED
      BY <2>1, ContainsJoined
<1>8. \A e : Contains(s.promised, e) <=> Contains(ms, e) \/ Contains(q, e)
    BY <1>6, <1>7, Zenon
<1> QED
    BY <1>5, <1>6, <1>8 DEF Good

\* What is known of the connection of a client.
LEMMA ClientFacts ==
    ASSUME Inv, NEW m \in DOMAIN clients, NEW c, c = clients[m]
    PROVE  /\ c \in Connections /\ IsClient(c) /\ ~InBacklog(c) /\ ~IsNew(c)
           /\ serverEnd[c] = "open" /\ clientEnd[c] # "none" /\ clientReset[c] = "no"
           /\ Good(down[c])
<1>1. c \in Connections
    BY DEF Inv, Types, TypeQueues, Range
<1>2. IsClient(c)
    BY DEF IsClient
<1>3. /\ ~InBacklog(c) /\ ~IsNew(c)
      /\ serverEnd[c] = "open" /\ clientEnd[c] # "none" /\ clientReset[c] = "no"
    BY <1>1, <1>2 DEF Inv, EndsAgree, EndAgrees
<1> QED
    BY <1>1, <1>2, <1>3 DEF Inv, StreamsFramed

\* A client is removed.
LEMMA Removed ==
    ASSUME Inv, NEW m \in DOMAIN clients, NEW c, c = clients[m], ClosedOne(c),
           clients' = [k \in DOMAIN clients \ {m} |-> clients[k]],
           todo' = DOMAIN clients \ {m},
           down' \in [Connections -> StreamType], \A d \in Connections : d # c => down'[d] = down[d],
           Good(down'[c]),
           \A i \in Interfaces : socket[i] = c => stage[i] \notin {"waiting", "joined"},
           UNCHANGED <<interface, clientEnd, phase, it, backlog, newConnections, state>>
    PROVE  Inv'
<1>1. /\ c \in Connections /\ IsClient(c) /\ ~InBacklog(c) /\ ~IsNew(c)
      /\ clientEnd[c] # "none" /\ clientReset[c] = "no"
    BY ClientFacts
<1>2. /\ DOMAIN clients' = DOMAIN clients \ {m}
      /\ \A k \in DOMAIN clients : k # m => clients'[k] = clients[k]
    OBVIOUS
<1>3. \A k \in DOMAIN clients : clients[k] = c => k = m
    BY DEF Inv, Once
<1>4. /\ \A d : IsNew(d)' <=> IsNew(d)
      /\ \A d : IsClient(d)' <=> IsClient(d) /\ d # c
    BY <1>2, <1>3 DEF IsNew, IsClient
<1>5. OnOne(c)
    BY <1>1, <1>4 DEF OnOne, ClosedOne, interface
<1>6. OneAgrees(c)
  <2>1. Good(up'[c])
      BY NoStreamGood DEF ClosedOne
  <2>2. \A n \in DOMAIN clients : clients[n] # c => n \in DOMAIN clients' /\ clients'[n] = clients[n]
      BY <1>2
  <2> QED
      BY <1>1, <1>4, <2>1, <2>2 DEF OneAgrees, ClosedOne
<1>7. TypeLoop'
  <2>1. todo' \subseteq ClientIds
      BY DEF Inv, Types, TypeQueues
  <2>2. IsFiniteSet(todo')
      BY <2>1, JoiningAssumption, FS_Subset
  <2> QED
      BY <2>1, <2>2 DEF Inv, Types, TypeLoop
<1>8. TypeQueues'
  <2>1. DOMAIN clients \subseteq ClientIds /\ Range(clients) \subseteq Connections
      BY DEF Inv, Types, TypeQueues
  <2>2. \A k \in DOMAIN clients : clients[k] \in Connections
      BY <2>1 DEF Range
  <2>3. \A k \in DOMAIN clients' : clients'[k] \in Connections
      BY <1>2, <2>2
  <2>4. Range(clients') \subseteq Connections
      BY <2>3 DEF Range
  <2> QED
      BY <1>2, <2>1, <2>4 DEF Inv, Types, TypeQueues
<1>9. Once'
    BY <1>2 DEF Inv, Once
<1>10. LoopOK'
    BY <1>2 DEF Inv, LoopOK
<1> QED
    BY <1>5, <1>6, <1>7, <1>8, <1>9, <1>10, OnOneInv

\* A client whose messages were answered, which stays
LEMMA Answered ==
    ASSUME ~Datagrams, Inv, NEW m \in DOMAIN clients, NEW c, c = clients[m],
           NEW s, Good(s), up' = [up EXCEPT ![c] = s],
           ~Contains(up[c].promised, Leave) => ~Contains(s.promised, Leave),
           serverReset[c] # "here",
           NEW answers \in Seq(Messages), answers # <<>> => Head(answers) = NotifySetting,
           down' = DownWith(c, answers), serverReset' = ServerBounced(c, answers),
           todo' = todo \ {m},
           UNCHANGED <<interface, ends, clientReset, phase, it, backlog, newConnections, clients, state>>
    PROVE  Inv'
<1>1. /\ c \in Connections /\ IsClient(c) /\ ~InBacklog(c) /\ ~IsNew(c)
      /\ serverEnd[c] = "open" /\ clientEnd[c] # "none" /\ clientReset[c] = "no"
      /\ Good(down[c])
    BY ClientFacts
<1>2. /\ stage' = stage /\ socket' = socket /\ id' = id /\ clientEnd' = clientEnd
      /\ serverEnd' = serverEnd /\ clientReset' = clientReset
      /\ newConnections' = newConnections /\ clients' = clients
      /\ state' = state /\ phase' = phase /\ it' = it /\ backlog' = backlog
    BY DEF interface, ends
<1>3. /\ up' \in [Connections -> StreamType] /\ up'[c] = s
      /\ \A d \in Connections : d # c => up'[d] = up[d]
    BY <1>1 DEF Good, Inv, Types, TypeStreams
<1>4. /\ down' \in [Connections -> StreamType]
      /\ \A d \in Connections : d # c => down'[d] = down[d]
      /\ Good(down'[c])
      /\ down'[c].promised = IF clientEnd[c] = "closed" THEN down[c].promised
                             ELSE down[c].promised \o answers
    BY <1>1, DownWithGood DEF Inv, Types
<1>5. /\ serverReset' \in [Connections -> ResetState]
      /\ serverReset'[c] # "no" => clientEnd[c] = "closed"
      /\ \A d \in Connections : d # c => serverReset'[d] = serverReset[d]
  <2>1. serverReset \in [Connections -> ResetState] /\ (serverReset[c] # "no" => clientEnd[c] = "closed")
      BY <1>1 DEF Inv, Types, TypeEnds, EndsAgree, EndAgrees
  <2> QED
      BY <1>1, <2>1 DEF ServerBounced, ResetState
<1>6. /\ \A d : IsNew(d)' <=> IsNew(d)
      /\ \A d : IsClient(d)' <=> IsClient(d)
    BY <1>2 DEF IsNew, IsClient
<1>7. OnOne(c)
    BY <1>1, <1>2, <1>3, <1>4, <1>5, <1>6 DEF OnOne, Inv, Types, TypeEnds
<1>8. ASSUME NEW i \in Interfaces, socket[i] = c, stage[i] \in {"waiting", "joined"}
      PROVE  AgreesWith(i)'
  <2>1. AgreesWith(i)
      BY DEF Inv, Agreement
  <2>2. ~Contains(up'[c].promised, Leave)
      BY <1>3, <1>8, <2>1 DEF AgreesWith
  <2>3. \A k : Known(c, k) => Known(c, k)'
      BY <1>1, <1>2 DEF Known
  <2>4. PICK p, q : p = down[c].promised /\ q = down'[c].promised
      OBVIOUS
  <2>5. p \in Seq(Messages)
      BY <1>1, <2>4, StreamParts DEF Good
  <2>6. /\ p # <<>> => p \o answers # <<>> /\ Head(p \o answers) = Head(p)
        /\ p = <<>> => p \o answers = answers
      BY <2>5, HeadJoined
  <2>7. q = p \/ q = p \o answers
      BY <1>4, <2>4, Zenon
  <2>8. q # <<>> => (p # <<>> /\ Head(q) = Head(p)) \/ Head(q) = NotifySetting
    <3>1. CASE q = p
        BY <3>1
    <3>2. CASE q = p \o answers /\ p # <<>>
        BY <2>6, <3>2, Zenon
    <3>3. CASE q = p \o answers /\ p = <<>>
      <4>1. q = answers
          BY <2>6, <3>3, Zenon
      <4> QED
          BY <4>1
    <3> QED
        BY <2>7, <3>1, <3>2, <3>3
  <2>9. ASSUME NEW n \in ClientIds, stage[i] = "waiting", q # <<>>, Head(q) = Accept(n)
        PROVE  Known(c, n)'
    <3>1. p # <<>> /\ Head(p) = Accept(n)
        BY <2>8, <2>9, MessageTypes
    <3>2. Known(c, n)
        BY <1>8, <2>1, <2>4, <2>9, <3>1 DEF AgreesWith
    <3> QED
        BY <2>3, <3>2
  <2>10. stage[i] = "joined" => Known(c, id[i])'
    <3> SUFFICES ASSUME stage[i] = "joined" PROVE Known(c, id[i])'
        OBVIOUS
    <3>1. PICK k : k = id[i]
        OBVIOUS
    <3>2. Known(c, k)
        BY <1>8, <2>1, <3>1 DEF AgreesWith
    <3>3. Known(c, k)'
        BY <2>3, <3>2
    <3>4. id'[i] = k
        BY <1>2, <3>1
    <3> QED
        BY <3>3, <3>4
  <2> QED
      BY <1>2, <1>8, <2>2, <2>4, <2>9, <2>10 DEF AgreesWith
<1>9. OneAgrees(c)
    BY <1>1, <1>2, <1>3, <1>4, <1>5, <1>6, <1>8 DEF OneAgrees
<1>10. TypeLoop'
  <2>1. IsFiniteSet(todo')
      BY FS_Subset DEF Inv, Types, TypeLoop
  <2> QED
      BY <1>2, <2>1 DEF Inv, Types, TypeLoop
<1>11. TypeQueues' /\ Once' /\ LoopOK'
    BY <1>2 DEF Inv, Types, TypeQueues, Once, LoopOK
<1> QED
    BY <1>7, <1>9, <1>10, <1>11, OnOneInv

\* What the server answers to messages, as in HandleClient
AnswersTo(ms) ==
    [j \in 1 .. Cardinality({k \in DOMAIN ms : ms[k] = GetSetting}) |-> NotifySetting]

\* The answers to the requests among some messages.
LEMMA AnswersMade ==
    ASSUME NEW ms \in Seq(Messages)
    PROVE  AnswersTo(ms) \in Seq(Messages) /\ (AnswersTo(ms) # <<>> => Head(AnswersTo(ms)) = NotifySetting)
<1>1. PICK k, requests : k = Len(ms) /\ requests = {j \in DOMAIN ms : ms[j] = GetSetting}
    OBVIOUS
<1>2. k \in Nat /\ DOMAIN ms = 1 .. k
    BY <1>1, LenProperties
<1>3. IsFiniteSet(1 .. k)
    BY <1>2, FS_Interval
<1>4. IsFiniteSet(requests)
    BY <1>1, <1>2, <1>3, FS_Subset
<1>5. PICK a : a = Cardinality(requests)
    OBVIOUS
<1>6. a \in Nat
    BY <1>4, <1>5, FS_CardinalityType
<1>7. PICK answers : answers = AnswersTo(ms)
    OBVIOUS
<1>8. answers = [j \in 1 .. a |-> NotifySetting] /\ NotifySetting \in Messages
    BY <1>1, <1>5, <1>7, MessageTypes DEF AnswersTo
<1>9. answers \in Seq(Messages) /\ Len(answers) = a
    BY <1>6, <1>8
<1>10. answers # <<>> => Head(answers) = NotifySetting
  <2>1. answers # <<>> => 1 \in 1 .. a
      BY <1>6, <1>9, EmptySeq
  <2> QED
      BY <1>8, <2>1
<1> QED
    BY <1>7, <1>9, <1>10

\* The messages of a client are handled.
LEMMA HandleClientInv ==
    ASSUME ~Datagrams, Inv, NEW m \in todo, NEW n \in Arrivals(up[clients[m]]), HandleClient(m, n)
    PROVE  Inv' /\ TypeTaken'
<1>1. PICK c, t, streams, requests, answers :
         /\ c = clients[m]
         /\ t = AllTaken(Arrived(up[c], n))
         /\ streams = [up EXCEPT ![c] = t.stream]
         /\ requests = {k \in DOMAIN t.messages : t.messages[k] = GetSetting}
         /\ answers = [j \in 1..Cardinality(requests) |-> NotifySetting]
    OBVIOUS
<1>2. /\ phase = "clients"
      /\ UNCHANGED <<interface, clientEnd, phase, it, backlog, newConnections>>
      /\ \/ /\ ReceiveFails(c)
            /\ OnSocketExn(m, up)
            /\ NothingTaken
         \/ /\ ~ReceiveFails(c)
            /\ ServerSendFails(c)
         \/ /\ ~ReceiveFails(c)
            /\ down' = DownWith(c, answers)
            /\ UNCHANGED state
            /\ ServerTakes(c, t.messages)
            /\ IF Contains(t.messages, Leave)
               THEN RemoveClient(m, streams)
               ELSE /\ todo' = todo \ {m}
                    /\ up' = streams
                    /\ serverReset' = ServerBounced(c, answers)
                    /\ UNCHANGED <<clientReset, serverEnd, clients>>
    BY <1>1 DEF HandleClient, Serving
<1>3. m \in DOMAIN clients
    BY DEF Inv, LoopOK
<1>4. /\ c \in Connections /\ serverEnd[c] = "open" /\ clientEnd[c] # "none" /\ clientReset[c] = "no"
      /\ Good(down[c])
    BY <1>1, <1>3, ClientFacts
<1>5. TypeStreams /\ Types
    BY DEF Inv, Types
<1>6. CASE /\ ReceiveFails(c)
           /\ OnSocketExn(m, up)
           /\ NothingTaken
  <2>1. serverReset[c] = "here"
      BY <1>6 DEF ReceiveFails
  <2>2. /\ clients' = [k \in DOMAIN clients \ {m} |-> clients[k]]
        /\ ServerCloses({c}, up)
        /\ todo' = DOMAIN clients \ {m}
        /\ state' = state /\ down' = down
      BY <1>1, <1>6 DEF OnSocketExn, RemoveClient
  <2>3. ClosedOne(c)
      BY <1>4, <1>5, <2>2, ServerClosesOne DEF TypeStreams
  <2>4. ASSUME NEW i \in Interfaces, socket[i] = c PROVE stage[i] \notin {"waiting", "joined"}
    <3> SUFFICES ASSUME stage[i] \in {"waiting", "joined"} PROVE FALSE
        OBVIOUS
    <3>1. socket[i] # Nothing /\ stage[i] # "crashed"
        BY HasSocket
    <3>2. serverReset[c] = "no"
        BY <2>4, <3>1, OwnSocket
    <3> QED
        BY <2>1, <3>2
  <2>5. /\ down' \in [Connections -> StreamType] /\ Good(down'[c])
        /\ \A d \in Connections : d # c => down'[d] = down[d]
      BY <1>4, <1>5, <2>2 DEF TypeStreams
  <2>6. TypeTaken'
      BY <1>6, MessageSequences DEF NothingTaken, Taken, TypeTaken
  <2>7. Inv'
      BY <1>1, <1>2, <1>3, <2>2, <2>3, <2>4, <2>5, Removed
  <2> QED
      BY <2>6, <2>7
<1>7. CASE ~ReceiveFails(c) /\ ServerSendFails(c)
    BY <1>7 DEF ReceiveFails, ServerSendFails
<1>8. CASE /\ ~ReceiveFails(c)
           /\ down' = DownWith(c, answers)
           /\ UNCHANGED state
           /\ ServerTakes(c, t.messages)
           /\ IF Contains(t.messages, Leave)
              THEN RemoveClient(m, streams)
              ELSE /\ todo' = todo \ {m}
                   /\ up' = streams
                   /\ serverReset' = ServerBounced(c, answers)
                   /\ UNCHANGED <<clientReset, serverEnd, clients>>
  <2>1. serverReset[c] # "here"
      BY <1>8 DEF ReceiveFails
  <2>2. Good(up[c])
      BY <1>4, <2>1 DEF Inv, StreamsFramed
  <2>3. PICK s : s = t.stream
      OBVIOUS
  <2>4. /\ Good(s) /\ s \in StreamType /\ t.messages \in Seq(Messages)
        /\ \A e : Contains(up[c].promised, e) <=> Contains(t.messages, e) \/ Contains(s.promised, e)
      BY <1>1, <2>2, <2>3, ManyReceived
  <2>5. streams = [up EXCEPT ![c] = s]
      BY <1>1, <2>3
  <2>6. answers \in Seq(Messages) /\ (answers # <<>> => Head(answers) = NotifySetting)
      BY <1>1, <2>4, AnswersMade DEF AnswersTo
  <2>7. TypeTaken'
      BY <1>8, <2>4 DEF ServerTakes, Taken, TypeTaken
  <2>8. CASE Contains(t.messages, Leave)
    <3>1. /\ clients' = [k \in DOMAIN clients \ {m} |-> clients[k]]
          /\ ServerCloses({c}, streams)
          /\ todo' = DOMAIN clients \ {m}
        BY <1>1, <1>8, <2>8 DEF RemoveClient
    <3>2. /\ streams \in [Connections -> StreamType]
          /\ \A d \in Connections : d # c => streams[d] = up[d]
        BY <1>4, <1>5, <2>4, <2>5 DEF TypeStreams
    <3>3. ClosedOne(c)
        BY <1>4, <1>5, <3>1, <3>2, ServerClosesOne
    <3>4. ASSUME NEW i \in Interfaces, socket[i] = c PROVE stage[i] \notin {"waiting", "joined"}
      <4>1. Contains(up[c].promised, Leave)
          BY <2>4, <2>8
      <4> QED
          BY <3>4, <4>1 DEF Inv, Agreement, AgreesWith
    <3>5. /\ down' \in [Connections -> StreamType] /\ Good(down'[c])
          /\ \A d \in Connections : d # c => down'[d] = down[d]
        BY <1>4, <1>5, <1>8, <2>6, DownWithGood
    <3>6. Inv'
      <4>1. clients[m] = c
          BY <1>1
      <4>2. UNCHANGED <<interface, clientEnd, phase, it, backlog, newConnections, state>>
          BY <1>2, <1>8
      <4> QED
          BY <1>3, <3>1, <3>3, <3>4, <3>5, <4>1, <4>2, Removed
    <3> QED
        BY <2>7, <3>6
  <2>9. CASE ~Contains(t.messages, Leave)
    <3>1. /\ todo' = todo \ {m}
          /\ up' = streams
          /\ serverReset' = ServerBounced(c, answers)
          /\ UNCHANGED <<clientReset, serverEnd, clients>>
        BY <1>8, <2>9
    <3>2. up' = [up EXCEPT ![c] = s]
        BY <2>5, <3>1
    <3>3. ~Contains(up[c].promised, Leave) => ~Contains(s.promised, Leave)
        BY <2>4
    <3>4. UNCHANGED <<interface, ends, clientReset, phase, it, backlog, newConnections, clients, state>>
        BY <1>2, <1>8, <3>1 DEF ends
    <3>5. Inv'
        BY <1>1, <1>3, <1>8, <2>1, <2>4, <2>6, <3>1, <3>2, <3>3, <3>4, Answered
    <3> QED
        BY <2>7, <3>5
  <2> QED
      BY <2>8, <2>9
<1> QED
    BY <1>2, <1>6, <1>7, <1>8

\* The server is interrupted.
LEMMA ShutdownInv ==
    ASSUME ~Datagrams, Inv, Shutdown
    PROVE  Inv' /\ TypeTaken'
<1>1. /\ phase = "clients" /\ todo = {} /\ state' = "ended"
      /\ down' = [c \in Connections |->
            IF c \in Range(clients) /\ ~ServerSendFails(c) THEN DownWith(c, <<Kick>>)[c] ELSE down[c]]
      /\ ServerCloses({c \in Connections : clientEnd[c] # "none"}, up)
      /\ clients' = <<>> /\ newConnections' = <<>> /\ backlog' = <<>>
      /\ UNCHANGED <<interface, clientEnd, phase, it, todo>>
    BY DEF Shutdown, Serving
<1>2. /\ stage' = stage /\ socket' = socket /\ id' = id /\ clientEnd' = clientEnd
      /\ phase' = phase /\ it' = it /\ todo' = todo
    BY <1>1 DEF interface
<1>3. /\ serverEnd \in [Connections -> End] /\ serverReset \in [Connections -> ResetState]
      /\ clientReset \in [Connections -> ResetState]
      /\ up \in [Connections -> StreamType] /\ down \in [Connections -> StreamType]
    BY DEF Inv, Types, TypeEnds, TypeStreams
<1>4. PICK cs : cs = {c \in Connections : clientEnd[c] # "none"}
    OBVIOUS
<1>5. /\ serverEnd' = With(serverEnd, cs, "closed") /\ up' = With(up, cs, NoStream)
      /\ serverReset' = With(serverReset, cs, "no")
      /\ clientReset' = [d \in Connections |->
             IF d \in cs /\ Unread(up[d]) /\ clientEnd[d] = "open" /\ clientReset[d] = "no"
             THEN "coming" ELSE clientReset[d]]
    BY <1>1, <1>4 DEF ServerCloses
<1>6. NoStream \in StreamType /\ Good(NoStream) /\ NoStream.promised = <<>>
    BY NoStreamGood DEF Good
<1>7. /\ serverEnd' \in [Connections -> End]
      /\ \A d \in Connections : serverEnd'[d] = IF clientEnd[d] # "none" THEN "closed" ELSE serverEnd[d]
    BY <1>3, <1>4, <1>5 DEF With, End
<1>8. /\ serverReset' \in [Connections -> ResetState]
      /\ \A d \in Connections : serverReset'[d] = IF clientEnd[d] # "none" THEN "no" ELSE serverReset[d]
    BY <1>3, <1>4, <1>5 DEF With, ResetState
<1>9. /\ up' \in [Connections -> StreamType]
      /\ \A d \in Connections : up'[d] = IF clientEnd[d] # "none" THEN NoStream ELSE up[d]
    BY <1>3, <1>4, <1>5, <1>6 DEF With
<1>10. /\ clientReset' \in [Connections -> ResetState]
       /\ \A d \in Connections : /\ clientReset[d] # "no" => clientReset'[d] = clientReset[d]
                                 /\ clientReset[d] = "no" => clientReset'[d] # "here"
                                 /\ clientEnd[d] = "none" => clientReset'[d] = clientReset[d]
    BY <1>3, <1>4, <1>5 DEF ResetState
<1>11. \A d \in Connections : IsClient(d) <=> d \in Range(clients)
    BY DEF IsClient, Range
<1>12. <<Kick>> \in Seq(Messages)
    BY MessageTypes, MessageSequences
<1>13. ASSUME NEW d \in Connections, IsClient(d)
       PROVE  /\ Good(DownWith(d, <<Kick>>)[d]) /\ DownWith(d, <<Kick>>)[d] \in StreamType
              /\ clientEnd[d] # "closed" => Contains(DownWith(d, <<Kick>>)[d].promised, Kick)
  <2>1. Good(down[d])
      BY <1>13 DEF Inv, EndsAgree, EndAgrees, StreamsFramed
  <2>2. /\ Good(DownWith(d, <<Kick>>)[d])
        /\ DownWith(d, <<Kick>>)[d].promised =
              IF clientEnd[d] = "closed" THEN down[d].promised ELSE down[d].promised \o <<Kick>>
      BY <1>12, <2>1, DownWithGood DEF Inv, Types
  <2>3. PICK p, k : p = down[d].promised /\ k = <<Kick>>
      OBVIOUS
  <2>4. p \in Seq(Messages) /\ k \in Seq(Messages)
      BY <1>12, <2>1, <2>3, StreamParts DEF Good
  <2>5. Contains(k, Kick)
      BY <2>3, ContainsOne
  <2>6. Contains(p \o k, Kick)
      BY <2>4, <2>5, ContainsJoined
  <2>7. clientEnd[d] # "closed" => Contains(DownWith(d, <<Kick>>)[d].promised, Kick)
      BY <2>2, <2>3, <2>6, Zenon
  <2> QED
      BY <2>2, <2>7 DEF Good
<1>14. /\ down' \in [Connections -> StreamType]
       /\ \A d \in Connections : down'[d] =
             IF IsClient(d) /\ ~ServerSendFails(d) THEN DownWith(d, <<Kick>>)[d] ELSE down[d]
    BY <1>1, <1>3, <1>11, <1>13
<1>15. DOMAIN clients' = {} /\ DOMAIN newConnections' = {} /\ DOMAIN backlog' = {}
    BY <1>1
<1>16. \A d : ~IsClient(d)' /\ ~IsNew(d)' /\ ~InBacklog(d)'
    BY <1>15 DEF IsClient, IsNew, InBacklog
<1>17. TypeInterfaces' /\ TypeEnds' /\ TypeStreams' /\ SocketsOwned'
    BY <1>2, <1>7, <1>8, <1>9, <1>10, <1>14
       DEF Inv, Types, TypeInterfaces, TypeEnds, TypeStreams, SocketsOwned
<1>18. TypeLoop' /\ LoopOK'
  <2>1. it = 1 /\ 1 \in 1 .. Len(newConnections') + 1
      BY <1>1 DEF Inv, LoopOK
  <2> QED
      BY <1>1, <1>2, <2>1 DEF Inv, Types, TypeLoop, LoopOK
<1>19. TypeQueues'
  <2>1. Range(clients') = {}
      BY <1>15 DEF Range
  <2>2. backlog' \in Seq(Connections) /\ newConnections' \in Seq([connection : Connections, late : BOOLEAN])
      BY <1>1
  <2> QED
      BY <1>15, <2>1, <2>2 DEF TypeQueues
<1>20. Once'
    BY <1>15 DEF Once
<1>21. StreamsFramed'
  <2> SUFFICES ASSUME NEW d \in Connections
               PROVE  /\ serverReset'[d] # "here" => Good(up'[d])
                      /\ clientReset'[d] # "here" => Good(down'[d])
      BY DEF StreamsFramed
  <2>1. serverReset'[d] # "here" => Good(up'[d])
      BY <1>6, <1>8, <1>9 DEF Inv, StreamsFramed
  <2>2. clientReset'[d] # "here" => Good(down'[d])
      BY <1>10, <1>13, <1>14 DEF Inv, StreamsFramed
  <2> QED
      BY <2>1, <2>2
<1>22. EndsAgree'
  <2> SUFFICES ASSUME NEW d \in Connections PROVE EndAgrees(d)'
      BY DEF EndsAgree
  <2>1. CASE clientEnd[d] = "none"
    <3>1. ~IsClient(d)
        BY <2>1 DEF Inv, EndsAgree, EndAgrees
    <3> QED
        BY <1>2, <1>7, <1>8, <1>9, <1>10, <1>14, <1>16, <2>1, <3>1 DEF Inv, EndsAgree, EndAgrees
  <2>2. CASE clientEnd[d] # "none"
      BY <1>2, <1>7, <1>8, <1>16, <2>2 DEF EndAgrees
  <2> QED
      BY <2>1, <2>2
<1>23. Agreement'
  <2> SUFFICES ASSUME NEW i \in Interfaces PROVE AgreesWith(i)'
      BY DEF Agreement
  <2>1. AgreesWith(i)
      BY DEF Inv, Agreement
  <2>2. CASE ~(stage[i] \in {"waiting", "joined"})
      BY <1>2, <2>1, <2>2, AgreementKept
  <2>3. CASE stage[i] \in {"waiting", "joined"}
    <3>1. PICK c : c = socket[i]
        OBVIOUS
    <3>2. c \in Connections /\ clientEnd[c] = "open" /\ serverReset[c] = "no"
        BY <2>3, <3>1, HasSocket, OwnSocket
    <3>3. serverEnd'[c] = "closed" /\ up'[c].promised = <<>>
        BY <1>6, <1>7, <1>9, <3>2
    <3>4. ~ServerSendFails(c)
        BY <3>2 DEF ServerSendFails
    <3>5. CASE IsClient(c)
      <4>1. Contains(down'[c].promised, Kick)
          BY <1>13, <1>14, <3>2, <3>4, <3>5
      <4>2. \A n : Known(c, n)'
          BY <3>3, <4>1 DEF Known
      <4> QED
          BY <1>2, <3>1, <3>3, <4>2, ContainsNone DEF AgreesWith
    <3>6. CASE ~IsClient(c)
      <4>1. down'[c] = down[c]
          BY <1>14, <3>2, <3>6
      <4>2. ASSUME NEW n, Known(c, n) PROVE Known(c, n)'
        <5>1. serverEnd[c] # "open"
            BY <3>6, <4>2 DEF Known, IsClient
        <5> QED
            BY <1>10, <3>2, <3>3, <4>1, <4>2, <5>1 DEF Known
      <4>3. stage'[i] = stage[i] /\ socket'[i] = c /\ id'[i] = id[i]
          BY <1>2, <3>1
      <4>4. PICK k : k = id[i]
          OBVIOUS
      <4>5. stage[i] = "joined" => Known(c, k)
          BY <2>1, <3>1, <4>4 DEF AgreesWith
      <4>6. stage'[i] = "joined" => Known(socket[i], id[i])'
          BY <4>2, <4>3, <4>4, <4>5
      <4>7. \A n \in ClientIds : stage'[i] = "waiting" /\ down'[c].promised # <<>>
               /\ Head(down'[c].promised) = Accept(n) => Known(c, n)'
          BY <2>1, <3>1, <4>1, <4>2, <4>3 DEF AgreesWith
      <4> QED
          BY <3>3, <4>3, <4>6, <4>7, ContainsNone DEF AgreesWith
    <3> QED
        BY <3>5, <3>6
  <2> QED
      BY <2>2, <2>3
<1>24. TypeTaken'
    BY MessageSequences DEF Shutdown, NothingTaken, Taken, TypeTaken
<1> QED
    BY <1>17, <1>18, <1>19, <1>20, <1>21, <1>22, <1>23, <1>24 DEF Inv, Types

\* Every step keeps the invariant.
LEMMA StepInv ==
    ASSUME ~Datagrams, Inv, TypeTaken, [Next]_vars
    PROVE  Inv' /\ TypeTaken'
<1>1. CASE UNCHANGED vars
    BY <1>1, StutterInv DEF vars, TypeTaken
<1>2. CASE Common
  <2>1. ASSUME NEW i \in Interfaces, StartJoin(i) PROVE Inv' /\ TypeTaken'
      BY <2>1, StartJoinInv
  <2>2. ASSUME NEW i \in Interfaces, Answer(i) PROVE Inv' /\ TypeTaken'
      BY <2>2, AnswerInv
  <2>3. ASSUME NEW i \in Interfaces, TimeOut(i) PROVE Inv' /\ TypeTaken'
      BY <2>3, TimeOutInv
  <2>4. ASSUME NEW i \in Interfaces, Flush(i) PROVE Inv' /\ TypeTaken'
      BY <2>4, FlushInv
  <2>5. ASSUME NEW i \in Interfaces, LeaveServer(i) PROVE Inv' /\ TypeTaken'
      BY <2>5, LeaveServerInv
  <2>6. ASSUME NEW i \in Interfaces, Reconnect(i) PROVE Inv' /\ TypeTaken'
      BY <2>6, ReconnectInv
  <2>7. ASSUME NEW i \in Interfaces, Crash(i) PROVE Inv' /\ TypeTaken'
      BY <2>7, CrashInv
  <2>8. ASSUME HandleSomeClient PROVE Inv' /\ TypeTaken'
      BY <2>8, HandleClientInv DEF HandleSomeClient
  <2> QED
      BY <1>2, <2>1, <2>2, <2>3, <2>4, <2>5, <2>6, <2>7, <2>8, CheckNewInv, StartClientsInv,
         NextRoundInv, ShutdownInv DEF Common
<1>3. ASSUME NEW i \in Interfaces, CrashConnecting(i) PROVE Inv' /\ TypeTaken'
    BY <1>3, CrashConnectingInv
<1>4. ASSUME NEW c \in Connections, ResetArrives(c) PROVE Inv' /\ TypeTaken'
    BY <1>4, ResetArrivesInv
<1> QED
    BY <1>1, <1>2, <1>3, <1>4, AcceptAllInv, FiveSecondsPassInv DEF Next

\* The invariant holds always.
LEMMA SpecInv ==
    ASSUME ~Datagrams
    PROVE  Spec => [](Inv /\ TypeTaken)
<1>1. Init => Inv /\ TypeTaken
    BY InvInit
<1>2. Inv /\ TypeTaken /\ [Next]_vars => (Inv /\ TypeTaken)'
    BY StepInv
<1> QED
    BY <1>1, <1>2, PTL DEF Spec

\* The variables have their types: in particular every client has a valid id, the loop
\* never leaves its queue, and what either side takes off a connection is a sequence of
\* messages.
THEOREM TypeCorrect ==
    ASSUME ~Datagrams
    PROVE  Spec => []TypeOK
<1>1. Inv /\ TypeTaken => TypeOK
    BY DEF Inv, Types, TypeInterfaces, TypeEnds, TypeStreams, TypeLoop, TypeQueues, TypeTaken, TypeOK
<1> QED
    BY <1>1, SpecInv, PTL

\* serve never dies of an exception: over TCP neither the receive from a new connection,
\* nor the answer to it, can fail before the server has sent anything.
THEOREM ServerServes ==
    ASSUME ~Datagrams
    PROVE  Spec => []ServesUntilOver
<1>1. Inv => ServesUntilOver
    BY DEF Inv, LoopOK, ServesUntilOver
<1> QED
    BY <1>1, SpecInv, PTL

\* A tedomari that thinks it has joined is known to the server under its id and over its
\* own connection, or will find out that the server has closed it.
THEOREM JoinedAreKnown ==
    ASSUME ~Datagrams
    PROVE  Spec => []JoinAgreement
<1>1. ASSUME Inv PROVE JoinAgreement
  <2> SUFFICES ASSUME NEW i \in Interfaces, stage[i] = "joined"
               PROVE  IF serverEnd[socket[i]] = "open"
                      THEN id[i] \in DOMAIN clients /\ clients[id[i]] = socket[i]
                      ELSE Contains(Contents(down[socket[i]]), Kick) \/ clientReset[socket[i]] # "no"
      BY DEF JoinAgreement
  <2>1. Known(socket[i], id[i])
      BY <1>1 DEF Inv, Agreement, AgreesWith
  <2>2. socket[i] \in Connections
      BY <1>1, HasSocket, OwnSocket
  <2>3. clientReset[socket[i]] = "no" => Contents(down[socket[i]]) = down[socket[i]].promised
      BY <1>1, <2>2, ContentsPromised DEF Inv, StreamsFramed
  <2> QED
      BY <2>1, <2>3 DEF Known
<1> QED
    BY <1>1, SpecInv, PTL

-----------------------------------------------------------------------------
(* The channels *)

\* A link that is broken, to the server and to the client, and what is taken from it
UpBroken(c) == serverEnd[c] = "closed" \/ serverReset[c] = "here"
DownBroken(c) == clientEnd[c] = "closed" \/ clientReset[c] = "here"
TakenBy(side, c) == IF taken.by = side /\ taken.connection = c THEN taken.messages ELSE <<>>

\* The three steps of a link whose queue was q and is r after t was taken
Takes(q, r, t) == t \o r = q
Sends(q, r, t) == IsStrictPrefix(q, r) /\ Range(r) \subseteq Messages /\ t = <<>>
Breaks(q, r, t) == IsPrefix(t \o r, q)

\* A step of the link to the server, and of the one to the client
UpStep(c) ==
    LET q == up[c].promised
        r == up'[c].promised
        t == TakenBy("server", c)'
    IN  \/ (UpBroken(c)' <=> UpBroken(c)) /\ Takes(q, r, t)
        \/ ~UpBroken(c) /\ ~UpBroken(c)' /\ Sends(q, r, t)
        \/ UpBroken(c)' /\ Breaks(q, r, t)
DownStep(c) ==
    LET q == down[c].promised
        r == down'[c].promised
        t == TakenBy("client", c)'
    IN  \/ (DownBroken(c)' <=> DownBroken(c)) /\ Takes(q, r, t)
        \/ ~DownBroken(c) /\ ~DownBroken(c)' /\ Sends(q, r, t)
        \/ DownBroken(c)' /\ Breaks(q, r, t)
LinkSteps == \A c \in Connections : UpStep(c) /\ DownStep(c)

\* A step of every link is a step of the channels.
LEMMA StepsMapped ==
    ASSUME LinkSteps
    PROVE  Channel!Next
<1> SUFFICES ASSUME NEW l \in Links
             PROVE  Channel!Receive(l) \/ Channel!Send(l) \/ Channel!Break(l)
    BY DEF Channel!Next
<1>1. PICK side, c : l = <<side, c>> /\ side \in {"server", "client"} /\ c \in Connections
    BY DEF Links
<1>2. PICK q, r, t : q = Stream(l).promised /\ r = Stream(l)'.promised /\ t = TakenFrom(l)'
    OBVIOUS
<1>3. \/ (Broken(l)' <=> Broken(l)) /\ Takes(q, r, t)
      \/ ~Broken(l) /\ ~Broken(l)' /\ Sends(q, r, t)
      \/ Broken(l)' /\ Breaks(q, r, t)
  <2>1. CASE side = "server"
    <3>1. Stream(l) = up[c] /\ Stream(l)' = up'[c] /\ TakenFrom(l)' = TakenBy("server", c)'
        BY <1>1, <2>1 DEF Stream, TakenFrom, TakenBy
    <3>2. (Broken(l) <=> UpBroken(c)) /\ (Broken(l)' <=> UpBroken(c)')
        BY <1>1, <2>1 DEF Broken, UpBroken
    <3>3. UpStep(c)
        BY <1>1 DEF LinkSteps
    <3> QED
        BY <1>2, <3>1, <3>2, <3>3 DEF UpStep
  <2>2. CASE side = "client"
    <3>1. Stream(l) = down[c] /\ Stream(l)' = down'[c] /\ TakenFrom(l)' = TakenBy("client", c)'
        BY <1>1, <2>2 DEF Stream, TakenFrom, TakenBy
    <3>2. (Broken(l) <=> DownBroken(c)) /\ (Broken(l)' <=> DownBroken(c)')
        BY <1>1, <2>2 DEF Broken, DownBroken
    <3>3. DownStep(c)
        BY <1>1 DEF LinkSteps
    <3> QED
        BY <1>2, <3>1, <3>2, <3>3 DEF DownStep
  <2> QED
      BY <1>1, <2>1, <2>2
<1>4. (Broken(l)' <=> Broken(l)) => (Broken(l)' = Broken(l))
    BY DEF Broken
<1>5. /\ Channel!Receive(l) <=> (Broken(l)' = Broken(l)) /\ Takes(q, r, t)
      /\ Channel!Send(l) <=> ~Broken(l) /\ ~Broken(l)' /\ Sends(q, r, t)
      /\ Channel!Break(l) <=> Broken(l)' /\ Breaks(q, r, t)
    BY <1>2 DEF Takes, Sends, Breaks, Channel!Receive, Channel!Send, Channel!Break,
                Channel!Range, Range, Channel!IsPrefix, IsPrefix, Channel!IsStrictPrefix, IsStrictPrefix
<1> QED
    BY <1>3, <1>4, <1>5, Zenon

\* The links are empty and whole at first.
LEMMA InitMapped == Init => Channel!Init
<1> SUFFICES ASSUME Init PROVE Channel!Init
    OBVIOUS
<1>1. NoStream.promised = <<>>
    BY NoStreamGood
<1>2. ASSUME NEW l \in Links
      PROVE  Stream(l).promised = <<>> /\ TakenFrom(l) = <<>> /\ ~Broken(l)
  <2>1. PICK side, c : l = <<side, c>> /\ side \in {"server", "client"} /\ c \in Connections
      BY DEF Links
  <2>2. Stream(l) = NoStream
      BY <2>1 DEF Init, Stream
  <2>3. TakenFrom(l) = <<>>
      BY DEF Init, TakenFrom, Taken
  <2>4. ~Broken(l)
      BY <2>1 DEF Init, Broken
  <2> QED
      BY <1>1, <2>2, <2>3, <2>4
<1>3. [l \in Links |-> Stream(l).promised] = [l \in Links |-> <<>>]
    BY <1>2
<1>4. [l \in Links |-> TakenFrom(l)] = [l \in Links |-> <<>>]
    BY <1>2
<1>5. [l \in Links |-> Broken(l)] = [l \in Links |-> FALSE]
  <2>1. \A l \in Links : Broken(l) = FALSE
      BY <1>2 DEF Broken
  <2> QED
      BY <2>1
<1> QED
    BY <1>3, <1>4, <1>5 DEF Channel!Init

\* The channels speak of the variables only.
LEMMA StutterMapped == UNCHANGED vars => UNCHANGED Channel!vars
BY DEF vars, ends, resets, Channel!vars, Stream, Broken, TakenFrom

\* What is joined begins with its front.
LEMMA PrefixJoined ==
    ASSUME NEW S, NEW a \in Seq(S), NEW b \in Seq(S)
    PROVE  IsPrefix(a, a \o b) /\ (b # <<>> => IsStrictPrefix(a, a \o b))
<1>1. PICK la, lb, s : la = Len(a) /\ lb = Len(b) /\ s = a \o b
    OBVIOUS
<1>2. /\ la \in Nat /\ lb \in Nat /\ s \in Seq(S) /\ Len(s) = la + lb
      /\ \A i \in 1 .. la : s[i] = a[i]
  <2>1. /\ a \o b \in Seq(S) /\ Len(a \o b) = Len(a) + Len(b)
        /\ \A i \in 1 .. Len(a) : (a \o b)[i] = a[i]
      BY ConcatProperties, LenProperties
  <2> QED
      BY <1>1, <2>1, LenProperties
<1>3. a \in Seq(S) /\ la \in 0 .. Len(a) /\ la \in 0 .. Len(s)
    BY <1>1, <1>2
<1>4. /\ SubSeq(a, 1, la) \in Seq(S) /\ Len(SubSeq(a, 1, la)) = la
      /\ \A i \in 1 .. la : SubSeq(a, 1, la)[i] = a[i]
    BY <1>3, CutInTwo
<1>5. /\ SubSeq(s, 1, la) \in Seq(S) /\ Len(SubSeq(s, 1, la)) = la
      /\ \A i \in 1 .. la : SubSeq(s, 1, la)[i] = s[i]
    BY <1>2, <1>3, CutInTwo
<1>6. PICK x, y : x = SubSeq(a, 1, la) /\ y = SubSeq(s, 1, la)
    OBVIOUS
<1>7. /\ x \in Seq(S) /\ y \in Seq(S) /\ Len(x) = la /\ Len(y) = la
      /\ \A i \in 1 .. la : x[i] = y[i]
    BY <1>2, <1>4, <1>5, <1>6
<1>8. x = y
  <2>1. Len(x) = Len(y) /\ \A i \in 1 .. Len(x) : x[i] = y[i]
      BY <1>7
  <2> QED
      BY <1>7, <2>1, SeqEqual
<1>9. IsPrefix(a, s)
  <2>1. Len(a) <= Len(s)
      BY <1>1, <1>2
  <2> QED
      BY <1>1, <1>6, <1>8, <2>1 DEF IsPrefix
<1>10. b # <<>> => a # s
  <2>1. b # <<>> => lb # 0
      BY <1>1, EmptySeq
  <2>2. lb # 0 => Len(a) # Len(s)
      BY <1>1, <1>2
  <2> QED
      BY <2>1, <2>2
<1> QED
    BY <1>1, <1>9, <1>10, Zenon DEF IsStrictPrefix

\* Taking nothing from a queue that stays, and breaking without a loss.
LEMMA NoneTaken ==
    ASSUME NEW q \in Seq(Messages)
    PROVE  Takes(q, q, <<>>) /\ Breaks(q, q, <<>>)
<1>1. <<>> \o q = q /\ q \o <<>> = q
    BY ConcatEmptySeq
<1>2. IsPrefix(q, q \o <<>>)
    BY EmptySeq, PrefixJoined
<1>3. IsPrefix(<<>> \o q, q)
    BY <1>1, <1>2, Zenon
<1> QED
    BY <1>1, <1>3, Zenon DEF Takes, Breaks

\* Sending some messages, or none.
LEMMA SomeSent ==
    ASSUME NEW q \in Seq(Messages), NEW ms \in Seq(Messages), NEW r, r = q \o ms
    PROVE  Sends(q, r, <<>>) \/ (r = q /\ Takes(q, r, <<>>))
<1>1. CASE ms = <<>>
  <2>1. q \o <<>> = q
      BY ConcatEmptySeq
  <2>2. r = q
      BY <1>1, <2>1, Zenon
  <2> QED
      BY <2>2, NoneTaken
<1>2. CASE ms # <<>>
  <2>1. IsStrictPrefix(q, q \o ms)
      BY <1>2, PrefixJoined
  <2>2. q \o ms \in Seq(Messages)
      BY ConcatProperties
  <2>3. r \in Seq(Messages)
      BY <2>2, Zenon
  <2>4. Range(r) \subseteq Messages
    <3>1. \A i \in DOMAIN r : r[i] \in Messages
        BY <2>3, ElementOfSeq, LenProperties
    <3> QED
        BY <3>1 DEF Range
  <2> QED
      BY <2>1, <2>4, Zenon DEF Sends
<1> QED
    BY <1>1, <1>2

\* Breaking after some messages were taken: the others are lost.
LEMMA TheRestLost ==
    ASSUME NEW t \in Seq(Messages), NEW x \in Seq(Messages), NEW q, q = t \o x
    PROVE  Breaks(q, <<>>, t)
<1>1. IsPrefix(t, t \o x)
    BY PrefixJoined
<1>2. t \o <<>> = t
    BY ConcatEmptySeq
<1>3. IsPrefix(t \o <<>>, q)
    BY <1>1, <1>2, Zenon
<1> QED
    BY <1>3, Zenon DEF Breaks

\* A step that takes nothing.
LEMMA NothingIsTaken ==
    ASSUME NothingTaken
    PROVE  \A side, c : TakenBy(side, c)' = <<>>
BY DEF NothingTaken, Taken, TakenBy

\* A step in which the server takes messages from one connection.
LEMMA ServerHasTaken ==
    ASSUME NEW c, NEW ms, ServerTakes(c, ms)
    PROVE  /\ TakenBy("server", c)' = ms
           /\ \A d : TakenBy("client", d)' = <<>> /\ (d # c => TakenBy("server", d)' = <<>>)
BY DEF ServerTakes, Taken, TakenBy

\* A step in which a client does.
LEMMA ClientHasTaken ==
    ASSUME NEW c, NEW ms, ClientTakes(c, ms)
    PROVE  /\ TakenBy("client", c)' = ms
           /\ \A d : TakenBy("server", d)' = <<>> /\ (d # c => TakenBy("client", d)' = <<>>)
BY DEF ClientTakes, Taken, TakenBy

\* What is promised is messages.
LEMMA PromisedSequences ==
    ASSUME Inv, NEW c \in Connections
    PROVE  up[c].promised \in Seq(Messages) /\ down[c].promised \in Seq(Messages)
<1>1. up[c] \in StreamType /\ down[c] \in StreamType
    BY DEF Inv, Types, TypeStreams
<1> QED
    BY <1>1, StreamParts

\* A link that stays as it is
UpStill(c) ==
    /\ UpBroken(c)' <=> UpBroken(c)
    /\ up'[c].promised = up[c].promised /\ TakenBy("server", c)' = <<>>
DownStill(c) ==
    /\ DownBroken(c)' <=> DownBroken(c)
    /\ down'[c].promised = down[c].promised /\ TakenBy("client", c)' = <<>>

\* A link that stays as it is takes a step.
LEMMA StillSteps ==
    ASSUME Inv, NEW c \in Connections
    PROVE  (UpStill(c) => UpStep(c)) /\ (DownStill(c) => DownStep(c))
<1>1. PICK q, p : q = up[c].promised /\ p = down[c].promised
    OBVIOUS
<1>2. Takes(q, q, <<>>) /\ Takes(p, p, <<>>)
    BY <1>1, NoneTaken, PromisedSequences
<1> QED
    BY <1>1, <1>2 DEF UpStep, DownStep, UpStill, DownStill

\* The step concerns no connection but c
Elsewhere(c) == \A d \in Connections : d # c =>
    /\ clientEnd'[d] = clientEnd[d] /\ serverEnd'[d] = serverEnd[d]
    /\ serverReset'[d] = serverReset[d] /\ clientReset'[d] = clientReset[d]
    /\ up'[d] = up[d] /\ down'[d] = down[d]
    /\ TakenBy("server", d)' = <<>> /\ TakenBy("client", d)' = <<>>

\* A step on one connection is a step of every link.
LEMMA OneLink ==
    ASSUME Inv, NEW c \in Connections, Elsewhere(c), UpStep(c), DownStep(c)
    PROVE  LinkSteps
<1> SUFFICES ASSUME NEW d \in Connections PROVE UpStep(d) /\ DownStep(d)
    BY DEF LinkSteps
<1>1. CASE d = c
    BY <1>1
<1>2. CASE d # c
  <2>1. UpStill(d) /\ DownStill(d)
      BY <1>2 DEF Elsewhere, UpStill, DownStill, UpBroken, DownBroken
  <2> QED
      BY <2>1, StillSteps
<1> QED
    BY <1>1, <1>2

-----------------------------------------------------------------------------
(* What tedomari sends and receives *)

\* Messages sent to the server.
LEMMA UpSends ==
    ASSUME Inv, NEW c \in Connections, ~UpBroken(c), ~UpBroken(c)', NEW ms \in Seq(Messages),
           up'[c].promised = up[c].promised \o ms, TakenBy("server", c)' = <<>>
    PROVE  UpStep(c)
<1>1. PICK q, r : q = up[c].promised /\ r = up'[c].promised
    OBVIOUS
<1>2. q \in Seq(Messages) /\ r = q \o ms
    BY <1>1, PromisedSequences, Zenon
<1>3. Sends(q, r, <<>>) \/ Takes(q, r, <<>>)
    BY <1>2, SomeSent
<1> QED
    BY <1>1, <1>3 DEF UpStep

\* Messages sent to the client.
LEMMA DownSends ==
    ASSUME Inv, NEW c \in Connections, ~DownBroken(c), ~DownBroken(c)', NEW ms \in Seq(Messages),
           down'[c].promised = down[c].promised \o ms, TakenBy("client", c)' = <<>>
    PROVE  DownStep(c)
<1>1. PICK q, r : q = down[c].promised /\ r = down'[c].promised
    OBVIOUS
<1>2. q \in Seq(Messages) /\ r = q \o ms
    BY <1>1, PromisedSequences, Zenon
<1>3. Sends(q, r, <<>>) \/ Takes(q, r, <<>>)
    BY <1>2, SomeSent
<1> QED
    BY <1>1, <1>3 DEF DownStep

\* A client sends; nothing arrives at an end that is closed
LEMMA UpWithStep ==
    ASSUME Inv, NEW c \in Connections, Good(up[c]), NEW ms \in Seq(Messages),
           up' = UpWith(c, ms), serverEnd'[c] = serverEnd[c],
           serverReset[c] # "here", serverReset'[c] # "here", TakenBy("server", c)' = <<>>
    PROVE  UpStep(c) /\ \A d \in Connections : d # c => up'[d] = up[d]
<1>1. /\ \A d \in Connections : d # c => up'[d] = up[d]
      /\ up'[c].promised = IF serverEnd[c] = "closed" THEN up[c].promised ELSE up[c].promised \o ms
    BY UpWithGood DEF Inv, Types
<1>2. CASE serverEnd[c] = "closed"
  <2>1. UpStill(c)
      BY <1>1, <1>2 DEF UpStill, UpBroken
  <2> QED
      BY <1>1, <2>1, StillSteps
<1>3. CASE serverEnd[c] # "closed"
  <2>1. ~UpBroken(c) /\ ~UpBroken(c)'
      BY <1>3 DEF UpBroken
  <2>2. up'[c].promised = up[c].promised \o ms
      BY <1>1, <1>3, Zenon
  <2>3. UpStep(c)
      BY <2>1, <2>2, UpSends
  <2> QED
      BY <1>1, <2>3
<1> QED
    BY <1>2, <1>3

\* The server sends
LEMMA DownWithStep ==
    ASSUME Inv, NEW c \in Connections, Good(down[c]), NEW ms \in Seq(Messages),
           down'[c] = DownWith(c, ms)[c], clientEnd'[c] = clientEnd[c],
           clientReset[c] # "here", clientReset'[c] # "here", TakenBy("client", c)' = <<>>
    PROVE  DownStep(c)
<1>1. down'[c].promised = IF clientEnd[c] = "closed" THEN down[c].promised ELSE down[c].promised \o ms
    BY DownWithGood DEF Inv, Types
<1>2. CASE clientEnd[c] = "closed"
  <2>1. DownStill(c)
      BY <1>1, <1>2 DEF DownStill, DownBroken
  <2> QED
      BY <2>1, StillSteps
<1>3. CASE clientEnd[c] # "closed"
  <2>1. ~DownBroken(c) /\ ~DownBroken(c)'
      BY <1>3 DEF DownBroken
  <2>2. down'[c].promised = down[c].promised \o ms
      BY <1>1, <1>3, Zenon
  <2> QED
      BY <2>1, <2>2, DownSends
<1> QED
    BY <1>2, <1>3

\* What a call of receive takes
LEMMA OneTakes ==
    ASSUME NEW q \in Seq(Messages), NEW r, NEW t,
           \/ t = <<>> /\ r = q
           \/ q # <<>> /\ t = <<Head(q)>> /\ r = Tail(q)
    PROVE  Takes(q, r, t)
<1>1. CASE t = <<>> /\ r = q
    BY <1>1, NoneTaken
<1>2. CASE q # <<>> /\ t = <<Head(q)>> /\ r = Tail(q)
  <2>1. q = <<Head(q)>> \o Tail(q)
      BY <1>2, FirstAndRest
  <2> QED
      BY <1>2, <2>1, Zenon DEF Takes
<1> QED
    BY <1>1, <1>2

\* An interface closes its end, after it has taken a message or none.
LEMMA ClosesSteps ==
    ASSUME ~Datagrams, Inv, NEW i \in Interfaces, socket[i] # Nothing, stage[i] # "crashed",
           NEW last \in Seq(Messages), NEW st, Closes(i, last, st), NEW c, c = socket[i],
           NEW t, TakenBy("client", c)' = t, Breaks(down[c].promised, <<>>, t),
           \A d : TakenBy("server", d)' = <<>> /\ (d # c => TakenBy("client", d)' = <<>>)
    PROVE  LinkSteps
<1>1. c \in Connections /\ clientEnd[c] = "open" /\ serverReset[c] = "no" /\ Good(up[c])
    BY OwnSocket
<1>2. /\ clientEnd' = [clientEnd EXCEPT ![c] = "closed"]
      /\ down' = [down EXCEPT ![c] = NoStream]
      /\ up' = UpWith(c, last)
      /\ clientReset' = [clientReset EXCEPT ![c] = "no"]
      /\ serverReset' = IF Unread(down[c]) /\ serverEnd[c] # "closed" /\ serverReset[c] = "no"
                        THEN [serverReset EXCEPT ![c] = "coming"] ELSE serverReset
      /\ serverEnd' = serverEnd
    BY DEF Closes, CloseEnd
<1>3. NoStream.promised = <<>>
    BY NoStreamGood
<1>4. /\ clientEnd \in [Connections -> End] /\ serverReset \in [Connections -> ResetState]
      /\ clientReset \in [Connections -> ResetState] /\ down \in [Connections -> StreamType]
    BY DEF Inv, Types, TypeEnds, TypeStreams
<1>5. clientEnd'[c] = "closed" /\ down'[c] = NoStream /\ serverReset'[c] # "here"
    BY <1>1, <1>2, <1>4
<1>6. \A d \in Connections : d # c =>
          /\ clientEnd'[d] = clientEnd[d] /\ down'[d] = down[d]
          /\ serverReset'[d] = serverReset[d] /\ clientReset'[d] = clientReset[d]
    BY <1>2, <1>4
<1>7. UpStep(c) /\ \A d \in Connections : d # c => up'[d] = up[d]
    BY <1>1, <1>2, <1>5, UpWithStep
<1>8. DownStep(c)
  <2>1. DownBroken(c)'
      BY <1>5 DEF DownBroken
  <2> QED
      BY <1>3, <1>5, <2>1 DEF DownStep
<1>9. Elsewhere(c)
    BY <1>2, <1>6, <1>7 DEF Elsewhere
<1> QED
    BY <1>1, <1>7, <1>8, <1>9, OneLink

\* Breaking before any message is taken.
LEMMA NothingBreaks ==
    ASSUME NEW q \in Seq(Messages)
    PROVE  Breaks(q, <<>>, <<>>)
<1>1. <<>> \in Seq(Messages) /\ <<>> \o q = q
    BY MessageSequences, ConcatEmptySeq
<1> QED
    BY <1>1, TheRestLost

\* An interface closes its end without having taken a message.
LEMMA ClosesQuietly ==
    ASSUME ~Datagrams, Inv, NEW i \in Interfaces, socket[i] # Nothing, stage[i] # "crashed",
           NEW last \in Seq(Messages), NEW st, Closes(i, last, st), NothingTaken
    PROVE  LinkSteps
<1>1. PICK c : c = socket[i]
    OBVIOUS
<1>2. c \in Connections
    BY <1>1, OwnSocket
<1>3. Breaks(down[c].promised, <<>>, <<>>)
    BY <1>2, PromisedSequences, NothingBreaks
<1>4. \A d : TakenBy("server", d)' = <<>> /\ TakenBy("client", d)' = <<>>
    BY NothingIsTaken
<1> QED
    BY <1>1, <1>3, <1>4, ClosesSteps

\* An exception in tedomari.
LEMMA FailSteps ==
    ASSUME ~Datagrams, Inv, NEW i \in Interfaces, stage[i] \in {"waiting", "joined"}, Fail(i)
    PROVE  LinkSteps
<1>1. Closes(i, <<>>, "failed") /\ NothingTaken
    BY DEF Fail, CloseSocket, Closes
<1> QED
    BY <1>1, HasSocket, MessageSequences, ClosesQuietly

\* join gives up.
LEMMA TimeOutSteps ==
    ASSUME ~Datagrams, Inv, NEW i \in Interfaces, TimeOut(i)
    PROVE  LinkSteps
<1>1. Closes(i, <<>>, "idle") /\ stage[i] \in {"waiting", "joined"} /\ NothingTaken
    BY DEF TimeOut, CloseSocket, Closes
<1> QED
    BY <1>1, HasSocket, MessageSequences, ClosesQuietly

\* The interface is destroyed.
LEMMA ReconnectSteps ==
    ASSUME ~Datagrams, Inv, NEW i \in Interfaces, Reconnect(i)
    PROVE  LinkSteps
<1>1. PICK last : last = IF stage[i] = "joined" /\ ~ClientSendFails(socket[i]) THEN <<Leave>> ELSE <<>>
    OBVIOUS
<1>2. last \in Seq(Messages)
    BY <1>1, MessageSequences, MessageTypes
<1>3. /\ Closes(i, last, "idle") /\ stage[i] \in {"idle", "joined"} /\ socket[i] # Nothing
      /\ NothingTaken
    BY <1>1 DEF Reconnect, CloseSocket, Closes
<1> QED
    BY <1>2, <1>3, ClosesQuietly

\* tedomari is killed.
LEMMA CrashSteps ==
    ASSUME ~Datagrams, Inv, NEW i \in Interfaces, Crash(i)
    PROVE  LinkSteps
<1>1. Closes(i, <<>>, "crashed") /\ stage[i] \in {"waiting", "joined"} /\ NothingTaken
    BY DEF Crash, Closes
<1> QED
    BY <1>1, HasSocket, MessageSequences, ClosesQuietly

\* A new connection, with a join message or without.
LEMMA ConnectsSteps ==
    ASSUME Inv, NEW i \in Interfaces, NEW c, NEW st, NEW e, NEW s, Connects(i, c, st, e, s),
           NEW ms \in Seq(Messages), s.promised = <<>> \o ms
    PROVE  LinkSteps
<1>1. /\ Unused # {} /\ serverEnd' = serverEnd /\ down' = down /\ serverReset' = serverReset
      /\ clientReset' = clientReset /\ NothingTaken
    BY DEF Connects, Connect, resets
<1>2. /\ clientEnd' = [clientEnd EXCEPT ![c] = e] /\ up' = [up EXCEPT ![c] = s]
      /\ e \in {"open", "closed"} /\ c = Min(Unused)
    BY DEF Connects
<1>3. c \in Connections /\ clientEnd[c] = "none"
  <2>1. Unused \subseteq Connections /\ Connections \subseteq Nat
      BY JoiningAssumption DEF Unused
  <2>2. Unused \subseteq Nat
      BY <2>1
  <2>3. c \in Unused
      BY <1>1, <1>2, <2>2, LeastOf
  <2> QED
      BY <2>3 DEF Unused
<1>4. /\ serverEnd[c] = "none" /\ up[c] = NoStream /\ serverReset[c] # "here"
      /\ NoStream.promised = <<>>
    BY <1>3, NoStreamGood DEF Inv, EndsAgree, EndAgrees
<1>5. /\ clientEnd'[c] = e /\ up'[c] = s
      /\ \A d \in Connections : d # c => clientEnd'[d] = clientEnd[d] /\ up'[d] = up[d]
    BY <1>2, <1>3 DEF Inv, Types, TypeEnds, TypeStreams
<1>6. \A side, d : TakenBy(side, d)' = <<>>
    BY <1>1, NothingIsTaken
<1>7. UpStep(c)
  <2>1. ~UpBroken(c) /\ ~UpBroken(c)'
      BY <1>1, <1>4 DEF UpBroken
  <2>2. up'[c].promised = up[c].promised \o ms
      BY <1>4, <1>5, Zenon
  <2> QED
      BY <1>3, <1>6, <2>1, <2>2, UpSends
<1>8. DownStep(c)
  <2>1. CASE e = "open"
    <3>1. DownStill(c)
        BY <1>1, <1>3, <1>5, <1>6, <2>1 DEF DownStill, DownBroken
    <3> QED
        BY <1>3, <3>1, StillSteps
  <2>2. CASE e = "closed"
    <3>1. DownBroken(c)' /\ Breaks(down[c].promised, down'[c].promised, <<>>)
        BY <1>1, <1>3, <1>5, <2>2, PromisedSequences, NoneTaken DEF DownBroken
    <3> QED
        BY <1>6, <3>1 DEF DownStep
  <2> QED
      BY <1>2, <2>1, <2>2
<1>9. Elsewhere(c)
    BY <1>1, <1>5, <1>6 DEF Elsewhere
<1> QED
    BY <1>3, <1>7, <1>8, <1>9, OneLink

\* join, up to its message.
LEMMA StartJoinSteps ==
    ASSUME Inv, NEW i \in Interfaces, StartJoin(i)
    PROVE  LinkSteps
<1>1. PICK c, s, ms : c = Min(Unused) /\ ms = <<Join>> /\ s = Sent(NoStream, ms)
    OBVIOUS
<1>2. ms \in Seq(Messages) /\ <<>> \in Seq(Messages) /\ Join # Leave
    BY <1>1, MessageTypes, MessageSequences
<1>3. Good(s) /\ s.promised = <<>> \o ms
    BY <1>1, <1>2, NoStreamGood, SentGood, Zenon
<1>4. <<>> \o ms = ms
    BY <1>2, ConcatEmptySeq
<1>5. s.promised = ms
    BY <1>3, <1>4, Zenon
<1>6. ~Contains(s.promised, Leave)
    BY <1>1, <1>2, <1>5, ContainsOne
<1>7. Connects(i, c, "waiting", "open", s)
    BY <1>1, <1>3, <1>6 DEF StartJoin, Connects
<1> QED
    BY <1>2, <1>3, <1>7, ConnectsSteps, Zenon

\* A crash before the join message.
LEMMA CrashConnectingSteps ==
    ASSUME Inv, NEW i \in Interfaces, CrashConnecting(i)
    PROVE  LinkSteps
<1>1. PICK c : c = Min(Unused)
    OBVIOUS
<1>2. c \in Unused
  <2>1. Unused \subseteq Connections /\ Connections \subseteq Nat
      BY JoiningAssumption DEF Unused
  <2>2. Unused \subseteq Nat /\ Unused # {}
      BY <2>1 DEF CrashConnecting, Connect
  <2> QED
      BY <1>1, <2>2, LeastOf
<1>3. c \in Connections /\ up[c] = NoStream
    BY <1>2 DEF Unused, Inv, EndsAgree, EndAgrees
<1>4. up' = [up EXCEPT ![c] = NoStream]
    BY <1>3 DEF CrashConnecting, Inv, Types, TypeStreams
<1>5. Good(NoStream) /\ ~Contains(NoStream.promised, Leave) /\ NoStream.promised = <<>>
    BY NoStreamGood, ContainsNone
<1>6. Connects(i, c, "crashed", "closed", NoStream)
    BY <1>1, <1>4, <1>5 DEF CrashConnecting, Connects
<1>7. <<>> \in Seq(Messages)
    BY MessageSequences
<1>8. <<>> \o <<>> = <<>>
    BY <1>7, ConcatEmptySeq
<1>9. NoStream.promised = <<>> \o <<>>
    BY <1>5, <1>8, Zenon
<1> QED
    BY <1>6, <1>7, <1>9, ConnectsSteps, Zenon

\* A step that receives nothing and sends nothing, and closes no end
LEMMA AllStill ==
    ASSUME Inv, NothingTaken, UNCHANGED <<clientEnd, up, down, resets>>,
           \A c \in Connections : serverEnd'[c] = "closed" <=> serverEnd[c] = "closed"
    PROVE  LinkSteps
<1> SUFFICES ASSUME NEW c \in Connections PROVE UpStep(c) /\ DownStep(c)
    BY DEF LinkSteps
<1>1. UpStill(c) /\ DownStill(c)
    BY NothingIsTaken DEF UpStill, DownStill, UpBroken, DownBroken, resets
<1> QED
    BY <1>1, StillSteps

\* The timers and the turns of the loop.
LEMMA QuietSteps ==
    ASSUME Inv, FiveSecondsPass \/ StartClients \/ NextRound
    PROVE  LinkSteps
<1>1. NothingTaken /\ UNCHANGED <<clientEnd, up, down, resets>> /\ serverEnd' = serverEnd
    BY DEF FiveSecondsPass, StartClients, NextRound, ends
<1> QED
    BY <1>1, AllStill

\* Accepting a connection breaks no link.
LEMMA AcceptAllSteps ==
    ASSUME Inv, AcceptAll
    PROVE  LinkSteps
<1>1. /\ NothingTaken /\ UNCHANGED <<clientEnd, up, down, resets>>
      /\ serverEnd' = With(serverEnd, Range(backlog), "open")
    BY DEF AcceptAll
<1>2. ASSUME NEW c \in Connections
      PROVE  serverEnd'[c] = "closed" <=> serverEnd[c] = "closed"
  <2>1. serverEnd'[c] = IF c \in Range(backlog) THEN "open" ELSE serverEnd[c]
      BY <1>1 DEF With, Inv, Types, TypeEnds
  <2>2. c \in Range(backlog) => serverEnd[c] = "none"
    <3>1. c \in Range(backlog) => InBacklog(c)
        BY DEF Range, InBacklog
    <3> QED
        BY <3>1 DEF Inv, EndsAgree, EndAgrees
  <2> QED
      BY <2>1, <2>2
<1> QED
    BY <1>1, <1>2, AllStill

\* A reset breaks the link it arrives on.
LEMMA ResetArrivesSteps ==
    ASSUME Inv, NEW c \in Connections, ResetArrives(c)
    PROVE  LinkSteps
<1>1. clientEnd' = clientEnd /\ serverEnd' = serverEnd
    BY DEF ResetArrives, ends
<1>2. \A side, d : TakenBy(side, d)' = <<>>
    BY NothingIsTaken DEF ResetArrives
<1>3. up[c] \in StreamType /\ down[c] \in StreamType
    BY DEF Inv, Types, TypeStreams
<1>4. PICK s, r : s = [up[c] EXCEPT !.wire = <<>>] /\ r = [down[c] EXCEPT !.wire = <<>>]
    OBVIOUS
<1>5. s.promised = up[c].promised /\ r.promised = down[c].promised
    BY <1>3, <1>4, WireLost
<1>6. /\ serverReset \in [Connections -> ResetState] /\ clientReset \in [Connections -> ResetState]
      /\ up \in [Connections -> StreamType] /\ down \in [Connections -> StreamType]
    BY DEF Inv, Types, TypeEnds, TypeStreams
<1>7. CASE /\ serverReset' = [serverReset EXCEPT ![c] = "here"]
           /\ up' = [up EXCEPT ![c] = s]
           /\ UNCHANGED <<clientReset, down>>
  <2>1. /\ serverReset'[c] = "here" /\ up'[c] = s
        /\ \A d \in Connections : d # c => serverReset'[d] = serverReset[d] /\ up'[d] = up[d]
      BY <1>6, <1>7
  <2>2. Elsewhere(c)
      BY <1>1, <1>2, <1>7, <2>1 DEF Elsewhere
  <2>3. DownStill(c)
      BY <1>1, <1>2, <1>7 DEF DownStill, DownBroken
  <2>4. UpBroken(c)'
      BY <2>1 DEF UpBroken
  <2>5. Breaks(up[c].promised, up'[c].promised, <<>>)
      BY <1>5, <2>1, PromisedSequences, NoneTaken
  <2>6. UpStep(c)
      BY <1>2, <2>4, <2>5 DEF UpStep
  <2> QED
      BY <2>2, <2>3, <2>6, StillSteps, OneLink
<1>8. CASE /\ clientReset' = [clientReset EXCEPT ![c] = "here"]
           /\ down' = [down EXCEPT ![c] = r]
           /\ UNCHANGED <<serverReset, up>>
  <2>1. /\ clientReset'[c] = "here" /\ down'[c] = r
        /\ \A d \in Connections : d # c => clientReset'[d] = clientReset[d] /\ down'[d] = down[d]
      BY <1>6, <1>8
  <2>2. Elsewhere(c)
      BY <1>1, <1>2, <1>8, <2>1 DEF Elsewhere
  <2>3. UpStill(c)
      BY <1>1, <1>2, <1>8 DEF UpStill, UpBroken
  <2>4. DownBroken(c)'
      BY <2>1 DEF DownBroken
  <2>5. Breaks(down[c].promised, down'[c].promised, <<>>)
      BY <1>5, <2>1, PromisedSequences, NoneTaken
  <2>6. DownStep(c)
      BY <1>2, <2>4, <2>5 DEF DownStep
  <2> QED
      BY <2>2, <2>3, <2>6, StillSteps, OneLink
<1>9. \/ /\ serverReset' = [serverReset EXCEPT ![c] = "here"]
         /\ up' = [up EXCEPT ![c] = s]
         /\ UNCHANGED <<clientReset, down>>
      \/ /\ clientReset' = [clientReset EXCEPT ![c] = "here"]
         /\ down' = [down EXCEPT ![c] = r]
         /\ UNCHANGED <<serverReset, up>>
    BY <1>4 DEF ResetArrives
<1> QED
    BY <1>7, <1>8, <1>9

\* A client sends on the connection it keeps; the server's end may be closed
LEMMA ClientBouncedTo ==
    ASSUME Inv, NEW c \in Connections, NEW ms, clientReset' = ClientBounced(c, ms)
    PROVE  /\ clientReset'[c] = "here" <=> clientReset[c] = "here"
           /\ \A d \in Connections : d # c => clientReset'[d] = clientReset[d]
<1>1. clientReset \in [Connections -> ResetState]
    BY DEF Inv, Types, TypeEnds
<1>2. CASE clientReset' = clientReset
    BY <1>2
<1>3. CASE clientReset' = [clientReset EXCEPT ![c] = "coming"] /\ clientReset[c] = "no"
    BY <1>1, <1>3
<1> QED
    BY <1>2, <1>3 DEF ClientBounced

\* leave.
LEMMA LeaveServerSteps ==
    ASSUME ~Datagrams, Inv, NEW i \in Interfaces, LeaveServer(i)
    PROVE  LinkSteps
<1>1. PICK c : c = socket[i]
    OBVIOUS
<1>2. stage[i] = "joined" /\ socket[i] # Nothing /\ stage[i] # "crashed"
    BY HasSocket DEF LeaveServer
<1>3. c \in Connections /\ serverReset[c] = "no" /\ Good(up[c])
    BY <1>1, <1>2, OwnSocket
<1>4. /\ \/ up' = up /\ clientReset' = clientReset
         \/ up' = UpWith(c, <<Leave>>) /\ clientReset' = ClientBounced(c, <<Leave>>)
      /\ NothingTaken
      /\ clientEnd' = clientEnd /\ serverEnd' = serverEnd /\ down' = down /\ serverReset' = serverReset
    BY <1>1 DEF LeaveServer, ends
<1>5. CASE up' = up /\ clientReset' = clientReset
    BY <1>4, <1>5, AllStill DEF resets
<1>6. CASE up' = UpWith(c, <<Leave>>) /\ clientReset' = ClientBounced(c, <<Leave>>)
  <2>1. /\ clientReset'[c] = "here" <=> clientReset[c] = "here"
        /\ \A d \in Connections : d # c => clientReset'[d] = clientReset[d]
      BY <1>3, <1>6, ClientBouncedTo
  <2>2. \A side, d : TakenBy(side, d)' = <<>>
      BY <1>4, NothingIsTaken
  <2>3. <<Leave>> \in Seq(Messages)
      BY MessageTypes, MessageSequences
  <2>4. UpStep(c) /\ \A d \in Connections : d # c => up'[d] = up[d]
      BY <1>3, <1>4, <1>6, <2>2, <2>3, UpWithStep
  <2>5. DownStill(c)
      BY <1>4, <2>1, <2>2 DEF DownStill, DownBroken
  <2>6. Elsewhere(c)
      BY <1>4, <2>1, <2>2, <2>4 DEF Elsewhere
  <2> QED
      BY <1>3, <2>4, <2>5, <2>6, StillSteps, OneLink
<1> QED
    BY <1>4, <1>5, <1>6

\* flushIncoming.
LEMMA FlushSteps ==
    ASSUME ~Datagrams, Inv, NEW i \in Interfaces, Flush(i)
    PROVE  LinkSteps
<1>1. PICK c : c = socket[i]
    OBVIOUS
<1>2. stage[i] = "joined" /\ socket[i] # Nothing
    BY HasSocket DEF Flush
<1>3. c \in Connections
    BY <1>1, <1>2, HasSocket, OwnSocket
<1>4. CASE Fail(i)
    BY <1>2, <1>4, FailSteps
<1>5. CASE ~Fail(i)
  <2>1. PICK n, t :
           /\ n \in Arrivals(down[c])
           /\ t = OneTaken(Arrived(down[c], n))
           /\ clientReset[c] # "here"
           /\ down' = [down EXCEPT ![c] = t.stream]
           /\ ClientTakes(c, t.messages)
           /\ UNCHANGED <<ends, up, resets>>
      BY <1>1, <1>5 DEF Flush
  <2>2. Good(down[c])
      BY <1>3, <2>1 DEF Inv, StreamsFramed
  <2>3. PICK s, q, ms : s = t.stream /\ q = down[c].promised /\ ms = t.messages
      OBVIOUS
  <2>4. /\ q \in Seq(Messages)
        /\ \/ ms = <<>> /\ s.promised = q
           \/ q # <<>> /\ ms = <<Head(q)>> /\ s.promised = Tail(q)
      BY <2>1, <2>2, <2>3, OneReceived
  <2>5. Takes(q, s.promised, ms)
      BY <2>4, OneTakes
  <2>6. down'[c] = s /\ \A d \in Connections : d # c => down'[d] = down[d]
      BY <1>3, <2>1, <2>3 DEF Inv, Types, TypeStreams
  <2>7. /\ TakenBy("client", c)' = ms
        /\ \A d : TakenBy("server", d)' = <<>> /\ (d # c => TakenBy("client", d)' = <<>>)
    <3>1. ClientTakes(c, ms)
        BY <2>1, <2>3
    <3> QED
        BY <3>1, ClientHasTaken
  <2>8. /\ clientEnd' = clientEnd /\ serverEnd' = serverEnd /\ up' = up
        /\ serverReset' = serverReset /\ clientReset' = clientReset
      BY <2>1 DEF ends, resets
  <2>9. DownStep(c)
    <3>1. DownBroken(c)' <=> DownBroken(c)
        BY <2>8 DEF DownBroken
    <3> QED
        BY <2>3, <2>5, <2>6, <2>7, <3>1 DEF DownStep
  <2>10. UpStill(c)
      BY <2>7, <2>8 DEF UpStill, UpBroken
  <2>11. Elsewhere(c)
      BY <2>6, <2>7, <2>8 DEF Elsewhere
  <2> QED
      BY <1>3, <2>9, <2>10, <2>11, StillSteps, OneLink
<1> QED
    BY <1>4, <1>5

\* The end is closed after some messages were taken.
LEMMA TakenThenLost ==
    ASSUME NEW q, NEW r \in Seq(Messages), NEW t \in Seq(Messages), Takes(q, r, t)
    PROVE  Breaks(q, <<>>, t)
<1>1. q = t \o r
    BY Zenon DEF Takes
<1> QED
    BY <1>1, TheRestLost

\* join receives its answer.
LEMMA AnswerSteps ==
    ASSUME ~Datagrams, Inv, NEW i \in Interfaces, Answer(i)
    PROVE  LinkSteps
<1>1. PICK c : c = socket[i]
    OBVIOUS
<1>2. stage[i] = "waiting" /\ socket[i] # Nothing /\ stage[i] # "crashed"
    BY HasSocket DEF Answer
<1>3. c \in Connections /\ Good(up[c]) /\ serverReset[c] = "no"
    BY <1>1, <1>2, OwnSocket
<1>4. CASE Fail(i)
    BY <1>2, <1>4, FailSteps
<1>5. CASE ~Fail(i)
  <2>1. PICK n, t :
           /\ n \in Arrivals(down[c])
           /\ t = OneTaken(Arrived(down[c], n))
           /\ clientReset[c] # "here"
           /\ \/ /\ t.messages = <<>>
                 /\ down' = [down EXCEPT ![c] = t.stream]
                 /\ NothingTaken
                 /\ UNCHANGED <<ends, up, resets>>
              \/ /\ down' = [down EXCEPT ![c] = t.stream]
                 /\ up' = UpWith(c, <<GetSetting>>)
                 /\ clientReset' = ClientBounced(c, <<GetSetting>>)
                 /\ ClientTakes(c, t.messages)
                 /\ UNCHANGED <<ends, serverReset>>
              \/ /\ Closes(i, <<>>, "idle")
                 /\ ClientTakes(c, t.messages)
      BY <1>1, <1>5 DEF Answer, CloseSocket, Closes
  <2>2. Good(down[c])
      BY <1>3, <2>1 DEF Inv, StreamsFramed
  <2>3. PICK s, q, ms : s = t.stream /\ q = down[c].promised /\ ms = t.messages
      OBVIOUS
  <2>4. /\ q \in Seq(Messages) /\ ms \in Seq(Messages) /\ s \in StreamType
        /\ \/ ms = <<>> /\ s.promised = q
           \/ q # <<>> /\ ms = <<Head(q)>> /\ s.promised = Tail(q)
      BY <2>1, <2>2, <2>3, OneReceived
  <2>5. Takes(q, s.promised, ms)
      BY <2>4, OneTakes
  <2>6. down' = [down EXCEPT ![c] = s] =>
            down'[c] = s /\ \A d \in Connections : d # c => down'[d] = down[d]
      BY <1>3 DEF Inv, Types, TypeStreams
  <2>7. ClientTakes(c, ms) =>
            /\ TakenBy("client", c)' = ms
            /\ \A d : TakenBy("server", d)' = <<>> /\ (d # c => TakenBy("client", d)' = <<>>)
      BY ClientHasTaken
  <2>8. CASE /\ ms = <<>>
             /\ down' = [down EXCEPT ![c] = s]
             /\ NothingTaken
             /\ UNCHANGED <<ends, up, resets>>
    <3>1. \A side, d : TakenBy(side, d)' = <<>>
        BY <2>8, NothingIsTaken
    <3>2. /\ clientEnd' = clientEnd /\ serverEnd' = serverEnd /\ up' = up
          /\ serverReset' = serverReset /\ clientReset' = clientReset
        BY <2>8 DEF ends, resets
    <3>3. s.promised = q
        BY <2>4, <2>8
    <3>4. UpStill(c) /\ DownStill(c)
        BY <2>3, <2>6, <2>8, <3>1, <3>2, <3>3 DEF UpStill, DownStill, UpBroken, DownBroken
    <3>5. Elsewhere(c)
        BY <2>6, <2>8, <3>1, <3>2 DEF Elsewhere
    <3> QED
        BY <1>3, <3>4, <3>5, StillSteps, OneLink
  <2>9. CASE /\ down' = [down EXCEPT ![c] = s]
             /\ up' = UpWith(c, <<GetSetting>>)
             /\ clientReset' = ClientBounced(c, <<GetSetting>>)
             /\ ClientTakes(c, ms)
             /\ UNCHANGED <<ends, serverReset>>
    <3>1. clientEnd' = clientEnd /\ serverEnd' = serverEnd /\ serverReset' = serverReset
        BY <2>9 DEF ends
    <3>2. /\ clientReset'[c] = "here" <=> clientReset[c] = "here"
          /\ \A d \in Connections : d # c => clientReset'[d] = clientReset[d]
        BY <1>3, <2>9, ClientBouncedTo
    <3>3. <<GetSetting>> \in Seq(Messages)
        BY MessageTypes, MessageSequences
    <3>4. UpStep(c) /\ \A d \in Connections : d # c => up'[d] = up[d]
        BY <1>3, <2>7, <2>9, <3>1, <3>3, UpWithStep
    <3>5. DownStep(c)
      <4>1. DownBroken(c)' <=> DownBroken(c)
          BY <3>1, <3>2 DEF DownBroken
      <4> QED
          BY <2>3, <2>5, <2>6, <2>7, <2>9, <4>1 DEF DownStep
    <3>6. Elsewhere(c)
        BY <2>6, <2>7, <2>9, <3>1, <3>2, <3>4 DEF Elsewhere
    <3> QED
        BY <1>3, <3>4, <3>5, <3>6, OneLink
  <2>10. CASE /\ Closes(i, <<>>, "idle")
              /\ ClientTakes(c, ms)
    <3>1. Breaks(q, <<>>, ms)
      <4>1. s.promised \in Seq(Messages)
          BY <2>4, StreamParts
      <4> QED
          BY <2>4, <2>5, <4>1, TakenThenLost
    <3>2. <<>> \in Seq(Messages)
        BY MessageSequences
    <3>3. Breaks(down[c].promised, <<>>, ms)
        BY <2>3, <3>1
    <3> QED
        BY <1>1, <1>2, <2>7, <2>10, <3>2, <3>3, ClosesSteps
  <2> QED
      BY <2>1, <2>3, <2>8, <2>9, <2>10
<1> QED
    BY <1>4, <1>5

-----------------------------------------------------------------------------
(* What fuseki sends and receives *)

\* What all calls of receive take is what was promised next, in order.
LEMMA ManyTakes ==
    ASSUME ~Datagrams, NEW s, Good(s), NEW n \in Arrivals(s), NEW t, t = AllTaken(Arrived(s, n))
    PROVE  /\ Takes(s.promised, t.stream.promised, t.messages)
           /\ t.stream.promised \in Seq(Messages) /\ t.messages \in Seq(Messages)
<1>1. n \in 0 .. Len(s.wire)
    BY DEF Arrivals
<1>2. PICK a : a = Arrived(s, n)
    OBVIOUS
<1>3. Good(a) /\ a.promised = s.promised
    BY <1>1, <1>2, ArrivedGood
<1>4. AllTakenOf(a, t)
    BY <1>2, <1>3, AllTakenGood
<1> QED
    BY <1>3, <1>4, Zenon DEF AllTakenOf, Takes

\* The server closes an end, after it has taken some messages
LEMMA ClosedUpStep ==
    ASSUME NEW c \in Connections, ClosedOne(c), NEW t, TakenBy("server", c)' = t,
           Breaks(up[c].promised, <<>>, t)
    PROVE  UpStep(c)
<1>1. UpBroken(c)' /\ up'[c].promised = <<>>
    BY NoStreamGood DEF ClosedOne, UpBroken
<1> QED
    BY <1>1 DEF UpStep

\* The server keeps an end from which it has taken some messages
LEMMA KeptUpStep ==
    ASSUME NEW c \in Connections, NEW t, TakenBy("server", c)' = t,
           Takes(up[c].promised, up'[c].promised, t),
           serverEnd'[c] = serverEnd[c], serverReset[c] # "here", serverReset'[c] # "here"
    PROVE  UpStep(c)
<1>1. UpBroken(c)' <=> UpBroken(c)
    BY DEF UpBroken
<1> QED
    BY <1>1 DEF UpStep

\* The loop looks at a new connection.
LEMMA CheckNewSteps ==
    ASSUME ~Datagrams, Inv, CheckNew
    PROVE  LinkSteps
<1>1. PICK c : c = newConnections[it].connection
    OBVIOUS
<1>2. it \in DOMAIN newConnections /\ clientEnd' = clientEnd
    BY DEF CheckNew, Serving
<1>3. /\ c \in Connections /\ serverReset[c] = "no" /\ Good(up[c]) /\ Good(down[c])
      /\ clientReset[c] = "no" /\ clientEnd[c] # "none" /\ serverEnd[c] = "open"
    BY <1>1, <1>2, PendingFacts, NoStreamGood
<1>4. PICK n, t, streams :
         /\ n \in Arrivals(up[c])
         /\ t = OneTaken(Arrived(up[c], n))
         /\ streams = [up EXCEPT ![c] = t.stream]
         /\ \/ /\ ServerTakes(c, t.messages)
               /\ AddClient(c, streams)
            \/ /\ t.messages = <<>>
               /\ NothingTaken
               /\ ServerCloses({c}, streams)
               /\ down' = down
            \/ /\ t.messages = <<>>
               /\ NothingTaken
               /\ up' = streams
               /\ UNCHANGED <<serverEnd, resets, down>>
    BY <1>1, <1>3 DEF CheckNew
<1>5. PICK s, q, ms : s = t.stream /\ q = up[c].promised /\ ms = t.messages
    OBVIOUS
<1>6. /\ s \in StreamType /\ ms \in Seq(Messages) /\ q \in Seq(Messages)
      /\ \/ ms = <<>> /\ s.promised = q
         \/ q # <<>> /\ ms = <<Head(q)>> /\ s.promised = Tail(q)
    BY <1>3, <1>4, <1>5, OneReceived
<1>7. Takes(q, s.promised, ms) /\ Breaks(q, <<>>, ms)
  <2>1. Takes(q, s.promised, ms)
      BY <1>6, OneTakes
  <2>2. s.promised \in Seq(Messages)
      BY <1>6, StreamParts
  <2> QED
      BY <1>6, <2>1, <2>2, TakenThenLost
<1>8. /\ streams \in [Connections -> StreamType] /\ streams[c] = s
      /\ \A d \in Connections : d # c => streams[d] = up[d]
    BY <1>3, <1>4, <1>5, <1>6 DEF Inv, Types, TypeStreams
<1>9. TypeStreams /\ Types /\ serverEnd \in [Connections -> End] /\ serverReset \in [Connections -> ResetState]
    BY DEF Inv, Types, TypeEnds
<1>10. ServerTakes(c, ms) =>
          /\ TakenBy("server", c)' = ms
          /\ \A d : TakenBy("client", d)' = <<>> /\ (d # c => TakenBy("server", d)' = <<>>)
    BY ServerHasTaken
<1>11. NothingTaken => \A side, d : TakenBy(side, d)' = <<>>
    BY NothingIsTaken
<1>12. CASE /\ ServerTakes(c, ms)
            /\ AddClient(c, streams)
  <2>1. ~ServerSendFails(c)
      BY <1>3 DEF ServerSendFails
  <2>2. CASE /\ down' = DownWith(c, <<Reject>>)
             /\ ServerCloses({c}, streams)
    <3>1. ClosedOne(c)
        BY <1>3, <1>8, <1>9, <2>2, ServerClosesOne
    <3>2. clientReset'[c] # "here"
        BY <1>3, <3>1 DEF ClosedOne
    <3>3. <<Reject>> \in Seq(Messages)
        BY MessageTypes, MessageSequences
    <3>4. \A d \in Connections : d # c => down'[d] = down[d]
        BY <1>3, <1>9, <2>2, <3>3, DownWithGood
    <3>5. DownStep(c)
        BY <1>2, <1>3, <1>10, <1>12, <2>2, <3>2, <3>3, DownWithStep
    <3>6. UpStep(c)
        BY <1>3, <1>5, <1>7, <1>10, <1>12, <3>1, ClosedUpStep
    <3>7. Elsewhere(c)
        BY <1>2, <1>10, <1>12, <3>1, <3>4 DEF ClosedOne, Elsewhere
    <3> QED
        BY <1>3, <3>5, <3>6, <3>7, OneLink
  <2>3. CASE /\ FreeIds # {}
             /\ down' = DownWith(c, <<Accept(Min(FreeIds))>>)
             /\ serverReset' = ServerBounced(c, <<Accept(Min(FreeIds))>>)
             /\ serverEnd' = [serverEnd EXCEPT ![c] = "open"]
             /\ up' = streams
             /\ clientReset' = clientReset
    <3>1. PICK a : a = <<Accept(Min(FreeIds))>>
        OBVIOUS
    <3>2. a \in Seq(Messages)
      <4>1. FreeIds \subseteq Nat
        <5>1. ClientIds \subseteq Byte
            BY JoiningAssumption
        <5>2. Byte \subseteq Nat
            BY SocketAssumption DEF Byte
        <5>3. FreeIds \subseteq ClientIds
            BY DEF FreeIds
        <5> QED
            BY <5>1, <5>2, <5>3
      <4>2. Min(FreeIds) \in ClientIds
          BY <2>3, <4>1, LeastOf DEF FreeIds
      <4> QED
          BY <3>1, <4>2, MessageTypes, MessageSequences
    <3>3. down' = DownWith(c, a) /\ serverReset' = ServerBounced(c, a)
        BY <2>3, <3>1
    <3>4. /\ serverReset'[c] # "here"
          /\ \A d \in Connections : d # c => serverReset'[d] = serverReset[d]
        BY <1>3, <1>9, <3>3 DEF ServerBounced
    <3>5. /\ serverEnd'[c] = serverEnd[c]
          /\ \A d \in Connections : d # c => serverEnd'[d] = serverEnd[d]
        BY <1>3, <1>9, <2>3
    <3>6. \A d \in Connections : d # c => down'[d] = down[d]
        BY <1>3, <1>9, <3>2, <3>3, DownWithGood
    <3>7. DownStep(c)
        BY <1>2, <1>3, <1>10, <1>12, <2>3, <3>2, <3>3, DownWithStep
    <3>8. Takes(up[c].promised, up'[c].promised, ms)
        BY <1>5, <1>7, <1>8, <2>3
    <3>9. UpStep(c)
        BY <1>3, <1>10, <1>12, <3>4, <3>5, <3>8, KeptUpStep
    <3>10. Elsewhere(c)
        BY <1>2, <1>8, <1>10, <1>12, <2>3, <3>4, <3>5, <3>6 DEF Elsewhere
    <3> QED
        BY <1>3, <3>7, <3>9, <3>10, OneLink
  <2> QED
      BY <1>12, <2>1, <2>2, <2>3 DEF AddClient
<1>13. CASE /\ ms = <<>>
            /\ NothingTaken
            /\ ServerCloses({c}, streams)
            /\ down' = down
  <2>1. ClosedOne(c)
      BY <1>3, <1>8, <1>9, <1>13, ServerClosesOne
  <2>2. DownStill(c)
      BY <1>2, <1>3, <1>11, <1>13, <2>1 DEF ClosedOne, DownStill, DownBroken
  <2>3. UpStep(c)
      BY <1>3, <1>5, <1>7, <1>11, <1>13, <2>1, ClosedUpStep
  <2>4. Elsewhere(c)
      BY <1>2, <1>11, <1>13, <2>1 DEF ClosedOne, Elsewhere
  <2> QED
      BY <1>3, <2>2, <2>3, <2>4, StillSteps, OneLink
<1>14. CASE /\ ms = <<>>
            /\ NothingTaken
            /\ up' = streams
            /\ UNCHANGED <<serverEnd, resets, down>>
  <2>1. serverReset' = serverReset /\ clientReset' = clientReset
      BY <1>14 DEF resets
  <2>2. s.promised = q
      BY <1>6, <1>14
  <2>3. UpStill(c) /\ DownStill(c)
      BY <1>2, <1>5, <1>8, <1>11, <1>14, <2>1, <2>2 DEF UpStill, DownStill, UpBroken, DownBroken
  <2>4. Elsewhere(c)
      BY <1>2, <1>8, <1>11, <1>14, <2>1 DEF Elsewhere
  <2> QED
      BY <1>3, <2>3, <2>4, StillSteps, OneLink
<1> QED
    BY <1>4, <1>5, <1>12, <1>13, <1>14

\* The messages of a client are handled.
LEMMA HandleClientSteps ==
    ASSUME ~Datagrams, Inv, NEW m \in todo, NEW n \in Arrivals(up[clients[m]]), HandleClient(m, n)
    PROVE  LinkSteps
<1>1. PICK c, t, streams, answers :
         /\ c = clients[m]
         /\ t = AllTaken(Arrived(up[c], n))
         /\ streams = [up EXCEPT ![c] = t.stream]
         /\ answers = AnswersTo(t.messages)
    OBVIOUS
<1>2. /\ clientEnd' = clientEnd
      /\ \/ /\ ReceiveFails(c)
            /\ OnSocketExn(m, up)
            /\ NothingTaken
         \/ /\ ~ReceiveFails(c)
            /\ ServerSendFails(c)
         \/ /\ ~ReceiveFails(c)
            /\ down' = DownWith(c, answers)
            /\ ServerTakes(c, t.messages)
            /\ \/ ServerCloses({c}, streams)
               \/ /\ up' = streams
                  /\ serverReset' = ServerBounced(c, answers)
                  /\ UNCHANGED <<clientReset, serverEnd>>
    BY <1>1 DEF HandleClient, AnswersTo, RemoveClient
<1>3. m \in DOMAIN clients
    BY DEF Inv, LoopOK
<1>4. /\ c \in Connections /\ serverEnd[c] = "open" /\ clientEnd[c] # "none" /\ clientReset[c] = "no"
      /\ Good(down[c])
    BY <1>1, <1>3, ClientFacts
<1>5. /\ TypeStreams /\ Types /\ serverReset \in [Connections -> ResetState]
      /\ up \in [Connections -> StreamType]
    BY DEF Inv, Types, TypeEnds, TypeStreams
<1>6. CASE /\ ReceiveFails(c)
           /\ OnSocketExn(m, up)
           /\ NothingTaken
  <2>1. ServerCloses({c}, up) /\ down' = down
      BY <1>1, <1>6 DEF OnSocketExn, RemoveClient
  <2>2. ClosedOne(c)
      BY <1>4, <1>5, <2>1, ServerClosesOne
  <2>3. \A side, d : TakenBy(side, d)' = <<>>
      BY <1>6, NothingIsTaken
  <2>4. Breaks(up[c].promised, <<>>, <<>>)
      BY <1>4, PromisedSequences, NothingBreaks
  <2>5. UpStep(c)
      BY <1>4, <2>2, <2>3, <2>4, ClosedUpStep
  <2>6. DownStill(c)
      BY <1>2, <1>4, <2>1, <2>2, <2>3 DEF ClosedOne, DownStill, DownBroken
  <2>7. Elsewhere(c)
      BY <1>2, <2>1, <2>2, <2>3 DEF ClosedOne, Elsewhere
  <2> QED
      BY <1>4, <2>5, <2>6, <2>7, StillSteps, OneLink
<1>7. CASE ~ReceiveFails(c) /\ ServerSendFails(c)
    BY <1>7 DEF ReceiveFails, ServerSendFails
<1>8. CASE /\ ~ReceiveFails(c)
           /\ down' = DownWith(c, answers)
           /\ ServerTakes(c, t.messages)
           /\ \/ ServerCloses({c}, streams)
              \/ /\ up' = streams
                 /\ serverReset' = ServerBounced(c, answers)
                 /\ UNCHANGED <<clientReset, serverEnd>>
  <2>1. serverReset[c] # "here"
      BY <1>8 DEF ReceiveFails
  <2>2. Good(up[c])
      BY <1>4, <2>1 DEF Inv, StreamsFramed
  <2>3. PICK s, ms : s = t.stream /\ ms = t.messages
      OBVIOUS
  <2>4. /\ Takes(up[c].promised, s.promised, ms) /\ s.promised \in Seq(Messages)
        /\ ms \in Seq(Messages) /\ s \in StreamType
      BY <1>1, <2>2, <2>3, ManyTakes, ManyReceived
  <2>5. /\ streams \in [Connections -> StreamType] /\ streams[c] = s
        /\ \A d \in Connections : d # c => streams[d] = up[d]
      BY <1>1, <1>4, <1>5, <2>3, <2>4
  <2>6. answers \in Seq(Messages)
      BY <1>1, <2>3, <2>4, AnswersMade
  <2>7. /\ TakenBy("server", c)' = ms
        /\ \A d : TakenBy("client", d)' = <<>> /\ (d # c => TakenBy("server", d)' = <<>>)
    <3>1. ServerTakes(c, ms)
        BY <1>8, <2>3
    <3> QED
        BY <3>1, ServerHasTaken
  <2>8. \A d \in Connections : d # c => down'[d] = down[d]
      BY <1>4, <1>5, <1>8, <2>6, DownWithGood
  <2>9. clientReset'[c] # "here" => DownStep(c)
      BY <1>2, <1>4, <1>8, <2>6, <2>7, DownWithStep
  <2>10. CASE ServerCloses({c}, streams)
    <3>1. ClosedOne(c)
        BY <1>4, <1>5, <2>5, <2>10, ServerClosesOne
    <3>2. Breaks(up[c].promised, <<>>, ms)
        BY <2>4, TakenThenLost
    <3>3. UpStep(c)
        BY <1>4, <2>7, <3>1, <3>2, ClosedUpStep
    <3>4. DownStep(c)
        BY <1>4, <2>9, <3>1 DEF ClosedOne
    <3>5. Elsewhere(c)
        BY <1>2, <2>7, <2>8, <3>1 DEF ClosedOne, Elsewhere
    <3> QED
        BY <1>4, <3>3, <3>4, <3>5, OneLink
  <2>11. CASE /\ up' = streams
              /\ serverReset' = ServerBounced(c, answers)
              /\ UNCHANGED <<clientReset, serverEnd>>
    <3>1. /\ serverReset'[c] # "here"
          /\ \A d \in Connections : d # c => serverReset'[d] = serverReset[d]
        BY <1>4, <1>5, <2>1, <2>11 DEF ServerBounced
    <3>2. Takes(up[c].promised, up'[c].promised, ms)
        BY <2>4, <2>5, <2>11
    <3>3. UpStep(c)
        BY <1>4, <2>1, <2>7, <2>11, <3>1, <3>2, KeptUpStep
    <3>4. DownStep(c)
        BY <1>4, <2>9, <2>11
    <3>5. Elsewhere(c)
        BY <1>2, <2>5, <2>7, <2>8, <2>11, <3>1 DEF Elsewhere
    <3> QED
        BY <1>4, <3>3, <3>4, <3>5, OneLink
  <2> QED
      BY <1>8, <2>10, <2>11
<1> QED
    BY <1>2, <1>6, <1>7, <1>8

\* The server is interrupted.
LEMMA ShutdownSteps ==
    ASSUME ~Datagrams, Inv, Shutdown
    PROVE  LinkSteps
<1>1. /\ down' = [c \in Connections |->
            IF c \in Range(clients) /\ ~ServerSendFails(c) THEN DownWith(c, <<Kick>>)[c] ELSE down[c]]
      /\ ServerCloses({c \in Connections : clientEnd[c] # "none"}, up)
      /\ NothingTaken /\ clientEnd' = clientEnd
    BY DEF Shutdown
<1>2. PICK cs : cs = {c \in Connections : clientEnd[c] # "none"}
    OBVIOUS
<1>3. /\ serverEnd' = With(serverEnd, cs, "closed") /\ up' = With(up, cs, NoStream)
      /\ serverReset' = With(serverReset, cs, "no")
      /\ clientReset' = [d \in Connections |->
             IF d \in cs /\ Unread(up[d]) /\ clientEnd[d] = "open" /\ clientReset[d] = "no"
             THEN "coming" ELSE clientReset[d]]
    BY <1>1, <1>2 DEF ServerCloses
<1>4. /\ serverEnd \in [Connections -> End] /\ serverReset \in [Connections -> ResetState]
      /\ up \in [Connections -> StreamType]
    BY DEF Inv, Types, TypeEnds, TypeStreams
<1>5. \A side, d : TakenBy(side, d)' = <<>>
    BY <1>1, NothingIsTaken
<1> SUFFICES ASSUME NEW c \in Connections PROVE UpStep(c) /\ DownStep(c)
    BY DEF LinkSteps
<1>6. clientReset'[c] = "here" <=> clientReset[c] = "here"
    BY <1>3
<1>7. UpStep(c)
  <2>1. CASE c \in cs
    <3>1. serverEnd'[c] = "closed" /\ up'[c] = NoStream
        BY <1>3, <1>4, <2>1 DEF With
    <3>2. UpBroken(c)' /\ up'[c].promised = <<>>
        BY <3>1, NoStreamGood DEF UpBroken
    <3>3. Breaks(up[c].promised, <<>>, <<>>)
        BY PromisedSequences, NothingBreaks
    <3> QED
        BY <1>5, <3>2, <3>3 DEF UpStep
  <2>2. CASE c \notin cs
    <3>1. serverEnd'[c] = serverEnd[c] /\ serverReset'[c] = serverReset[c] /\ up'[c] = up[c]
        BY <1>3, <1>4, <2>2 DEF With
    <3>2. UpStill(c)
        BY <1>5, <3>1 DEF UpStill, UpBroken
    <3> QED
        BY <3>2, StillSteps
  <2> QED
      BY <2>1, <2>2
<1>8. DownStep(c)
  <2>1. CASE c \in Range(clients) /\ ~ServerSendFails(c)
    <3>1. IsClient(c)
        BY <2>1 DEF IsClient, Range
    <3>2. Good(down[c]) /\ clientReset[c] # "here"
        BY <3>1 DEF Inv, EndsAgree, EndAgrees, StreamsFramed
    <3>3. <<Kick>> \in Seq(Messages)
        BY MessageTypes, MessageSequences
    <3>4. down'[c] = DownWith(c, <<Kick>>)[c]
        BY <1>1, <2>1
    <3> QED
        BY <1>1, <1>5, <1>6, <3>2, <3>3, <3>4, DownWithStep
  <2>2. CASE ~(c \in Range(clients) /\ ~ServerSendFails(c))
    <3>1. down'[c] = down[c]
        BY <1>1, <2>2
    <3>2. DownStill(c)
        BY <1>1, <1>5, <1>6, <3>1 DEF DownStill, DownBroken
    <3> QED
        BY <3>2, StillSteps
  <2> QED
      BY <2>1, <2>2
<1> QED
    BY <1>7, <1>8

\* Every step is a step of every link.
LEMMA NextSteps ==
    ASSUME ~Datagrams, Inv, Next
    PROVE  LinkSteps
<1>1. CASE Common
  <2>1. ASSUME NEW i \in Interfaces, StartJoin(i) PROVE LinkSteps
      BY <2>1, StartJoinSteps
  <2>2. ASSUME NEW i \in Interfaces, Answer(i) PROVE LinkSteps
      BY <2>2, AnswerSteps
  <2>3. ASSUME NEW i \in Interfaces, TimeOut(i) PROVE LinkSteps
      BY <2>3, TimeOutSteps
  <2>4. ASSUME NEW i \in Interfaces, Flush(i) PROVE LinkSteps
      BY <2>4, FlushSteps
  <2>5. ASSUME NEW i \in Interfaces, LeaveServer(i) PROVE LinkSteps
      BY <2>5, LeaveServerSteps
  <2>6. ASSUME NEW i \in Interfaces, Reconnect(i) PROVE LinkSteps
      BY <2>6, ReconnectSteps
  <2>7. ASSUME NEW i \in Interfaces, Crash(i) PROVE LinkSteps
      BY <2>7, CrashSteps
  <2>8. ASSUME HandleSomeClient PROVE LinkSteps
      BY <2>8, HandleClientSteps DEF HandleSomeClient
  <2> QED
      BY <1>1, <2>1, <2>2, <2>3, <2>4, <2>5, <2>6, <2>7, <2>8, CheckNewSteps, QuietSteps,
         ShutdownSteps DEF Common
<1>2. ASSUME NEW i \in Interfaces, CrashConnecting(i) PROVE LinkSteps
    BY <1>2, CrashConnectingSteps
<1>3. ASSUME NEW c \in Connections, ResetArrives(c) PROVE LinkSteps
    BY <1>3, ResetArrivesSteps
<1> QED
    BY <1>1, <1>2, <1>3, AcceptAllSteps, QuietSteps DEF Next

\* Each direction of a connection hands over the messages that were sent, whole, once and
\* in order, up to where it breaks: receive and send of tcpsocket.cpp, under everything
\* that the two loops do with them.
THEOREM SocketsAreChannels ==
    ASSUME ~Datagrams
    PROVE  Spec => ImplementsChannels
<1>1. Init => Channel!Init
    BY InitMapped
<1>2. Inv /\ [Next]_vars => [Channel!Next]_Channel!vars
  <2>1. ASSUME Inv, Next PROVE Channel!Next
      BY <2>1, NextSteps, StepsMapped
  <2>2. ASSUME UNCHANGED vars PROVE UNCHANGED Channel!vars
      BY <2>2, StutterMapped
  <2> QED
      BY <2>1, <2>2
<1>3. Spec => [](Inv /\ TypeTaken)
    BY SpecInv
<1> QED
    BY <1>1, <1>2, <1>3, PTL DEF Spec, ImplementsChannels, Channel!Spec
=============================================================================
