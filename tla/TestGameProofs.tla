--------------------------- MODULE TestGameProofs ---------------------------
(***************************************************************************)
(* Theorems about TestGame.  The inductive invariant IInv ties the layers  *)
(* of the units to the map of fuses, and the map to the queue.  What makes *)
(* it inductive is the order of the queue: fuses come to the top in the    *)
(* order in which their tokens were given out, and the tokens in use are   *)
(* the latest ones without a gap, so that the next token is free whatever  *)
(* was removed and however often the tokens wrapped around.  Turns says    *)
(* where the loop over the units is, Health what a construction may have   *)
(* in hit points.  That the queue and the removed fuses make the book of   *)
(* FuseBook rests on the same order: only one sequence lists a set of      *)
(* entries by age.                                                         *)
(***************************************************************************)
EXTENDS TestGame, SequenceTheorems, FiniteSetTheorems, WellFoundedInduction, TLAPS

-----------------------------------------------------------------------------
(* Numbers and sequences *)

\* Induction on a set of numbers: the one that starts at 0 and goes on to n.
LEMMA CountUp ==
    ASSUME NEW n \in Nat, NEW S, 0 \in S, \A i \in 0 .. n - 1 : i \in S => i + 1 \in S
    PROVE  \A i \in 0 .. n : i \in S
<1> DEFINE Missed == (0 .. n) \ S
           Less == {ss \in Nat \X Nat : ss[1] < ss[2]}
<1> SUFFICES ASSUME Missed # {} PROVE FALSE
    OBVIOUS
<1>1. IsWellFoundedOn(Less, Nat)
    BY NatLessThanWellFounded DEF OpToRel
<1>2. Missed \subseteq Nat
    OBVIOUS
<1> HIDE DEF Less
<1>3. PICK i \in Missed : \A h \in Missed : ~(<<h, i>> \in Less)
    BY <1>1, <1>2, WFMin
<1>4. i # 0 /\ i - 1 \in 0 .. n - 1
    OBVIOUS
<1>5. i - 1 \notin Missed
  <2>1. \A h, m \in Nat : h < m => <<h, m>> \in Less
      BY DEF Less
  <2>2. i \in Nat /\ i - 1 \in Nat /\ i - 1 < i
      BY <1>4
  <2>3. <<i - 1, i>> \in Less
      BY <2>1, <2>2
  <2> QED
      BY <1>3, <2>3
<1> QED
    BY <1>4, <1>5

\* A set of numbers has a least one, and a greatest if it is bounded.
LEMMA LeastOf ==
    ASSUME NEW S, S \subseteq Nat, S # {}
    PROVE  Min(S) \in S /\ \A x \in S : Min(S) <= x
<1> DEFINE Less == {ss \in Nat \X Nat : ss[1] < ss[2]}
<1>1. IsWellFoundedOn(Less, Nat)
    BY NatLessThanWellFounded DEF OpToRel
<1>2. \A i, m \in Nat : i < m => <<i, m>> \in Less
    OBVIOUS
<1> HIDE DEF Less
<1>3. PICK i \in S : \A m \in S : ~(<<m, i>> \in Less)
    BY <1>1, WFMin
<1>4. ASSUME NEW m \in S PROVE i <= m
  <2>1. i \in Nat /\ m \in Nat
      OBVIOUS
  <2>2. ~(m < i)
      BY <1>2, <1>3, <2>1
  <2> QED
      BY <2>1, <2>2
<1> QED
    BY <1>4 DEF Min

\* A bounded set of numbers has a greatest one.
LEMMA GreatestOf ==
    ASSUME NEW n \in Nat, NEW S, S \subseteq 0 .. n, S # {}
    PROVE  Max(S) \in S /\ \A x \in S : Max(S) >= x
<1> DEFINE T == {n - x : x \in S}
<1>1. T \subseteq Nat /\ T # {}
  <2>1. \A x \in S : n - x \in Nat /\ n - x \in T
      OBVIOUS
  <2>2. T \subseteq Nat
      BY <2>1
  <2>3. PICK x \in S : TRUE
      OBVIOUS
  <2> QED
      BY <2>1, <2>2, <2>3
<1> HIDE DEF T
<1>2. Min(T) \in T /\ \A x \in T : Min(T) <= x
    BY <1>1, LeastOf
<1> USE DEF T
<1>3. PICK y \in S : Min(T) = n - y
    BY <1>2
<1>4. \A x \in S : n - x \in T
    OBVIOUS
<1> HIDE DEF T
<1>5. \A x \in S : n - y <= n - x
    BY <1>2, <1>3, <1>4
<1>6. \A x \in S : y >= x
    BY <1>5
<1> QED
    BY <1>6 DEF Max

-----------------------------------------------------------------------------
(* What is left of a sequence *)

\* h says where, in the first c of a sequence, the elements of w come from
Picks(w, h, seq, set, c) ==
    /\ h \in [1 .. Len(w) -> 1 .. c]
    /\ \A m, n \in 1 .. Len(w) : m < n => h[m] < h[n]
    /\ \A n \in 1 .. Len(w) : w[n] = seq[h[n]] /\ seq[h[n]] \notin set
    /\ \A i \in 1 .. c : seq[i] \notin set => \E n \in 1 .. Len(w) : h[n] = i

\* How the sequence without the set is come by, for the first c elements
KeepsTo(r, seq, set, c) ==
    r = [i \in 0 .. c |-> IF i = 0 THEN <<>>
                          ELSE IF seq[i] \in set THEN r[i - 1] ELSE Append(r[i - 1], seq[i])]

\* Such a table of what is kept goes on by one element ...
LEMMA KeepOneMore ==
    ASSUME NEW seq, NEW set, NEW c \in Nat, NEW r, KeepsTo(r, seq, set, c)
    PROVE  \E q : KeepsTo(q, seq, set, c + 1)
<1> DEFINE last == IF seq[c + 1] \in set THEN r[c] ELSE Append(r[c], seq[c + 1])
           q == [i \in 0 .. c + 1 |-> IF i = c + 1 THEN last ELSE r[i]]
<1>1. \A i \in 0 .. c : q[i] = r[i]
    OBVIOUS
<1>2. q[c + 1] = last
    OBVIOUS
<1>3. ASSUME NEW i \in 0 .. c + 1
      PROVE  q[i] = IF i = 0 THEN <<>>
                    ELSE IF seq[i] \in set THEN q[i - 1] ELSE Append(q[i - 1], seq[i])
  <2>1. CASE i = c + 1
    <3>1. i # 0 /\ i - 1 \in 0 .. c /\ i - 1 = c
        BY <2>1
    <3>2. q[i - 1] = r[c]
        BY <1>1, <3>1
    <3> HIDE DEF q
    <3> QED
        BY <1>2, <2>1, <3>1, <3>2
  <2>2. CASE i # c + 1
    <3>1. i \in 0 .. c
        BY <2>2
    <3>2. r[i] = IF i = 0 THEN <<>>
                 ELSE IF seq[i] \in set THEN r[i - 1] ELSE Append(r[i - 1], seq[i])
        BY <3>1 DEF KeepsTo
    <3>3. i # 0 => q[i - 1] = r[i - 1]
        BY <1>1, <3>1
    <3>4. q[i] = r[i]
        BY <1>1, <3>1
    <3> HIDE DEF q
    <3> QED
        BY <3>2, <3>3, <3>4
  <2> QED
      BY <2>1, <2>2
<1>4. KeepsTo(q, seq, set, c + 1)
    BY <1>3 DEF KeepsTo
<1> QED
    BY <1>4

\* ... and so there is one for a sequence of any length.
LEMMA KeepExists ==
    ASSUME NEW seq, NEW set, NEW n \in Nat
    PROVE  \E r : KeepsTo(r, seq, set, n)
<1> DEFINE S == {c \in 0 .. n : \E r : KeepsTo(r, seq, set, c)}
<1>1. 0 \in S
  <2> DEFINE r == [i \in {0} |-> <<>>]
  <2>1. KeepsTo(r, seq, set, 0)
      BY DEF KeepsTo
  <2> QED
      BY <2>1
<1>2. \A c \in 0 .. n - 1 : c \in S => c + 1 \in S
    BY KeepOneMore
<1> HIDE DEF S
<1>3. \A c \in 0 .. n : c \in S
    BY <1>1, <1>2, CountUp
<1> QED
    BY <1>3 DEF S

\* What is kept of a sequence is that of it which is not in the set, in order.
LEMMA KeepPicks ==
    ASSUME NEW T, NEW w \in Seq(T), NEW h, NEW seq, NEW set, NEW c \in Nat, seq[c + 1] \in T,
           Picks(w, h, seq, set, c)
    PROVE  IF seq[c + 1] \in set THEN Picks(w, h, seq, set, c + 1)
           ELSE \E g : Picks(Append(w, seq[c + 1]), g, seq, set, c + 1)
<1>1. Len(w) \in Nat
    BY LenProperties
<1>2. CASE seq[c + 1] \in set
  <2>1. h \in [1 .. Len(w) -> 1 .. c + 1]
      BY DEF Picks
  <2>2. \A i \in 1 .. c + 1 : seq[i] \notin set => i \in 1 .. c
      BY <1>2
  <2>3. Picks(w, h, seq, set, c + 1)
      BY <2>1, <2>2 DEF Picks
  <2> QED
      BY <1>2, <2>3
<1>3. CASE seq[c + 1] \notin set
  <2> DEFINE l == Len(w)
             v == Append(w, seq[c + 1])
             g == [n \in 1 .. l + 1 |-> IF n = l + 1 THEN c + 1 ELSE h[n]]
  <2>1. Len(v) = l + 1 /\ v[l + 1] = seq[c + 1] /\ \A n \in 1 .. l : v[n] = w[n]
      BY AppendProperties
  <2>2. g[l + 1] = c + 1 /\ \A n \in 1 .. l : g[n] = h[n]
      BY <1>1
  <2>3. \A n \in 1 .. l : h[n] \in 1 .. c
      BY DEF Picks
  <2>4. g \in [1 .. l + 1 -> 1 .. c + 1]
      BY <1>1, <2>3
  <2> HIDE DEF v, g
  <2>5. ASSUME NEW m \in 1 .. l + 1, NEW n \in 1 .. l + 1, m < n
        PROVE  g[m] < g[n]
    <3>1. m \in 1 .. l
        BY <1>1, <2>5
    <3>2. CASE n = l + 1
        BY <2>2, <2>3, <3>1, <3>2
    <3>3. CASE n # l + 1
      <4>1. n \in 1 .. l
          BY <1>1, <3>3
      <4> QED
          BY <2>2, <2>5, <3>1, <4>1 DEF Picks
    <3> QED
        BY <3>2, <3>3
  <2>6. ASSUME NEW n \in 1 .. l + 1
        PROVE  v[n] = seq[g[n]] /\ seq[g[n]] \notin set
    <3>1. CASE n = l + 1
        BY <1>3, <2>1, <2>2, <3>1
    <3>2. CASE n # l + 1
      <4>1. n \in 1 .. l
          BY <1>1, <3>2
      <4> QED
          BY <2>1, <2>2, <4>1 DEF Picks
    <3> QED
        BY <3>1, <3>2
  <2>7. ASSUME NEW i \in 1 .. c + 1, seq[i] \notin set
        PROVE  \E n \in 1 .. l + 1 : g[n] = i
    <3>1. CASE i = c + 1
      <4>1. l + 1 \in 1 .. l + 1
          BY <1>1
      <4> QED
          BY <2>2, <3>1, <4>1
    <3>2. CASE i # c + 1
      <4>1. i \in 1 .. c
          BY <3>2
      <4>2. PICK n \in 1 .. l : h[n] = i
          BY <2>7, <4>1 DEF Picks
      <4> QED
          BY <1>1, <2>2, <4>2
    <3> QED
        BY <3>1, <3>2
  <2>8. Picks(v, g, seq, set, c + 1)
      BY <2>1, <2>4, <2>5, <2>6, <2>7 DEF Picks
  <2> QED
      BY <1>3, <2>8 DEF v
<1> QED
    BY <1>2, <1>3

\* Without keeps what KeepPicks says, for a whole sequence.
LEMMA WithoutPicks ==
    ASSUME NEW T, NEW seq \in Seq(T), NEW set
    PROVE  /\ Without(seq, set) \in Seq(T)
           /\ \E h : Picks(Without(seq, set), h, seq, set, Len(seq))
<1> DEFINE n == Len(seq)
           r == CHOOSE f : f = [i \in 0 .. n |-> IF i = 0 THEN <<>>
                    ELSE IF seq[i] \in set THEN f[i - 1] ELSE Append(f[i - 1], seq[i])]
           S == {c \in 0 .. n : r[c] \in Seq(T) /\ \E h : Picks(r[c], h, seq, set, c)}
<1>1. n \in Nat
    BY LenProperties
<1>2. KeepsTo(r, seq, set, n)
  <2>1. \E q : KeepsTo(q, seq, set, n)
      BY <1>1, KeepExists
  <2> QED
      BY <2>1 DEF KeepsTo
<1>3. Without(seq, set) = r[n]
    BY DEF Without
<1> HIDE DEF r
<1>4. 0 \in S
  <2>1. r[0] = <<>>
      BY <1>1, <1>2 DEF KeepsTo
  <2> DEFINE h == [i \in {} |-> 0]
  <2>2. Len(<<>>) = 0 /\ 1 .. 0 = {} /\ <<>> \in Seq(T)
      BY EmptySeq
  <2>3. Picks(<<>>, h, seq, set, 0)
      BY <2>2 DEF Picks
  <2>4. r[0] \in Seq(T) /\ \E g : Picks(r[0], g, seq, set, 0)
      BY <2>1, <2>2, <2>3
  <2> HIDE DEF h
  <2> QED
      BY <1>1, <2>4
<1>5. ASSUME NEW c \in 0 .. n - 1, c \in S
      PROVE  c + 1 \in S
  <2>1. c \in Nat /\ c + 1 \in 0 .. n /\ c + 1 # 0 /\ (c + 1) - 1 = c /\ c + 1 \in 1 .. Len(seq)
      BY <1>1
  <2>2. seq[c + 1] \in T
      BY <2>1, ElementOfSeq
  <2>3. r[c + 1] = IF seq[c + 1] \in set THEN r[c] ELSE Append(r[c], seq[c + 1])
      BY <1>2, <2>1 DEF KeepsTo
  <2>4. PICK h : r[c] \in Seq(T) /\ Picks(r[c], h, seq, set, c)
      BY <1>5
  <2>5. IF seq[c + 1] \in set THEN Picks(r[c], h, seq, set, c + 1)
        ELSE \E g : Picks(Append(r[c], seq[c + 1]), g, seq, set, c + 1)
      BY <2>1, <2>2, <2>4, KeepPicks
  <2>6. Append(r[c], seq[c + 1]) \in Seq(T)
      BY <2>2, <2>4, AppendProperties
  <2> QED
      BY <2>1, <2>3, <2>4, <2>5, <2>6
<1> HIDE DEF S
<1>6. \A c \in 0 .. n : c \in S
    BY <1>1, <1>4, <1>5, CountUp
<1>7. n \in S
    BY <1>1, <1>6
<1> QED
    BY <1>3, <1>7 DEF S

\* The elements that are left, once each if they were there once.
LEMMA WithoutElements ==
    ASSUME NEW T, NEW seq \in Seq(T), NEW set
    PROVE  /\ Without(seq, set) \in Seq(T \ set)
           /\ Range(Without(seq, set)) = Range(seq) \ set
           /\ IsInjective(seq) => IsInjective(Without(seq, set))
<1> DEFINE w == Without(seq, set)
<1>1. PICK h : w \in Seq(T) /\ Picks(w, h, seq, set, Len(seq))
    BY WithoutPicks
<1> HIDE DEF w
<1>2. /\ Len(seq) \in Nat /\ DOMAIN seq = 1 .. Len(seq)
      /\ Len(w) \in Nat /\ DOMAIN w = 1 .. Len(w) /\ w = [n \in 1 .. Len(w) |-> w[n]]
    BY <1>1, LenProperties
<1>3. \A n \in 1 .. Len(w) : h[n] \in 1 .. Len(seq) /\ w[n] = seq[h[n]] /\ w[n] \notin set
    BY <1>1 DEF Picks
<1>4. \A n \in 1 .. Len(w) : w[n] \in T
    BY <1>1, <1>2, ElementOfSeq
<1>5. w \in Seq(T \ set)
    BY <1>2, <1>3, <1>4, IsASeq
<1>6. Range(w) = Range(seq) \ set
  <2>1. \A x \in Range(w) : x \in Range(seq) \ set
      BY <1>2, <1>3 DEF Range
  <2>2. ASSUME NEW x \in Range(seq) \ set PROVE x \in Range(w)
    <3>1. PICK i \in 1 .. Len(seq) : seq[i] = x
        BY <1>2 DEF Range
    <3>2. PICK n \in 1 .. Len(w) : h[n] = i
        BY <1>1, <2>2, <3>1 DEF Picks
    <3> QED
        BY <1>2, <1>3, <3>1, <3>2 DEF Range
  <2> QED
      BY <2>1, <2>2
<1>7. ASSUME IsInjective(seq), NEW m \in DOMAIN w, NEW n \in DOMAIN w, w[m] = w[n]
      PROVE  m = n
  <2>1. h[m] = h[n]
      BY <1>2, <1>3, <1>7 DEF IsInjective
  <2>2. ~(m < n) /\ ~(n < m)
      BY <1>1, <1>2, <1>3, <2>1 DEF Picks
  <2> QED
      BY <1>2, <2>2
<1>8. IsInjective(seq) => IsInjective(w)
    BY <1>7 DEF IsInjective
<1> QED
    BY <1>5, <1>6, <1>8 DEF w

\* A sequence without the element at some place.
LEMMA RemovedAt ==
    ASSUME NEW T, NEW seq \in Seq(T), NEW i \in 1 .. Len(seq)
    PROVE  /\ RemoveAt(seq, i) \in Seq(T) /\ Len(RemoveAt(seq, i)) = Len(seq) - 1
           /\ \A n \in 1 .. Len(seq) - 1 :
                RemoveAt(seq, i)[n] = IF n < i THEN seq[n] ELSE seq[n + 1]
<1> DEFINE l == Len(seq)
           front == SubSeq(seq, 1, i - 1)
           back == SubSeq(seq, i + 1, l)
<1>1. l \in Nat /\ \A n \in 1 .. l : seq[n] \in T
    BY LenProperties, ElementOfSeq
<1>2. /\ front \in Seq(T) /\ Len(front) = i - 1
      /\ \A n \in 1 .. i - 1 : front[n] = seq[n]
    BY <1>1, SubSeqProperties
<1>3. /\ back \in Seq(T) /\ Len(back) = l - i
      /\ \A n \in 1 .. l - i : back[n] = seq[i + n]
  <2>1. \A n \in i + 1 .. l : seq[n] \in T
      BY <1>1
  <2>2. /\ SubSeq(seq, i + 1, l) \in Seq(T)
        /\ Len(SubSeq(seq, i + 1, l)) = IF i + 1 <= l THEN l - (i + 1) + 1 ELSE 0
        /\ \A n \in 1 .. l - (i + 1) + 1 : SubSeq(seq, i + 1, l)[n] = seq[(i + 1) + n - 1]
      BY <1>1, <2>1, SubSeqProperties
  <2>3. l - (i + 1) + 1 = l - i /\ \A n \in Int : (i + 1) + n - 1 = i + n
      BY <1>1
  <2>4. i <= l
      BY <1>1
  <2> HIDE DEF l
  <2> QED
      BY <1>1, <2>2, <2>3, <2>4
<1> HIDE DEF front, back
<1>4. /\ front \o back \in Seq(T) /\ Len(front \o back) = l - 1
      /\ \A n \in 1 .. l - 1 :
           (front \o back)[n] = IF n <= i - 1 THEN front[n] ELSE back[n - (i - 1)]
  <2>1. (i - 1) + (l - i) = l - 1
      BY <1>1
  <2> HIDE DEF l
  <2> QED
      BY <1>1, <1>2, <1>3, <2>1, ConcatProperties
<1>5. ASSUME NEW n \in 1 .. l - 1
      PROVE  (front \o back)[n] = IF n < i THEN seq[n] ELSE seq[n + 1]
  <2>1. CASE n < i
      BY <1>1, <1>2, <1>4, <2>1
  <2>2. CASE n >= i
    <3>1. ~(n <= i - 1) /\ n - (i - 1) \in 1 .. l - i /\ i + (n - (i - 1)) = n + 1
        BY <1>1, <2>2
    <3>2. back[n - (i - 1)] = seq[i + (n - (i - 1))]
        BY <1>3, <3>1
    <3>3. (front \o back)[n] = back[n - (i - 1)]
        BY <1>4, <3>1
    <3>4. ~(n < i)
        BY <1>1, <2>2
    <3> HIDE DEF l
    <3> QED
        BY <3>1, <3>2, <3>3, <3>4
  <2>3. n < i \/ n >= i
      BY <1>1
  <2> QED
      BY <2>1, <2>2, <2>3
<1>6. RemoveAt(seq, i) = front \o back
    BY DEF RemoveAt, front, back
<1> QED
    BY <1>4, <1>5, <1>6

\* The token after a token.
LEMMA TokenAfter ==
    ASSUME lastFuseToken \in Tokens
    PROVE  /\ NextToken \in Tokens
           /\ NextToken = IF lastFuseToken = TokenModulus - 1 THEN 0 ELSE lastFuseToken + 1
<1>1. TokenModulus \in Nat \ {0} /\ lastFuseToken \in 0 .. TokenModulus - 1
    BY WorldAssumption DEF Tokens
<1>2. CASE lastFuseToken = TokenModulus - 1
  <2>1. lastFuseToken + 1 = TokenModulus
      BY <1>1, <1>2
  <2>2. TokenModulus % TokenModulus = 0
      BY <1>1
  <2> QED
      BY <1>1, <1>2, <2>1, <2>2 DEF NextToken, Tokens
<1>3. CASE lastFuseToken # TokenModulus - 1
  <2>1. lastFuseToken + 1 \in 0 .. TokenModulus - 1
      BY <1>1, <1>3
  <2>2. (lastFuseToken + 1) % TokenModulus = lastFuseToken + 1
      BY <1>1, <2>1
  <2> QED
      BY <1>1, <1>3, <2>1, <2>2 DEF NextToken, Tokens
<1> QED
    BY <1>2, <1>3

-----------------------------------------------------------------------------
(* Damage *)

\* The kinds that are left one after the other are of ever lower rank
Descends(rank) ==
    /\ rank \in [Kinds -> Nat]
    /\ \A kind \in Kinds : Corpse[kind] \in Kinds => rank[Corpse[kind]] < rank[kind]

\* What damage leaves of a unit
Remains(d, kind, hp, rank) ==
    \/ d[1] = NoKind
    \/ /\ d[1] \in Kinds /\ d[2] \in Nat \ {0}
       /\ Descends(rank) => \/ d[1] = kind /\ d[2] <= hp
                            \/ rank[d[1]] < rank[kind]

\* A unit of a kind is hit, at most so hard; and the hit that is left for its corpse
Hits(most) == [kind : Kinds, hp : Nat \ {0}, amount : 0 .. most]
OnCorpse(h) ==
    [kind |-> Corpse[h.kind], hp |-> MaxHitPoints[Corpse[h.kind]], amount |-> h.amount - h.hp]
ToCorpse(h) == h.amount # 0 /\ ~(h.hp > h.amount) /\ Corpse[h.kind] # NoKind
Left(h, f) ==
    IF h.amount = 0 THEN <<h.kind, h.hp>>
    ELSE IF h.hp > h.amount THEN <<h.kind, h.hp - h.amount>>
    ELSE IF Corpse[h.kind] = NoKind THEN <<NoKind, 0>>
    ELSE f[OnCorpse(h)]
\* What is left of every unit after every hit that is at most so hard
LeavesTo(r, n) == r = [h \in Hits(n) |-> Left(h, r)]

\* A corpse is hit less hard than the unit it was.
LEMMA CorpsesHit ==
    ASSUME NEW n \in Nat, NEW h \in Hits(n + 1), ToCorpse(h)
    PROVE  OnCorpse(h) \in Hits(n) /\ OnCorpse(h).kind = Corpse[h.kind]
<1>1. /\ Corpse[h.kind] \in Kinds /\ MaxHitPoints[Corpse[h.kind]] \in Nat \ {0}
    BY WorldAssumption DEF Hits, ToCorpse
<1>2. h.amount - h.hp \in 0 .. n
    BY DEF Hits, ToCorpse
<1> QED
    BY <1>1, <1>2 DEF Hits, OnCorpse

\* What damage leaves is known for one point of damage more ...
LEMMA LeavesOneMore ==
    ASSUME NEW n \in Nat, NEW r, LeavesTo(r, n)
    PROVE  \E q : LeavesTo(q, n + 1)
<1> DEFINE q == [h \in Hits(n + 1) |-> Left(h, r)]
<1>1. ASSUME NEW h \in Hits(n) PROVE q[h] = r[h]
  <2>1. h \in Hits(n + 1)
      BY DEF Hits
  <2>2. r[h] = Left(h, r)
      BY DEF LeavesTo
  <2> QED
      BY <2>1, <2>2
<1> HIDE DEF q
<1>2. ASSUME NEW h \in Hits(n + 1) PROVE Left(h, r) = Left(h, q)
  <2>1. CASE ToCorpse(h)
    <3>1. q[OnCorpse(h)] = r[OnCorpse(h)]
        BY <1>1, <2>1, CorpsesHit
    <3> QED
        BY <3>1 DEF Left
  <2>2. CASE ~ToCorpse(h)
      BY <2>2 DEF ToCorpse, Left
  <2> QED
      BY <2>1, <2>2
<1>3. q = [h \in Hits(n + 1) |-> Left(h, q)]
    BY <1>2 DEF q
<1>4. LeavesTo(q, n + 1)
    BY <1>3 DEF LeavesTo
<1> QED
    BY <1>4

\* ... and so for any amount.
LEMMA LeavesExists ==
    ASSUME NEW n \in Nat
    PROVE  \E r : LeavesTo(r, n)
<1> DEFINE S == {c \in 0 .. n : \E r : LeavesTo(r, c)}
<1>1. 0 \in S
  <2> DEFINE r == [h \in Hits(0) |-> <<h.kind, h.hp>>]
  <2>1. \A h \in Hits(0) : h.amount = 0
      BY DEF Hits
  <2>2. LeavesTo(r, 0)
      BY <2>1 DEF LeavesTo, Left
  <2> QED
      BY <2>2
<1>2. \A c \in 0 .. n - 1 : c \in S => c + 1 \in S
    BY LeavesOneMore
<1> HIDE DEF S
<1>3. \A c \in 0 .. n : c \in S
    BY <1>1, <1>2, CountUp
<1> QED
    BY <1>3 DEF S

\* What is left is of a kind and has hit points, or nothing; and unless it is
\* what there was, with no more hit points, it is of a lower rank.
LEMMA DamageRemains ==
    ASSUME NEW kind \in Kinds, NEW hp \in Nat \ {0}, NEW amount \in Nat, NEW rank
    PROVE  Remains(Damaged(kind, hp, amount), kind, hp, rank)
<1> DEFINE r == CHOOSE f : f = [h \in Hits(amount) |-> Left(h, f)]
           S == {c \in 0 .. amount : \A h \in Hits(amount) :
                   h.amount <= c => Remains(r[h], h.kind, h.hp, rank)}
           hit == [kind |-> kind, hp |-> hp, amount |-> amount]
<1>1. LeavesTo(r, amount)
  <2>1. \E f : LeavesTo(f, amount)
      BY LeavesExists
  <2> QED
      BY <2>1 DEF LeavesTo
<1>2. Damaged(kind, hp, amount) = r[hit]
    BY DEF Damaged, Hits, Left, OnCorpse
<1> HIDE DEF r
<1>3. ASSUME NEW h \in Hits(amount),
             ToCorpse(h) => Remains(r[OnCorpse(h)], OnCorpse(h).kind, OnCorpse(h).hp, rank)
      PROVE  Remains(r[h], h.kind, h.hp, rank)
  <2>1. r[h] = Left(h, r)
      BY <1>1 DEF LeavesTo
  <2>2. CASE ~ToCorpse(h)
      BY <2>1, <2>2 DEF Remains, Left, ToCorpse, Hits
  <2>3. CASE ToCorpse(h)
    <3>1. Corpse[h.kind] \in Kinds /\ OnCorpse(h).kind = Corpse[h.kind]
        BY <2>3, WorldAssumption DEF ToCorpse, OnCorpse, Hits
    <3>2. PICK d : d = r[h]
        OBVIOUS
    <3>3. Remains(d, Corpse[h.kind], OnCorpse(h).hp, rank)
        BY <1>3, <2>1, <2>3, <3>1, <3>2 DEF Left, ToCorpse
    <3>4. ASSUME Descends(rank), d[1] \in Kinds
          PROVE  rank[d[1]] < rank[h.kind]
      <4>1. h.kind \in Kinds
          BY DEF Hits
      <4>2. rank[Corpse[h.kind]] < rank[h.kind]
          BY <3>1, <3>4, <4>1 DEF Descends
      <4>3. d[1] = Corpse[h.kind] \/ rank[d[1]] < rank[Corpse[h.kind]]
          BY <3>3, <3>4, WorldAssumption DEF Remains
      <4>4. rank[d[1]] \in Nat /\ rank[Corpse[h.kind]] \in Nat /\ rank[h.kind] \in Nat
          BY <3>1, <3>4, <4>1 DEF Descends
      <4> QED
          BY <4>2, <4>3, <4>4
    <3> QED
        BY <3>2, <3>3, <3>4 DEF Remains
  <2> QED
      BY <2>2, <2>3
<1>4. 0 \in S
  <2>1. \A h \in Hits(amount) : h.amount <= 0 => ~ToCorpse(h)
      BY DEF Hits, ToCorpse
  <2> QED
      BY <1>3, <2>1
<1>5. ASSUME NEW c \in 0 .. amount - 1, c \in S PROVE c + 1 \in S
  <2>1. ASSUME NEW h \in Hits(amount), h.amount <= c + 1
        PROVE  Remains(r[h], h.kind, h.hp, rank)
    <3>1. CASE ToCorpse(h)
      <4>1. h \in Hits(c + 1)
          BY <2>1 DEF Hits
      <4>2. OnCorpse(h) \in Hits(c)
          BY <3>1, <4>1, CorpsesHit
      <4>3. OnCorpse(h) \in Hits(amount) /\ OnCorpse(h).amount <= c
          BY <4>2 DEF Hits
      <4> QED
          BY <1>3, <1>5, <4>3
    <3> QED
        BY <1>3, <3>1
  <2> QED
      BY <2>1
<1> HIDE DEF S
<1>6. \A c \in 0 .. amount : c \in S
    BY <1>4, <1>5, CountUp
<1>7. amount \in S
    BY <1>6
<1>8. hit \in Hits(amount) /\ hit.amount <= amount /\ hit.kind = kind /\ hit.hp = hp
    BY DEF Hits
<1> HIDE DEF hit
<1> QED
    BY <1>2, <1>7, <1>8 DEF S

-----------------------------------------------------------------------------
(* The queue of fuses *)

\* How many tokens were given out after a token, when some token was the last
Age(token, last) ==
    IF token <= last THEN last - token ELSE last - token + TokenModulus

\* What comes to the top earlier was put in earlier
InAgeOrder(queue, last) ==
    \A p, q \in DOMAIN queue : \A m \in DOMAIN queue[p], n \in DOMAIN queue[q] :
       p > q \/ (p = q /\ m < n) => Age(queue[p][m], last) > Age(queue[q][n], last)

\* A token is queued if an older one is
NoGaps(queue, last) ==
    \A a \in Queued(queue), b \in Tokens :
       Age(b, last) < Age(a, last) => b \in Queued(queue)

\* Tokens have different ages, and all get older by one when a new one is given out.
LEMMA Ages ==
    ASSUME NEW last \in Tokens
    PROVE  /\ \A t \in Tokens : Age(t, last) \in 0 .. TokenModulus - 1
           /\ \A t, s \in Tokens : Age(t, last) = Age(s, last) => t = s
BY WorldAssumption DEF Tokens, Age

\* With every token given out the others are older by one.
LEMMA NextAges ==
    ASSUME NEW last \in Tokens, NEW next,
           next = IF last = TokenModulus - 1 THEN 0 ELSE last + 1
    PROVE  /\ next \in Tokens
           /\ Age(next, last) = TokenModulus - 1 /\ Age(next, next) = 0
           /\ \A t \in Tokens : t # next => Age(t, next) = Age(t, last) + 1
BY WorldAssumption DEF Tokens, Age

\* Times and priorities are each other's complements.
LEMMA Complements ==
    /\ \A t \in Times : Priority(t) \in Times /\ Priority(Priority(t)) = t
    /\ \A s, t \in Times : Priority(s) = Priority(t) => s = t
BY LastTimeAssumption DEF Times, Priority

\* What is in a queue.
LEMMA QueueHas ==
    ASSUME NEW queue, IsQueue(queue, Tokens)
    PROVE  /\ DOMAIN queue \subseteq 0 .. LastTime
           /\ \A p \in DOMAIN queue :
                /\ queue[p] \in Seq(Tokens) /\ queue[p] # <<>>
                /\ Len(queue[p]) \in Nat /\ Len(queue[p]) >= 1
                /\ DOMAIN queue[p] = 1 .. Len(queue[p])
                /\ \A m \in DOMAIN queue[p] : queue[p][m] \in Tokens
           /\ Queued(queue) = UNION {{queue[p][m] : m \in DOMAIN queue[p]} : p \in DOMAIN queue}
           /\ Queued(queue) \subseteq Tokens
<1>1. DOMAIN queue \subseteq 0 .. LastTime
    BY Complements DEF IsQueue, Times
<1>2. ASSUME NEW p \in DOMAIN queue
      PROVE  /\ queue[p] \in Seq(Tokens) /\ queue[p] # <<>>
             /\ Len(queue[p]) \in Nat /\ Len(queue[p]) >= 1
             /\ DOMAIN queue[p] = 1 .. Len(queue[p])
             /\ \A m \in DOMAIN queue[p] : queue[p][m] \in Tokens
  <2>1. queue[p] \in Seq(Tokens) /\ queue[p] # <<>>
      BY DEF IsQueue
  <2>2. Len(queue[p]) \in Nat /\ DOMAIN queue[p] = 1 .. Len(queue[p])
      BY <2>1, LenProperties
  <2>3. Len(queue[p]) # 0
      BY <2>1, EmptySeq
  <2> QED
      BY <2>1, <2>2, <2>3, ElementOfSeq
<1>3. Queued(queue) = UNION {{queue[p][m] : m \in DOMAIN queue[p]} : p \in DOMAIN queue}
    BY DEF Queued, Range
<1> QED
    BY <1>1, <1>2, <1>3

\* A token is queued if it is somewhere in the queue.
LEMMA QueuedIs ==
    ASSUME NEW queue
    PROVE  /\ \A p \in DOMAIN queue : \A m \in DOMAIN queue[p] : queue[p][m] \in Queued(queue)
           /\ \A t \in Queued(queue) :
                \E p \in DOMAIN queue : \E m \in DOMAIN queue[p] : queue[p][m] = t
BY DEF Queued, Range

\* No token is queued twice.
LEMMA QueuedOnce ==
    ASSUME NEW queue, NEW last \in Tokens, IsQueue(queue, Tokens), InAgeOrder(queue, last),
           NEW p \in DOMAIN queue, NEW q \in DOMAIN queue,
           NEW m \in DOMAIN queue[p], NEW n \in DOMAIN queue[q], queue[p][m] = queue[q][n]
    PROVE  p = q /\ m = n
<1>1. p \in Int /\ q \in Int /\ m \in Int /\ n \in Int
    BY QueueHas, LastTimeAssumption
<1>2. Age(queue[p][m], last) \in Int
    BY Ages, QueueHas
<1>3. p = q
  <2>1. ~(p > q)
      BY <1>2 DEF InAgeOrder
  <2>2. ~(q > p)
      BY <1>2 DEF InAgeOrder
  <2> QED
      BY <1>1, <2>1, <2>2
<1>4. m = n
  <2>1. ~(m < n)
      BY <1>2, <1>3 DEF InAgeOrder
  <2>2. ~(n < m)
      BY <1>2, <1>3 DEF InAgeOrder
  <2> QED
      BY <1>1, <2>1, <2>2
<1> QED
    BY <1>3, <1>4

\* While there are fewer tokens in the queue than there may be, the next is not one.
LEMMA NextIsFree ==
    ASSUME lastFuseToken \in Tokens, IsQueue(fuseQueue, Tokens),
           NoGaps(fuseQueue, lastFuseToken), Cardinality(Queued(fuseQueue)) < TokenModulus
    PROVE  NextToken \notin Queued(fuseQueue)
<1> SUFFICES ASSUME NextToken \in Queued(fuseQueue) PROVE FALSE
    OBVIOUS
<1>1. NextToken \in Tokens /\ Age(NextToken, lastFuseToken) = TokenModulus - 1
    BY TokenAfter, NextAges
<1>2. ASSUME NEW t \in Tokens PROVE t \in Queued(fuseQueue)
  <2>1. CASE Age(t, lastFuseToken) = TokenModulus - 1
      BY <1>1, <2>1, Ages
  <2>2. CASE Age(t, lastFuseToken) # TokenModulus - 1
    <3>1. TokenModulus \in Nat \ {0}
        BY WorldAssumption
    <3>2. Age(t, lastFuseToken) < Age(NextToken, lastFuseToken)
        BY <1>1, <2>2, <3>1, Ages
    <3> QED
        BY <3>2 DEF NoGaps
  <2> QED
      BY <2>1, <2>2
<1>3. Queued(fuseQueue) = Tokens
    BY <1>2, QueueHas
<1>4. Cardinality(0 .. TokenModulus - 1) = TokenModulus
  <2>1. TokenModulus \in Nat \ {0} /\ 0 <= TokenModulus - 1 /\ (TokenModulus - 1) - 0 + 1 = TokenModulus
      BY WorldAssumption
  <2>2. TokenModulus - 1 \in Int /\ ~(0 > TokenModulus - 1)
      BY <2>1
  <2> QED
      BY <2>1, <2>2, FS_Interval
<1> QED
    BY <1>3, <1>4, WorldAssumption DEF Tokens

-----------------------------------------------------------------------------
\* What a push does: the new token is the youngest, at the end of its priority.
LEMMA Pushed ==
    ASSUME NEW queue, IsQueue(queue, Tokens), NEW time \in Times, NEW token \in Tokens,
           NEW new, new = Push(queue, [time |-> time, token |-> token])
    PROVE  /\ IsQueue(new, Tokens)
           /\ DOMAIN new = DOMAIN queue \cup {Priority(time)}
           /\ \A p \in DOMAIN queue : p # Priority(time) => new[p] = queue[p]
           /\ new[Priority(time)] =
                IF Priority(time) \in DOMAIN queue
                THEN Append(queue[Priority(time)], token) ELSE <<token>>
           /\ Queued(new) = Queued(queue) \cup {token}
<1> DEFINE p == Priority(time)
<1>1. p \in Times
    BY Complements
<1> HIDE DEF p
<1>2. /\ DOMAIN new = DOMAIN queue \cup {p}
      /\ \A q \in DOMAIN queue : q # p => new[q] = queue[q]
      /\ new[p] = IF p \in DOMAIN queue THEN Append(queue[p], token) ELSE <<token>>
  <2>1. CASE p \in DOMAIN queue
    <3>1. new = [queue EXCEPT ![p] = Append(@, token)]
        BY <2>1 DEF Push, p
    <3> QED
        BY <2>1, <3>1
  <2>2. CASE p \notin DOMAIN queue
    <3>1. new = [q \in DOMAIN queue \cup {p} |-> IF q = p THEN <<token>> ELSE queue[q]]
        BY <2>2 DEF Push, p
    <3> QED
        BY <2>2, <3>1
  <2> QED
      BY <2>1, <2>2
<1>3. new[p] \in Seq(Tokens) /\ new[p] # <<>> /\ Range(new[p]) =
         (IF p \in DOMAIN queue THEN Range(queue[p]) ELSE {}) \cup {token}
  <2>1. CASE p \in DOMAIN queue
    <3>1. queue[p] \in Seq(Tokens)
        BY <2>1, QueueHas
    <3>2. PICK s : s = queue[p]
        OBVIOUS
    <3>3. /\ Append(s, token) \in Seq(Tokens) /\ Append(s, token) # <<>>
          /\ Len(Append(s, token)) = Len(s) + 1
          /\ \A i \in 1 .. Len(s) : Append(s, token)[i] = s[i]
          /\ Append(s, token)[Len(s) + 1] = token
        BY <3>1, <3>2, AppendProperties
    <3>4. Len(s) \in Nat /\ DOMAIN s = 1 .. Len(s) /\ DOMAIN Append(s, token) = 1 .. Len(s) + 1
        BY <3>1, <3>2, <3>3, LenProperties
    <3>5. Range(Append(s, token)) = Range(s) \cup {token}
      <4>1. \A x \in Range(Append(s, token)) : x \in Range(s) \cup {token}
        <5> SUFFICES ASSUME NEW i \in 1 .. Len(s) + 1
                     PROVE  Append(s, token)[i] \in Range(s) \cup {token}
            BY <3>4 DEF Range
        <5>1. CASE i = Len(s) + 1
            BY <3>3, <5>1
        <5>2. CASE i # Len(s) + 1
          <6>1. i \in 1 .. Len(s)
              BY <3>4, <5>2
          <6> QED
              BY <3>3, <3>4, <6>1 DEF Range
        <5> QED
            BY <5>1, <5>2
      <4>2. Len(s) + 1 \in 1 .. Len(s) + 1 /\ \A i \in 1 .. Len(s) : i \in 1 .. Len(s) + 1
          BY <3>4
      <4>3. \A x \in Range(s) \cup {token} : x \in Range(Append(s, token))
          BY <3>3, <3>4, <4>2 DEF Range
      <4> QED
          BY <4>1, <4>3
    <3> QED
        BY <1>2, <2>1, <3>2, <3>3, <3>5
  <2>2. CASE p \notin DOMAIN queue
    <3>1. new[p] = <<token>>
        BY <1>2, <2>2
    <3>2. <<token>> \in Seq(Tokens) /\ <<token>> # <<>> /\ Range(<<token>>) = {token}
        BY DEF Range
    <3> QED
        BY <2>2, <3>1, <3>2
  <2> QED
      BY <2>1, <2>2
<1>4. IsQueue(new, Tokens)
  <2>1. p \in {Priority(t) : t \in Times}
      BY DEF p
  <2>2. DOMAIN new \subseteq {Priority(t) : t \in Times}
      BY <1>2, <2>1 DEF IsQueue
  <2> QED
      BY <1>2, <1>3, <2>2 DEF IsQueue
<1>5. Queued(new) = Queued(queue) \cup {token}
  <2>1. \A q \in DOMAIN new : q # p => q \in DOMAIN queue /\ Range(new[q]) = Range(queue[q])
      BY <1>2
  <2>2. p \in DOMAIN new /\ token \in Range(new[p])
      BY <1>2, <1>3
  <2>3. \A q \in DOMAIN queue : q \in DOMAIN new /\ Range(queue[q]) \subseteq Range(new[q])
      BY <1>2, <1>3
  <2>4. \A q \in DOMAIN new : Range(new[q]) \subseteq Queued(queue) \cup {token}
      BY <1>2, <1>3, <2>1 DEF Queued
  <2>5. Queued(new) \subseteq Queued(queue) \cup {token}
      BY <2>4 DEF Queued
  <2>6. Queued(queue) \subseteq Queued(new)
      BY <2>3 DEF Queued
  <2>7. token \in Queued(new)
      BY <2>2 DEF Queued
  <2> QED
      BY <2>5, <2>6, <2>7
<1> QED
    BY <1>2, <1>4, <1>5 DEF p

\* A token that is given out next goes behind all others if its time is not before
\* theirs.
LEMMA PushedInOrder ==
    ASSUME NEW queue, IsQueue(queue, Tokens), NEW time \in Times,
           NEW last \in Tokens, NEW token,
           token = IF last = TokenModulus - 1 THEN 0 ELSE last + 1,
           InAgeOrder(queue, last), NoGaps(queue, last), token \notin Queued(queue),
           \A p \in DOMAIN queue : p >= Priority(time),
           NEW new, new = Push(queue, [time |-> time, token |-> token])
    PROVE  InAgeOrder(new, token) /\ NoGaps(new, token)
<1> DEFINE z == Priority(time)
<1>1. token \in Tokens /\ Age(token, token) = 0
    BY NextAges
<1>2. \A t \in Queued(queue) : Age(t, token) = Age(t, last) + 1 /\ Age(t, last) \in Nat
  <2>1. \A t \in Queued(queue) : t \in Tokens /\ t # token
      BY QueueHas
  <2> QED
      BY <2>1, NextAges, Ages
<1>3. /\ DOMAIN new = DOMAIN queue \cup {z}
      /\ \A p \in DOMAIN queue : p # z => new[p] = queue[p]
      /\ new[z] = IF z \in DOMAIN queue THEN Append(queue[z], token) ELSE <<token>>
      /\ Queued(new) = Queued(queue) \cup {token}
      /\ IsQueue(new, Tokens)
    BY <1>1, Pushed
<1>4. z \in 0 .. LastTime /\ \A p \in DOMAIN queue : p >= z /\ p \in Int
    BY QueueHas, Complements, LastTimeAssumption DEF Times
<1> HIDE DEF z
\* A place in the new queue is one of the old, or the last at z
<1>5. ASSUME NEW p \in DOMAIN new, NEW m \in DOMAIN new[p]
      PROVE  \/ p \in DOMAIN queue /\ m \in DOMAIN queue[p] /\ new[p][m] = queue[p][m]
             \/ p = z /\ new[p][m] = token /\ \A n \in DOMAIN new[p] : n <= m
  <2>1. CASE p # z
      BY <1>3, <2>1
  <2>2. CASE p = z /\ z \in DOMAIN queue
    <3>1. PICK s : s = queue[z]
        OBVIOUS
    <3>2. s \in Seq(Tokens) /\ Len(s) \in Nat /\ DOMAIN s = 1 .. Len(s)
        BY <2>2, <3>1, QueueHas
    <3>3. /\ Append(s, token) \in Seq(Tokens)
          /\ Len(Append(s, token)) = Len(s) + 1
          /\ \A i \in 1 .. Len(s) : Append(s, token)[i] = s[i]
          /\ Append(s, token)[Len(s) + 1] = token
        BY <1>1, <3>2, AppendProperties
    <3>4. DOMAIN Append(s, token) = 1 .. Len(s) + 1
        BY <3>3, LenProperties
    <3>5. new[p] = Append(s, token)
        BY <1>3, <2>2, <3>1
    <3>6. m \in 1 .. Len(s) + 1
        BY <3>4, <3>5
    <3>7. CASE m = Len(s) + 1
        BY <2>2, <3>2, <3>3, <3>4, <3>5, <3>7
    <3>8. CASE m # Len(s) + 1
      <4>1. m \in 1 .. Len(s)
          BY <3>2, <3>6, <3>8
      <4> QED
          BY <2>2, <3>1, <3>2, <3>3, <3>5, <4>1
    <3> QED
        BY <3>7, <3>8
  <2>3. CASE p = z /\ z \notin DOMAIN queue
    <3>1. new[p] = <<token>>
        BY <1>3, <2>3
    <3>2. DOMAIN <<token>> = {1}
        OBVIOUS
    <3>3. m = 1
        BY <3>1, <3>2
    <3> QED
        BY <2>3, <3>1, <3>2, <3>3
  <2> QED
      BY <2>1, <2>2, <2>3
<1>6. InAgeOrder(new, token)
  <2> SUFFICES ASSUME NEW p \in DOMAIN new, NEW q \in DOMAIN new,
                      NEW m \in DOMAIN new[p], NEW n \in DOMAIN new[q],
                      p > q \/ (p = q /\ m < n)
               PROVE  Age(new[p][m], token) > Age(new[q][n], token)
      BY DEF InAgeOrder
  <2>1. p \in Int /\ q \in Int /\ m \in Int /\ n \in Int
    <3>1. /\ DOMAIN new[p] = 1 .. Len(new[p]) /\ DOMAIN new[q] = 1 .. Len(new[q])
          /\ Len(new[p]) \in Nat /\ Len(new[q]) \in Nat
        BY <1>3, QueueHas
    <3>2. p \in Int /\ q \in Int
        BY <1>3, <1>4, LastTimeAssumption
    <3> QED
        BY <3>1, <3>2
  <2>2. p \in DOMAIN queue /\ m \in DOMAIN queue[p] /\ new[p][m] = queue[p][m]
    <3>1. CASE p = z /\ \A i \in DOMAIN new[p] : i <= m
      <4>1. q >= z
          BY <1>3, <1>4, <2>1, <3>1
      <4> QED
          BY <1>4, <2>1, <3>1, <4>1
    <3> QED
        BY <1>5, <3>1
  <2>3. Age(queue[p][m], token) = Age(queue[p][m], last) + 1 /\ Age(queue[p][m], last) \in Nat
      BY <1>2, <2>2, QueuedIs
  <2>4. CASE q \in DOMAIN queue /\ n \in DOMAIN queue[q] /\ new[q][n] = queue[q][n]
    <3>1. Age(queue[q][n], token) = Age(queue[q][n], last) + 1 /\ Age(queue[q][n], last) \in Nat
        BY <1>2, <2>4, QueuedIs
    <3>2. Age(queue[p][m], last) > Age(queue[q][n], last)
        BY <2>2, <2>4 DEF InAgeOrder
    <3> QED
        BY <2>2, <2>3, <2>4, <3>1, <3>2
  <2>5. CASE new[q][n] = token
      BY <1>1, <2>2, <2>3, <2>5
  <2> QED
      BY <1>5, <2>4, <2>5
<1>7. NoGaps(new, token)
  <2> SUFFICES ASSUME NEW a \in Queued(new), NEW b \in Tokens,
                      Age(b, token) < Age(a, token), b # token
               PROVE  b \in Queued(queue)
      BY <1>3 DEF NoGaps
  <2>1. Age(b, token) = Age(b, last) + 1 /\ Age(b, last) \in Nat
      BY NextAges, Ages, WorldAssumption
  <2>2. a # token
      BY <1>1, <2>1
  <2>3. a \in Queued(queue) /\ Age(a, token) = Age(a, last) + 1 /\ Age(a, last) \in Nat
      BY <1>2, <1>3, <2>2
  <2>4. Age(b, last) < Age(a, last)
      BY <2>1, <2>3
  <2> QED
      BY <2>3, <2>4 DEF NoGaps
<1> QED
    BY <1>6, <1>7

-----------------------------------------------------------------------------
\* The top is the first of the greatest priority, and older than all others.
LEMMA TopIs ==
    ASSUME NEW queue, IsQueue(queue, Tokens), DOMAIN queue # {},
           NEW last \in Tokens, InAgeOrder(queue, last)
    PROVE  /\ TopPriority(queue) \in DOMAIN queue
           /\ \A q \in DOMAIN queue : TopPriority(queue) >= q
           /\ Top(queue).token = queue[TopPriority(queue)][1]
           /\ Top(queue).time = Priority(TopPriority(queue))
           /\ 1 \in DOMAIN queue[TopPriority(queue)]
           /\ Top(queue).token \in Queued(queue)
           /\ \A t \in Queued(queue) :
                t # Top(queue).token => Age(Top(queue).token, last) > Age(t, last)
<1> DEFINE p == TopPriority(queue)
<1>1. p \in DOMAIN queue /\ \A q \in DOMAIN queue : p >= q
    BY GreatestOf, QueueHas, LastTimeAssumption DEF TopPriority
<1>2. Top(queue).token = queue[p][1] /\ 1 \in DOMAIN queue[p]
  <2>1. queue[p] \in Seq(Tokens) /\ queue[p] # <<>> /\ DOMAIN queue[p] = 1 .. Len(queue[p])
        /\ Len(queue[p]) \in Nat /\ Len(queue[p]) >= 1
      BY <1>1, QueueHas
  <2>2. Head(queue[p]) = queue[p][1]
      BY <2>1
  <2> QED
      BY <2>1, <2>2 DEF Top
<1>3. Top(queue).time = Priority(p)
    BY DEF Top
<1> HIDE DEF p
<1>4. ASSUME NEW t \in Queued(queue), t # Top(queue).token
      PROVE  Age(Top(queue).token, last) > Age(t, last)
  <2>1. PICK q \in DOMAIN queue : \E n \in DOMAIN queue[q] : queue[q][n] = t
      BY QueuedIs
  <2>2. PICK n \in DOMAIN queue[q] : queue[q][n] = t
      BY <2>1
  <2>3. n \in Int /\ n >= 1 /\ p \in Int /\ q \in Int
      BY <1>1, <2>1, <2>2, QueueHas, LastTimeAssumption
  <2>4. p > q \/ (p = q /\ 1 < n)
      BY <1>1, <1>2, <1>4, <2>2, <2>3
  <2> QED
      BY <1>1, <1>2, <2>2, <2>4 DEF InAgeOrder
<1>5. Top(queue).token \in Queued(queue)
    BY <1>1, <1>2, QueuedIs
<1> QED
    BY <1>1, <1>2, <1>3, <1>4, <1>5 DEF p

\* What a pop does: the top goes, and the rest stays in its order.
LEMMA Popped ==
    ASSUME NEW queue, IsQueue(queue, Tokens), DOMAIN queue # {},
           NEW last \in Tokens, InAgeOrder(queue, last), NoGaps(queue, last)
    PROVE  /\ IsQueue(Pop(queue), Tokens) /\ DOMAIN Pop(queue) \subseteq DOMAIN queue
           /\ Queued(Pop(queue)) = Queued(queue) \ {Top(queue).token}
           /\ InAgeOrder(Pop(queue), last) /\ NoGaps(Pop(queue), last)
           /\ \A q \in DOMAIN Pop(queue) : \A n \in DOMAIN Pop(queue)[q] :
                \E m \in DOMAIN queue[q] : queue[q][m] = Pop(queue)[q][n]
<1> DEFINE p == TopPriority(queue)
           new == Pop(queue)
<1>1. /\ p \in DOMAIN queue /\ 1 \in DOMAIN queue[p] /\ Top(queue).token = queue[p][1]
      /\ Top(queue).token \in Queued(queue)
      /\ \A t \in Queued(queue) :
           t # Top(queue).token => Age(Top(queue).token, last) > Age(t, last)
    BY TopIs
<1>2. /\ queue[p] \in Seq(Tokens) /\ queue[p] # <<>> /\ DOMAIN queue[p] = 1 .. Len(queue[p])
      /\ Len(queue[p]) \in Nat /\ Len(queue[p]) >= 1
    BY <1>1, QueueHas
<1>3. /\ Tail(queue[p]) \in Seq(Tokens) /\ Len(Tail(queue[p])) = Len(queue[p]) - 1
      /\ \A i \in 1 .. Len(Tail(queue[p])) : Tail(queue[p])[i] = queue[p][i + 1]
    BY <1>2, HeadTailProperties
<1>4. /\ DOMAIN new \subseteq DOMAIN queue
      /\ \A q \in DOMAIN queue : q # p => q \in DOMAIN new /\ new[q] = queue[q]
      /\ p \in DOMAIN new <=> Len(queue[p]) # 1
      /\ p \in DOMAIN new => new[p] = Tail(queue[p])
  <2>1. CASE Len(queue[p]) = 1
    <3>1. new = Restrict(queue, DOMAIN queue \ {p})
        BY <2>1 DEF Pop
    <3> HIDE DEF new, p
    <3> QED
        BY <2>1, <3>1 DEF Restrict
  <2>2. CASE Len(queue[p]) # 1
    <3>1. new = [queue EXCEPT ![p] = Tail(queue[p])]
        BY <2>2 DEF Pop
    <3> HIDE DEF new, p
    <3> QED
        BY <1>1, <2>2, <3>1
  <2> QED
      BY <2>1, <2>2
<1> HIDE DEF p, new
\* Where a place of the new queue is in the old
<1>5. ASSUME NEW q \in DOMAIN new, NEW n \in DOMAIN new[q]
      PROVE  /\ n \in Int
             /\ IF q = p THEN n + 1 \in DOMAIN queue[q] /\ queue[q][n + 1] = new[q][n] /\ n >= 1
                ELSE n \in DOMAIN queue[q] /\ queue[q][n] = new[q][n]
  <2>1. CASE q = p
    <3>1. new[q] = Tail(queue[p])
        BY <1>4, <2>1
    <3>2. DOMAIN Tail(queue[p]) = 1 .. Len(queue[p]) - 1
        BY <1>3, LenProperties
    <3> QED
        BY <1>2, <1>3, <2>1, <3>1, <3>2
  <2>2. CASE q # p
    <3>1. q \in DOMAIN queue /\ new[q] = queue[q]
        BY <1>4, <2>2
    <3>2. n \in Int
        BY <3>1, QueueHas
    <3> QED
        BY <2>2, <3>1, <3>2
  <2> QED
      BY <2>1, <2>2
<1>6. IsQueue(new, Tokens)
  <2>1. ASSUME NEW q \in DOMAIN new PROVE new[q] \in Seq(Tokens) /\ new[q] # <<>>
    <3>1. CASE q = p
      <4>1. Len(Tail(queue[p])) # 0
          BY <1>2, <1>3, <1>4, <2>1, <3>1
      <4>2. Len(<<>>) = 0
          BY EmptySeq
      <4> QED
          BY <1>3, <1>4, <2>1, <3>1, <4>1, <4>2
    <3>2. CASE q # p
        BY <1>4, <3>2, QueueHas
    <3> QED
        BY <3>1, <3>2
  <2> QED
      BY <1>4, <2>1 DEF IsQueue
<1>7. InAgeOrder(new, last)
  <2> SUFFICES ASSUME NEW q \in DOMAIN new, NEW s \in DOMAIN new,
                      NEW m \in DOMAIN new[q], NEW n \in DOMAIN new[s],
                      q > s \/ (q = s /\ m < n)
               PROVE  Age(new[q][m], last) > Age(new[s][n], last)
      BY DEF InAgeOrder
  <2>1. q \in DOMAIN queue /\ s \in DOMAIN queue
      BY <1>4
  <2>2. m \in Int /\ n \in Int
      BY <1>5
  <2>3. PICK i \in DOMAIN queue[q] :
          queue[q][i] = new[q][m] /\ i = IF q = p THEN m + 1 ELSE m
      BY <1>5
  <2>4. PICK h \in DOMAIN queue[s] :
          queue[s][h] = new[s][n] /\ h = IF s = p THEN n + 1 ELSE n
      BY <1>5
  <2>5. q > s \/ (q = s /\ i < h)
      BY <2>2, <2>3, <2>4
  <2> QED
      BY <2>1, <2>3, <2>4, <2>5 DEF InAgeOrder
<1>8. Queued(new) = Queued(queue) \ {Top(queue).token}
  <2>1. ASSUME NEW t \in Queued(new) PROVE t \in Queued(queue) \ {Top(queue).token}
    <3>1. PICK q \in DOMAIN new : \E n \in DOMAIN new[q] : new[q][n] = t
        BY QueuedIs
    <3>2. PICK n \in DOMAIN new[q] : new[q][n] = t
        BY <3>1
    <3>3. q \in DOMAIN queue
        BY <1>4
    <3>4. PICK i \in DOMAIN queue[q] : queue[q][i] = t /\ i = IF q = p THEN n + 1 ELSE n
        BY <1>5, <3>2
    <3>5. t \in Queued(queue)
        BY <3>3, <3>4, QueuedIs
    <3>6. t # Top(queue).token
      <4> SUFFICES ASSUME t = Top(queue).token PROVE FALSE
          OBVIOUS
      <4>1. q = p /\ i = 1
          BY <1>1, <3>3, <3>4, QueuedOnce
      <4>2. n >= 1 /\ n \in Int
          BY <1>5, <4>1
      <4> QED
          BY <3>4, <4>1, <4>2
    <3> QED
        BY <3>5, <3>6
  <2>2. ASSUME NEW t \in Queued(queue), t # Top(queue).token PROVE t \in Queued(new)
    <3>1. PICK q \in DOMAIN queue : \E n \in DOMAIN queue[q] : queue[q][n] = t
        BY QueuedIs
    <3>2. PICK n \in DOMAIN queue[q] : queue[q][n] = t
        BY <3>1
    <3>3. CASE q # p
      <4>1. q \in DOMAIN new /\ new[q] = queue[q]
          BY <1>4, <3>3
      <4> QED
          BY <3>2, <4>1, QueuedIs
    <3>4. CASE q = p
      <4>1. n \in 1 .. Len(queue[p]) /\ n # 1
          BY <1>1, <1>2, <2>2, <3>2, <3>4
      <4>2. p \in DOMAIN new /\ new[p] = Tail(queue[p])
        <5>1. Len(queue[p]) # 1
          <6>1. PICK l : l = Len(queue[p])
              OBVIOUS
          <6>2. n \in 1 .. l /\ n # 1
              BY <4>1, <6>1
          <6>3. l # 1
              BY <6>2
          <6> QED
              BY <6>1, <6>3
        <5> QED
            BY <1>4, <5>1
      <4>3. n - 1 \in 1 .. Len(Tail(queue[p])) /\ (n - 1) + 1 = n
          BY <1>2, <1>3, <4>1
      <4>4. DOMAIN Tail(queue[p]) = 1 .. Len(Tail(queue[p]))
          BY <1>3, LenProperties
      <4>5. n - 1 \in DOMAIN new[p] /\ new[p][n - 1] = t
          BY <1>3, <3>2, <3>4, <4>2, <4>3, <4>4
      <4> QED
          BY <4>2, <4>5, QueuedIs
    <3> QED
        BY <3>3, <3>4
  <2> QED
      BY <2>1, <2>2
<1>9. NoGaps(new, last)
  <2> SUFFICES ASSUME NEW a \in Queued(new), NEW b \in Tokens, Age(b, last) < Age(a, last)
               PROVE  b \in Queued(new)
      BY DEF NoGaps
  <2>1. a \in Queued(queue) /\ a # Top(queue).token
      BY <1>8
  <2>2. b \in Queued(queue)
      BY <2>1 DEF NoGaps
  <2>3. b # Top(queue).token
    <3>1. Age(Top(queue).token, last) > Age(a, last)
        BY <1>1, <2>1
    <3>2. a \in Tokens /\ Top(queue).token \in Tokens
        BY <1>1, <2>1, QueueHas
    <3>3. Age(a, last) \in Int /\ Age(Top(queue).token, last) \in Int
        BY <3>2, Ages
    <3> QED
        BY <3>1, <3>3
  <2> QED
      BY <1>8, <2>2, <2>3
<1>10. ASSUME NEW q \in DOMAIN new, NEW n \in DOMAIN new[q]
       PROVE  \E m \in DOMAIN queue[q] : queue[q][m] = new[q][n]
    BY <1>5
<1> QED
    BY <1>4, <1>6, <1>7, <1>8, <1>9, <1>10 DEF new

-----------------------------------------------------------------------------
(* The layers of a unit *)

\* The paralysing layers have the tokens of a set, each one; and at most one
\* layer is under construction.
Carries(ls, tokens) ==
    /\ ls \in Seq(Layers)
    /\ \A i \in DOMAIN ls : ls[i].type = "paralysing" => ls[i].n \in tokens
    /\ \A t \in tokens : \E i \in DOMAIN ls : ls[i].type = "paralysing" /\ ls[i].n = t
    /\ \A i, m \in DOMAIN ls :
          ls[i].type = "paralysing" /\ ls[m].type = "paralysing" /\ ls[i].n = ls[m].n => i = m
    /\ \A i, m \in DOMAIN ls : ls[i].type = "building" /\ ls[m].type = "building" => i = m

\* What every sequence of layers has.
LEMMA LayersHave ==
    ASSUME NEW ls \in Seq(Layers)
    PROVE  /\ Len(ls) \in Nat /\ DOMAIN ls = 1 .. Len(ls)
           /\ \A i \in DOMAIN ls : ls[i] \in Layers /\ i \in Nat /\ i >= 1
BY LenProperties, ElementOfSeq

\* A unit as it is made.
LEMMA CarriesNothing ==
    /\ Carries(<<>>, {})
    /\ Carries(<<Layer("building", 1)>>, {})
<1>1. <<>> \in Seq(Layers) /\ DOMAIN <<>> = {}
    OBVIOUS
<1>2. Layer("building", 1) \in Layers /\ Layer("building", 1).type = "building"
    BY DEF Layer, Layers
<1>3. PICK layer : layer = Layer("building", 1)
    OBVIOUS
<1>4. <<layer>> \in Seq(Layers) /\ DOMAIN <<layer>> = {1} /\ <<layer>>[1] = layer
    BY <1>2, <1>3
<1>5. Carries(<<layer>>, {})
    BY <1>2, <1>3, <1>4 DEF Carries
<1> QED
    BY <1>1, <1>3, <1>5 DEF Carries

\* A paralysing layer with a new token on top.
LEMMA CarriesOneMore ==
    ASSUME NEW ls, NEW tokens, Carries(ls, tokens), NEW t \in Nat, t \notin tokens
    PROVE  Carries(<<Layer("paralysing", t)>> \o ls, tokens \cup {t})
<1>1. PICK layer : layer = Layer("paralysing", t)
    OBVIOUS
<1>2. layer \in Layers /\ layer.type = "paralysing" /\ layer.n = t
    BY <1>1 DEF Layer, Layers
<1>3. ls \in Seq(Layers) /\ Len(ls) \in Nat /\ DOMAIN ls = 1 .. Len(ls)
    BY LayersHave DEF Carries
<1>4. PICK new : new = <<layer>> \o ls
    OBVIOUS
<1>5. /\ new \in Seq(Layers) /\ DOMAIN new = 1 .. Len(ls) + 1 /\ new[1] = layer
      /\ \A i \in 2 .. Len(ls) + 1 : new[i] = ls[i - 1]
  <2>1. <<layer>> \in Seq(Layers) /\ Len(<<layer>>) = 1 /\ <<layer>>[1] = layer
      BY <1>2
  <2>2. /\ new \in Seq(Layers) /\ Len(new) = 1 + Len(ls)
        /\ \A i \in 1 .. 1 + Len(ls) : new[i] = IF i <= 1 THEN <<layer>>[i] ELSE ls[i - 1]
      BY <1>3, <1>4, <2>1, ConcatProperties
  <2>3. DOMAIN new = 1 .. Len(new)
      BY <2>2, LenProperties
  <2> QED
      BY <1>3, <2>1, <2>2, <2>3
<1>6. \A i \in DOMAIN new : i = 1 \/ (i \in 2 .. Len(ls) + 1 /\ i - 1 \in DOMAIN ls)
    BY <1>3, <1>5
<1>7. \A i \in DOMAIN ls : i + 1 \in DOMAIN new /\ new[i + 1] = ls[i]
  <2>1. \A i \in DOMAIN ls : i + 1 \in 2 .. Len(ls) + 1 /\ (i + 1) - 1 = i
      BY <1>3
  <2> QED
      BY <1>3, <1>5, <2>1
<1>8. \A i \in DOMAIN new : new[i].type = "paralysing" => new[i].n \in tokens \cup {t}
    BY <1>2, <1>5, <1>6 DEF Carries
<1>9. \A s \in tokens \cup {t} : \E i \in DOMAIN new : new[i].type = "paralysing" /\ new[i].n = s
  <2>1. \A s \in tokens : \E i \in DOMAIN ls : ls[i].type = "paralysing" /\ ls[i].n = s
      BY DEF Carries
  <2>2. 1 \in DOMAIN new
      BY <1>3, <1>5
  <2> QED
      BY <1>2, <1>5, <1>7, <2>1, <2>2
<1>10. ASSUME NEW i \in DOMAIN new, NEW m \in DOMAIN new,
              \/ new[i].type = "paralysing" /\ new[m].type = "paralysing" /\ new[i].n = new[m].n
              \/ new[i].type = "building" /\ new[m].type = "building"
       PROVE  i = m
  <2>1. CASE i = 1 \/ m = 1
    <3>1. \A p \in DOMAIN ls : ls[p].type = "paralysing" => ls[p].n # t
        BY DEF Carries
    <3>2. \A p \in DOMAIN new : p # 1 => new[p] = ls[p - 1] /\ p - 1 \in DOMAIN ls
        BY <1>5, <1>6
    <3>3. \A p \in DOMAIN new : p # 1 => ~(new[p].type = "paralysing" /\ new[p].n = t)
        BY <3>1, <3>2
    <3> QED
        BY <1>2, <1>5, <1>10, <2>1, <3>3
  <2>2. CASE i # 1 /\ m # 1
    <3>1. new[i] = ls[i - 1] /\ new[m] = ls[m - 1] /\ i - 1 \in DOMAIN ls /\ m - 1 \in DOMAIN ls
        BY <1>5, <1>6, <2>2
    <3>2. i - 1 = m - 1
        BY <1>10, <3>1 DEF Carries
    <3> QED
        BY <1>3, <1>5, <3>2
  <2> QED
      BY <2>1, <2>2
<1>11. Carries(new, tokens \cup {t})
    BY <1>5, <1>8, <1>9, <1>10 DEF Carries
<1> QED
    BY <1>1, <1>4, <1>11

\* A layer that goes away takes its token with it, if it has one.
LEMMA CarriesOneLess ==
    ASSUME NEW ls, NEW tokens, Carries(ls, tokens), NEW i \in DOMAIN ls
    PROVE  /\ ls[i].type = "paralysing" => Carries(RemoveAt(ls, i), tokens \ {ls[i].n})
           /\ ls[i].type = "building" =>
                /\ Carries(RemoveAt(ls, i), tokens)
                /\ \A m \in DOMAIN RemoveAt(ls, i) : RemoveAt(ls, i)[m].type # "building"
           /\ \A m \in DOMAIN RemoveAt(ls, i) :
                \E n \in DOMAIN ls : ls[n] = RemoveAt(ls, i)[m]
<1> DEFINE at(m) == IF m < i THEN m ELSE m + 1
<1>1. ls \in Seq(Layers) /\ Len(ls) \in Nat /\ DOMAIN ls = 1 .. Len(ls)
    BY LayersHave DEF Carries
<1>2. PICK new : new = RemoveAt(ls, i)
    OBVIOUS
<1>3. /\ new \in Seq(Layers) /\ Len(new) = Len(ls) - 1
      /\ \A m \in 1 .. Len(ls) - 1 : new[m] = IF m < i THEN ls[m] ELSE ls[m + 1]
    BY <1>1, <1>2, RemovedAt
<1>4. DOMAIN new = 1 .. Len(ls) - 1
    BY <1>3, LenProperties
<1>5. \A m \in DOMAIN new : at(m) \in DOMAIN ls /\ at(m) # i /\ new[m] = ls[at(m)] /\ m \in Int
    BY <1>1, <1>3, <1>4
<1>6. \A m, n \in DOMAIN new : at(m) = at(n) => m = n
    BY <1>1, <1>4
<1>7. ASSUME NEW p \in DOMAIN ls, p # i PROVE \E m \in DOMAIN new : new[m] = ls[p]
  <2>1. CASE p < i
    <3>1. p \in 1 .. Len(ls) - 1
        BY <1>1, <2>1
    <3> QED
        BY <1>3, <1>4, <2>1, <3>1
  <2>2. CASE p > i
    <3>1. p - 1 \in 1 .. Len(ls) - 1 /\ ~(p - 1 < i) /\ (p - 1) + 1 = p
        BY <1>1, <2>2
    <3>2. new[p - 1] = ls[p]
        BY <1>3, <3>1
    <3> QED
        BY <1>4, <3>1, <3>2
  <2> QED
      BY <1>1, <1>7, <2>1, <2>2
<1> HIDE DEF at
<1>8. \A m, n \in DOMAIN new :
         \/ new[m].type = "paralysing" /\ new[n].type = "paralysing" /\ new[m].n = new[n].n
         \/ new[m].type = "building" /\ new[n].type = "building"
         => m = n
    BY <1>5, <1>6 DEF Carries
<1>9. CASE ls[i].type = "paralysing"
  <2>1. \A m \in DOMAIN new : new[m].type = "paralysing" => new[m].n \in tokens \ {ls[i].n}
      BY <1>5, <1>9 DEF Carries
  <2>2. \A t \in tokens \ {ls[i].n} :
           \E m \in DOMAIN new : new[m].type = "paralysing" /\ new[m].n = t
    <3> SUFFICES ASSUME NEW t \in tokens, t # ls[i].n
                 PROVE  \E m \in DOMAIN new : new[m].type = "paralysing" /\ new[m].n = t
        OBVIOUS
    <3>1. PICK p \in DOMAIN ls : ls[p].type = "paralysing" /\ ls[p].n = t
        BY DEF Carries
    <3> QED
        BY <1>7, <3>1
  <2>3. Carries(new, tokens \ {ls[i].n})
      BY <1>3, <1>8, <2>1, <2>2 DEF Carries
  <2> QED
      BY <1>2, <1>5, <1>9, <2>3
<1>10. CASE ls[i].type = "building"
  <2>1. \A m \in DOMAIN new : new[m].type = "paralysing" => new[m].n \in tokens
      BY <1>5 DEF Carries
  <2>2. ASSUME NEW t \in tokens
        PROVE  \E m \in DOMAIN new : new[m].type = "paralysing" /\ new[m].n = t
    <3>1. PICK p \in DOMAIN ls : ls[p].type = "paralysing" /\ ls[p].n = t
        BY DEF Carries
    <3> QED
        BY <1>7, <1>10, <3>1
  <2>3. Carries(new, tokens)
      BY <1>3, <1>8, <2>1, <2>2 DEF Carries
  <2>4. \A m \in DOMAIN new : new[m].type # "building"
      BY <1>5, <1>10 DEF Carries
  <2> QED
      BY <1>2, <1>5, <1>10, <2>3, <2>4
<1> QED
    BY <1>2, <1>5, <1>9, <1>10

\* A construction that goes on.
LEMMA CarriesBuilt ==
    ASSUME NEW ls, NEW tokens, Carries(ls, tokens), NEW i \in DOMAIN ls,
           ls[i].type = "building", NEW x \in Nat
    PROVE  /\ Carries([ls EXCEPT ![i].n = x], tokens)
           /\ DOMAIN [ls EXCEPT ![i].n = x] = DOMAIN ls
           /\ \A m \in DOMAIN ls :
                [ls EXCEPT ![i].n = x][m] = IF m = i THEN Layer("building", x) ELSE ls[m]
<1>1. ls \in Seq(Layers) /\ Len(ls) \in Nat /\ DOMAIN ls = 1 .. Len(ls) /\ ls[i] \in Layers
    BY LayersHave DEF Carries
<1>2. PICK new : new = [ls EXCEPT ![i].n = x]
    OBVIOUS
<1>3. [ls[i] EXCEPT !.n = x] = Layer("building", x) /\ Layer("building", x) \in Layers
    BY <1>1 DEF Layers, Layer
<1>4. new = [ls EXCEPT ![i] = Layer("building", x)]
    BY <1>2, <1>3
<1>5. /\ new \in Seq(Layers) /\ DOMAIN new = DOMAIN ls
      /\ \A m \in DOMAIN ls : new[m] = IF m = i THEN Layer("building", x) ELSE ls[m]
    BY <1>1, <1>3, <1>4, ExceptSeq
<1>6. \A m \in DOMAIN ls : /\ new[m].type = ls[m].type
                           /\ ls[m].type = "paralysing" => new[m].n = ls[m].n
    BY <1>5 DEF Layer
<1>7. Carries(new, tokens)
    BY <1>5, <1>6 DEF Carries
<1> QED
    BY <1>2, <1>5, <1>7

-----------------------------------------------------------------------------
(* The invariant *)

\* The fuses that point to a unit
FusesOf(u) == {t \in DOMAIN fuseMap : fuseMap[t] = u}

\* Who is in the list is a unit whose layers carry the fuses that point to it.
PeopleOK ==
    /\ units \in Seq(Units) /\ IsInjective(units)
    /\ DOMAIN core = Units
    /\ \A u \in Units :
          IF u \in Alive
          THEN /\ core[u] \in [kind : Kinds, hp : Nat \ {0}, arms : Kinds, layers : Seq(Layers)]
               /\ Carries(core[u].layers, FusesOf(u))
          ELSE core[u] = Nobody

\* The queue has the fuses of the map and the removed ones, in the order in which
\* their tokens were given out.
FusesOK ==
    /\ lastFuseToken \in Tokens
    /\ IsQueue(fuseQueue, Tokens) /\ fuseQueue = [p \in DOMAIN fuseQueue |-> fuseQueue[p]]
    /\ DOMAIN fuseMap \subseteq Tokens
    /\ \A t \in DOMAIN fuseMap : fuseMap[t] \in Alive
    /\ Queued(fuseQueue) = DOMAIN fuseMap \cup removedFuses
    /\ DOMAIN fuseMap \cap removedFuses = {}
    /\ InAgeOrder(fuseQueue, lastFuseToken) /\ NoGaps(fuseQueue, lastFuseToken)
    /\ fatal = FALSE

\* No fuse is late, none is set for later than one that would be set now, and
\* between two ticks none is due.
FuseTimes ==
    \A p \in DOMAIN fuseQueue :
        /\ timeNow <= Priority(p) /\ Priority(p) <= timeNow + FuseDelay
        /\ phase \in {"idle", "new"} => timeNow < Priority(p)

\* The types of everything else
RestOK ==
    /\ timeNow \in 0 .. MaxTime /\ phase \in Phases
    /\ ballistics \in Seq(0 .. MaxTime)
    /\ beams \in Seq([source : Alive \cup {End}, end : Nat])
    /\ newEffects \in Nat /\ effects \in 0 .. MaxEffects
    /\ {j, k} \subseteq Units \cup {End} /\ step \in Nat /\ it \in Nat \ {0}
    /\ effectHappened \in BOOLEAN
    /\ turn \in [Units -> {"new", "due", "done", "twice"}]

\* The inductive invariant
IInv == PeopleOK /\ FusesOK /\ FuseTimes /\ RestOK

\* The invariant says all that the types, NoFatal and ParalysisFuses say.
LEMMA InvariantImplies ==
    IInv => TypeOK /\ NoFatal /\ ParalysisFuses
<1> SUFFICES ASSUME IInv PROVE TypeOK /\ NoFatal /\ ParalysisFuses
    OBVIOUS
<1>1. /\ removedFuses \subseteq Tokens
      /\ Range(fuseMap) \subseteq Alive
    BY QueueHas DEF IInv, FusesOK, Range
<1>2. ASSUME NEW u \in Alive, NEW i \in LayersOf(u, "paralysing")
      PROVE  /\ core[u].layers[i].n \in Tokens
             /\ core[u].layers[i].n \in DOMAIN fuseMap /\ fuseMap[core[u].layers[i].n] = u
  <2>1. u \in Units
    <3>1. PICK n \in DOMAIN units : units[n] = u
        BY DEF Alive, Range
    <3> QED
        BY <3>1, LenProperties, ElementOfSeq DEF IInv, PeopleOK
  <2>2. Carries(core[u].layers, FusesOf(u))
      BY <2>1 DEF IInv, PeopleOK
  <2>3. core[u].layers[i].n \in FusesOf(u)
      BY <2>2 DEF LayersOf, Carries
  <2> QED
      BY <2>3 DEF IInv, FusesOK, FusesOf
<1>3. TypeOK
  <2>1. \A u \in Units :
          IF u \in Alive
          THEN /\ core[u] \in [kind : Kinds, hp : Nat \ {0}, arms : Kinds, layers : Seq(Layers)]
               /\ \A i \in LayersOf(u, "paralysing") : core[u].layers[i].n \in Tokens
          ELSE core[u] = Nobody
      BY <1>2 DEF IInv, PeopleOK
  <2> QED
      BY <1>1, <2>1 DEF TypeOK, IInv, PeopleOK, FusesOK, RestOK
<1>4. TablesAgree
  <2>1. ASSUME NEW p \in DOMAIN fuseQueue
        PROVE  /\ IsInjective(fuseQueue[p])
               /\ \A q \in DOMAIN fuseQueue \ {p} :
                    Range(fuseQueue[p]) \cap Range(fuseQueue[q]) = {}
    <3>1. IsInjective(fuseQueue[p])
        BY QueuedOnce DEF IInv, FusesOK, IsInjective
    <3>2. ASSUME NEW q \in DOMAIN fuseQueue \ {p},
                 NEW t \in Range(fuseQueue[p]) \cap Range(fuseQueue[q])
          PROVE  FALSE
      <4>1. PICK m \in DOMAIN fuseQueue[p] : fuseQueue[p][m] = t
          BY DEF Range
      <4>2. PICK n \in DOMAIN fuseQueue[q] : fuseQueue[q][n] = t
          BY DEF Range
      <4> QED
          BY <4>1, <4>2, QueuedOnce DEF IInv, FusesOK
    <3> QED
        BY <3>1, <3>2
  <2> QED
      BY <2>1 DEF IInv, FusesOK, TablesAgree
<1>5. ASSUME NEW u \in Alive
      PROVE  /\ \A i \in LayersOf(u, "paralysing") :
                   core[u].layers[i].n \in DOMAIN fuseMap /\ fuseMap[core[u].layers[i].n] = u
             /\ \A i, m \in LayersOf(u, "paralysing") :
                   core[u].layers[m].n = core[u].layers[i].n => m = i
             /\ \A t \in DOMAIN fuseMap : fuseMap[t] = u =>
                   \E i \in LayersOf(u, "paralysing") : core[u].layers[i].n = t
  <2>1. u \in Units
    <3>1. PICK n \in DOMAIN units : units[n] = u
        BY DEF Alive, Range
    <3> QED
        BY <3>1, LenProperties, ElementOfSeq DEF IInv, PeopleOK
  <2>2. Carries(core[u].layers, FusesOf(u))
      BY <2>1 DEF IInv, PeopleOK
  <2>3. \A i, m \in LayersOf(u, "paralysing") :
           core[u].layers[m].n = core[u].layers[i].n => m = i
      BY <2>2 DEF LayersOf, Carries
  <2>4. \A t \in DOMAIN fuseMap : fuseMap[t] = u =>
                   \E i \in LayersOf(u, "paralysing") : core[u].layers[i].n = t
      BY <2>2 DEF LayersOf, Carries, FusesOf
  <2> QED
      BY <1>2, <2>3, <2>4
<1>6. ParalysisFuses
    BY <1>4, <1>5 DEF ParalysisFuses
<1> QED
    BY <1>3, <1>6 DEF NoFatal, IInv, FusesOK

\* The units in the list are units.
LEMMA AliveAre ==
    ASSUME units \in Seq(Units)
    PROVE  /\ Alive \subseteq Units /\ Alive = {units[n] : n \in DOMAIN units}
           /\ Len(units) \in Nat /\ DOMAIN units = 1 .. Len(units)
           /\ End \notin Alive
<1>1. Len(units) \in Nat /\ DOMAIN units = 1 .. Len(units)
    BY LenProperties
<1>2. Alive = {units[n] : n \in DOMAIN units}
    BY DEF Alive, Range
<1>3. Alive \subseteq Units
    BY <1>1, <1>2, ElementOfSeq
<1> QED
    BY <1>1, <1>2, <1>3, WorldAssumption DEF End

\* The world starts with units that were never touched, and no fuses.
LEMMA InvariantHoldsAtFirst ==
    Init => IInv
<1> SUFFICES ASSUME Init PROVE IInv
    OBVIOUS
<1>1. /\ Len(InitialUnits) \in Nat /\ DOMAIN InitialUnits = 1 .. Len(InitialUnits)
      /\ \A u \in DOMAIN InitialUnits : u \in Units /\ InitialUnits[u] \in Kinds
    BY WorldAssumption, LenProperties, ElementOfSeq
<1>2. units = [u \in 1 .. Len(InitialUnits) |-> u]
    BY <1>1 DEF Init
<1>3. units \in Seq(Units) /\ IsInjective(units) /\ Alive = DOMAIN InitialUnits
  <2>1. [u \in 1 .. Len(InitialUnits) |-> u] \in Seq(Units)
      BY <1>1, IsASeq
  <2> QED
      BY <1>1, <1>2, <2>1 DEF IsInjective, Alive, Range
<1>4. DOMAIN fuseMap = {} /\ \A u : FusesOf(u) = {}
    BY DEF Init, FusesOf
<1>5. \A u \in Units : core[u] =
         IF u \in Alive
         THEN Unit(InitialUnits[u], MaxHitPoints[InitialUnits[u]], InitialUnits[u], <<>>)
         ELSE Nobody
    BY <1>3 DEF Init
<1>6. DOMAIN core = Units
    BY DEF Init
<1>7. PeopleOK
  <2>1. ASSUME NEW u \in Alive
        PROVE  Unit(InitialUnits[u], MaxHitPoints[InitialUnits[u]], InitialUnits[u], <<>>)
                 \in [kind : Kinds, hp : Nat \ {0}, arms : Kinds, layers : Seq(Layers)]
    <3>1. InitialUnits[u] \in Kinds /\ MaxHitPoints[InitialUnits[u]] \in Nat \ {0}
        BY <1>1, <1>3, WorldAssumption
    <3>2. <<>> \in Seq(Layers)
        BY EmptySeq
    <3> QED
        BY <3>1, <3>2 DEF Unit
  <2>2. \A u \in Alive : core[u].layers = <<>>
    <3> SUFFICES ASSUME NEW u \in Alive PROVE core[u].layers = <<>>
        OBVIOUS
    <3>1. u \in Units
        BY <1>1, <1>3
    <3>2. core[u] = Unit(InitialUnits[u], MaxHitPoints[InitialUnits[u]], InitialUnits[u], <<>>)
        BY <1>5, <3>1
    <3> QED
        BY <3>2 DEF Unit
  <2>3. ASSUME NEW u \in Units
        PROVE  IF u \in Alive
               THEN /\ core[u] \in [kind : Kinds, hp : Nat \ {0}, arms : Kinds, layers : Seq(Layers)]
                    /\ Carries(core[u].layers, FusesOf(u))
               ELSE core[u] = Nobody
    <3>1. CASE u \in Alive
      <4>1. Carries(core[u].layers, FusesOf(u))
          BY <1>4, <2>2, <3>1, CarriesNothing
      <4> QED
          BY <1>5, <2>1, <3>1, <4>1
    <3>2. CASE u \notin Alive
        BY <1>5, <3>2
    <3> QED
        BY <3>1, <3>2
  <2> QED
      BY <1>3, <1>6, <2>3 DEF PeopleOK
<1>8. DOMAIN fuseQueue = {} /\ removedFuses = {}
    BY DEF Init, EmptyQueue
<1>9. FusesOK
  <2>1. Queued(fuseQueue) = {}
      BY <1>8 DEF Queued
  <2>2. lastFuseToken \in Tokens
      BY WorldAssumption DEF Init, Tokens
  <2> QED
      BY <1>4, <1>8, <2>1, <2>2 DEF FusesOK, IsQueue, InAgeOrder, NoGaps, Init
<1>10. FuseTimes
    BY <1>8 DEF FuseTimes
<1>11. RestOK
  <2>1. <<>> \in Seq(0 .. MaxTime) /\ <<>> \in Seq([source : Alive \cup {End}, end : Nat])
      BY EmptySeq
  <2>2. 0 \in 0 .. MaxTime /\ 0 \in 0 .. MaxEffects
      BY GameAssumption
  <2>3. turn \in [Units -> {"new", "due", "done", "twice"}]
      BY DEF Init
  <2>4. {j, k} \subseteq Units \cup {End} /\ step \in Nat /\ it \in Nat \ {0} /\ newEffects \in Nat
      BY DEF Init
  <2>5. phase \in Phases /\ effectHappened \in BOOLEAN
      BY DEF Init, Phases
  <2> QED
      BY <2>1, <2>2, <2>3, <2>4, <2>5 DEF Init, RestOK
<1> QED
    BY <1>7, <1>9, <1>10, <1>11 DEF IInv

-----------------------------------------------------------------------------
(* The steps that leave units and fuses alone *)

\* The queue is empty, or it is not.
LEMMA SomeQueued ==
    ASSUME FusesOK
    PROVE  fuseQueue # EmptyQueue <=> DOMAIN fuseQueue # {}
BY DEF FusesOK, EmptyQueue

\* What is not due is set for later.
LEMMA NothingDue ==
    ASSUME FusesOK, timeNow \in Nat, phase = "fuses", ~Due
    PROVE  \A p \in DOMAIN fuseQueue : timeNow < Priority(p)
<1> SUFFICES ASSUME NEW p \in DOMAIN fuseQueue PROVE timeNow < Priority(p)
    OBVIOUS
<1>1. fuseQueue # EmptyQueue
    BY SomeQueued
<1>2. /\ TopPriority(fuseQueue) \in DOMAIN fuseQueue
      /\ TopPriority(fuseQueue) >= p
      /\ Top(fuseQueue).time = Priority(TopPriority(fuseQueue))
    BY TopIs DEF FusesOK
<1>3. ~(Top(fuseQueue).time <= timeNow)
    BY <1>1 DEF Due
<1>4. TopPriority(fuseQueue) \in Int /\ p \in Int
    BY <1>2, QueueHas, LastTimeAssumption DEF FusesOK
<1> QED
    BY <1>2, <1>3, <1>4, LastTimeAssumption DEF Priority

\* The beams' sources and the fuses' units depend on the list of units only.
LEMMA NobodyMoves ==
    ASSUME IInv, UNCHANGED <<people, fuses, fatal>>
    PROVE  PeopleOK' /\ FusesOK'
<1>1. UNCHANGED <<units, core, lastFuseToken, fuseQueue, fuseMap, removedFuses, fatal>>
    BY DEF people, fuses
<1>2. Alive' = Alive /\ \A u : FusesOf(u)' = FusesOf(u)
    BY <1>1 DEF Alive, FusesOf
<1>3. PeopleOK'
    BY <1>1, <1>2 DEF IInv, PeopleOK
<1>4. FusesOK'
    BY <1>1, <1>2 DEF IInv, FusesOK
<1> QED
    BY <1>3, <1>4

\* The time passes.
LEMMA TimePasses ==
    ASSUME IInv, UNCHANGED <<people, fuses, fatal>>,
           \/ timeNow' = timeNow /\ (phase' \in {"idle", "new"} => phase \in {"idle", "new"})
           \/ timeNow' = timeNow /\ phase = "fuses" /\ ~Due
           \/ timeNow' = timeNow + 1 /\ phase = "idle" /\ phase' = "units"
    PROVE  FuseTimes'
<1>1. fuseQueue' = fuseQueue
    BY DEF fuses
<1>2. timeNow \in Nat
    BY GameAssumption DEF IInv, RestOK
<1>3. \A p \in DOMAIN fuseQueue : Priority(p) \in Int
    BY QueueHas, LastTimeAssumption DEF IInv, FusesOK, Priority
<1>4. FuseDelay \in Nat
    BY GameAssumption
<1>5. CASE timeNow' = timeNow /\ (phase' \in {"idle", "new"} => phase \in {"idle", "new"})
    BY <1>1, <1>5 DEF IInv, FuseTimes
<1>6. CASE timeNow' = timeNow /\ phase = "fuses" /\ ~Due
  <2>1. \A p \in DOMAIN fuseQueue : timeNow < Priority(p)
      BY <1>2, <1>6, NothingDue DEF IInv
  <2> QED
      BY <1>1, <1>6, <2>1 DEF IInv, FuseTimes
<1>7. CASE timeNow' = timeNow + 1 /\ phase = "idle" /\ phase' = "units"
  <2>1. \A p \in DOMAIN fuseQueue : timeNow < Priority(p) /\ Priority(p) <= timeNow + FuseDelay
      BY <1>7 DEF IInv, FuseTimes
  <2>2. \A p \in DOMAIN fuseQueue :
           timeNow + 1 <= Priority(p) /\ Priority(p) <= (timeNow + 1) + FuseDelay
      BY <1>2, <1>3, <1>4, <2>1
  <2> QED
      BY <1>1, <1>7, <2>2 DEF FuseTimes
<1> QED
    BY <1>5, <1>6, <1>7

\* An iterator moves along the list.
LEMMA SuccessorIs ==
    ASSUME units \in Seq(Units), NEW u
    PROVE  Successor(u) \in Alive \cup {End}
<1>1. CASE u \notin Alive \/ u = Last(units)
    BY <1>1 DEF Successor
<1>2. CASE u \in Alive /\ u # Last(units)
  <2> DEFINE n == CHOOSE n \in DOMAIN units : units[n] = u
  <2>1. /\ Alive = {units[m] : m \in DOMAIN units}
        /\ Len(units) \in Nat /\ DOMAIN units = 1 .. Len(units)
      BY AliveAre
  <2>2. n \in DOMAIN units /\ units[n] = u
      BY <1>2, <2>1
  <2>3. Last(units) = units[Len(units)]
      BY DEF Last
  <2>4. n # Len(units)
      BY <1>2, <2>2, <2>3
  <2>5. Successor(u) = units[1 + n]
      BY <1>2 DEF Successor
  <2> HIDE DEF n
  <2>6. 1 + n \in DOMAIN units
      BY <2>1, <2>2, <2>4
  <2> QED
      BY <2>1, <2>5, <2>6
<1> QED
    BY <1>1, <1>2

\* The steps that do not touch units or fuses.
PlainStep ==
    \/ StartTick(MaxTime)
    \/ HoldFire \/ Advance \/ UnitsDone \/ Fly \/ BallisticsDone \/ RemoveBeam \/ Misses
    \/ BeamsDone \/ EffectsDone \/ FusesDone \/ NewDone
    \/ UpdateLayers \/ FireCannon \/ FireParalyzer \/ Collide

\* They leave them as they are, and time passes only between two ticks.
LEMMA PlainStepsLeave ==
    ASSUME PlainStep
    PROVE  /\ UNCHANGED <<people, fuses, fatal>>
           /\ \/ timeNow' = timeNow /\ (phase' \in {"idle", "new"} => phase \in {"idle", "new"})
              \/ timeNow' = timeNow /\ phase = "fuses" /\ ~Due
              \/ timeNow' = timeNow + 1 /\ phase = "idle" /\ phase' = "units"
<1>1. CASE StartTick(MaxTime)
    BY <1>1 DEF StartTick
<1>2. CASE HoldFire \/ Advance \/ Fly \/ RemoveBeam \/ Misses
    BY <1>2 DEF HoldFire, Advance, Fly, RemoveBeam, Misses, clock, people
<1>3. CASE UnitsDone
    BY <1>3 DEF UnitsDone
<1>4. CASE BallisticsDone \/ BeamsDone \/ EffectsDone
    BY <1>4 DEF BallisticsDone, BeamsDone, EffectsDone, Turn
<1>5. CASE FusesDone
    BY <1>5 DEF FusesDone
<1>6. CASE NewDone
    BY <1>6 DEF NewDone
<1>7. CASE UpdateLayers
    BY <1>7 DEF UpdateLayers
<1>8. CASE FireCannon \/ FireParalyzer \/ Collide
    BY <1>8 DEF FireCannon, FireParalyzer, Collide, clock, people
<1> QED
    BY <1>1, <1>2, <1>3, <1>4, <1>5, <1>6, <1>7, <1>8 DEF PlainStep

\* What is neither people nor fuses keeps its type in these steps.
LEMMA PlainStepsKeepTheRest ==
    ASSUME IInv, PlainStep
    PROVE  RestOK'
<1>1. UNCHANGED <<units, core>> /\ Alive' = Alive
    BY PlainStepsLeave DEF people, Alive
<1>2. /\ timeNow \in 0 .. MaxTime /\ phase \in Phases
      /\ ballistics \in Seq(0 .. MaxTime)
      /\ beams \in Seq([source : Alive \cup {End}, end : Nat])
      /\ newEffects \in Nat /\ effects \in 0 .. MaxEffects
      /\ {j, k} \subseteq Units \cup {End} /\ step \in Nat /\ it \in Nat \ {0}
      /\ effectHappened \in BOOLEAN
      /\ turn \in [Units -> {"new", "due", "done", "twice"}]
    BY DEF IInv, RestOK
<1>3. units \in Seq(Units)
    BY DEF IInv, PeopleOK
<1>4. /\ Alive \subseteq Units
      /\ units # <<>> => Head(units) \in Alive
  <2>1. units # <<>> => Head(units) = units[1] /\ 1 \in DOMAIN units
    <3>1. units # <<>> => Len(units) \in Nat \ {0}
        BY <1>3, EmptySeq
    <3>2. DOMAIN units = 1 .. Len(units)
        BY <1>3, LenProperties
    <3> QED
        BY <1>3, <3>1, <3>2
  <2> QED
      BY <1>3, <2>1, AliveAre
<1>5. MaxTime \in Nat /\ MaxEffects \in Nat /\ BeamDuration \in Nat
    BY GameAssumption
<1>6. \A u : Successor(u) \in Units \cup {End}
    BY <1>3, <1>4, SuccessorIs
<1>7. CASE StartTick(MaxTime)
  <2>1. timeNow + 1 \in 0 .. MaxTime
      BY <1>2, <1>5, <1>7 DEF StartTick
  <2>2. {j', k'} \subseteq Units \cup {End}
      BY <1>4, <1>6, <1>7 DEF StartTick
  <2>3. turn' \in [Units -> {"new", "due", "done", "twice"}]
      BY <1>7 DEF StartTick
  <2>4. phase' = "units" /\ step' = 0 /\ timeNow' = timeNow + 1
        /\ UNCHANGED <<ballistics, beams, newEffects, effects, it, effectHappened>>
      BY <1>7 DEF StartTick, shots, areas
  <2> HIDE DEF End
  <2> QED
      BY <1>1, <1>2, <2>1, <2>2, <2>3, <2>4 DEF RestOK, Phases
<1>8. CASE HoldFire \/ Advance
  <2>1. {j', k'} \subseteq Units \cup {End}
      BY <1>2, <1>4, <1>6, <1>8 DEF HoldFire, Advance
  <2>2. step' \in Nat
      BY <1>2, <1>8 DEF HoldFire, Advance
  <2>3. UNCHANGED <<timeNow, phase, turn, ballistics, beams, newEffects, effects, it, effectHappened>>
      BY <1>8 DEF HoldFire, Advance, clock, shots, areas
  <2> QED
      BY <1>1, <1>2, <2>1, <2>2, <2>3 DEF RestOK
<1>9. CASE UnitsDone
  <2>1. turn' \in [Units -> {"new", "due", "done", "twice"}]
      BY <1>9 DEF UnitsDone
  <2>2. phase' = "ballistics" /\ it' = 1
        /\ UNCHANGED <<timeNow, ballistics, beams, newEffects, effects, j, k, step, effectHappened>>
      BY <1>9 DEF UnitsDone, shots, areas
  <2> QED
      BY <1>1, <1>2, <2>1, <2>2 DEF RestOK, Phases
<1>10. CASE BallisticsDone \/ BeamsDone \/ EffectsDone \/ FusesDone \/ NewDone
  <2>1. phase' \in Phases /\ it' \in Nat \ {0} /\ effectHappened' \in BOOLEAN
    <3>1. CASE BallisticsDone \/ BeamsDone \/ EffectsDone
        BY <1>2, <3>1 DEF BallisticsDone, BeamsDone, EffectsDone, Turn, Phases
    <3>2. CASE FusesDone
        BY <1>2, <3>2 DEF FusesDone, Phases
    <3>3. CASE NewDone
        BY <1>2, <3>3 DEF NewDone, Phases, loops
    <3> QED
        BY <1>10, <3>1, <3>2, <3>3
  <2>2. UNCHANGED <<timeNow, turn, ballistics, beams, newEffects, effects, j, k, step>>
      BY <1>10
      DEF BallisticsDone, BeamsDone, EffectsDone, FusesDone, NewDone, Turn, shots, areas, loops
  <2> QED
      BY <1>1, <1>2, <2>1, <2>2 DEF RestOK
<1>11. CASE Fly \/ Misses
  <2>1. it' \in Nat \ {0}
      BY <1>2, <1>11 DEF Fly, Misses
  <2>2. UNCHANGED <<timeNow, phase, turn, ballistics, beams, newEffects, effects, j, k, step,
                    effectHappened>>
      BY <1>11 DEF Fly, Misses, clock, shots, areas
  <2> QED
      BY <1>1, <1>2, <2>1, <2>2 DEF RestOK
<1>12. CASE RemoveBeam
  <2>1. it \in 1 .. Len(beams)
    <3>1. Len(beams) \in Nat
        BY <1>2, LenProperties
    <3> QED
        BY <1>2, <1>12, <3>1 DEF RemoveBeam
  <2>2. beams' \in Seq([source : Alive \cup {End}, end : Nat])
      BY <1>2, <1>12, <2>1, RemovedAt DEF RemoveBeam
  <2>3. UNCHANGED <<timeNow, phase, turn, ballistics, newEffects, effects, j, k, step, it,
                    effectHappened>>
      BY <1>12 DEF RemoveBeam, clock, areas, loops
  <2> QED
      BY <1>1, <1>2, <2>2, <2>3 DEF RestOK
<1>13. CASE UpdateLayers
  <2>1. turn' \in [Units -> {"new", "due", "done", "twice"}]
      BY <1>2, <1>13 DEF UpdateLayers, Visited
  <2>2. step' = 1 /\ UNCHANGED <<timeNow, phase, ballistics, beams, newEffects, effects, j, k, it,
                                 effectHappened>>
      BY <1>13 DEF UpdateLayers, shots, areas
  <2> QED
      BY <1>1, <1>2, <2>1, <2>2 DEF RestOK
<1>14. CASE FireCannon
  <2>1. ballistics' \in Seq(0 .. MaxTime)
      BY <1>2, <1>14, AppendProperties DEF FireCannon
  <2>2. step' \in Nat
      BY <1>2, <1>14 DEF FireCannon
  <2>3. UNCHANGED <<timeNow, phase, turn, beams, newEffects, effects, j, k, it, effectHappened>>
      BY <1>14 DEF FireCannon, clock, areas
  <2> QED
      BY <1>1, <1>2, <2>1, <2>2, <2>3 DEF RestOK
<1>15. CASE FireParalyzer
  <2>1. j \in Alive
    <3>1. step \in DOMAIN Arms
        BY <1>15 DEF FireParalyzer, AtWeapon
    <3>2. DOMAIN <<>> = {}
        OBVIOUS
    <3> QED
        BY <3>1, <3>2 DEF Arms
  <2>2. [source |-> j, end |-> timeNow + BeamDuration] \in [source : Alive \cup {End}, end : Nat]
      BY <1>2, <1>5, <2>1
  <2>3. beams' \in Seq([source : Alive \cup {End}, end : Nat])
      BY <1>2, <1>15, <2>2, AppendProperties DEF FireParalyzer
  <2>4. step' \in Nat
      BY <1>2, <1>15 DEF FireParalyzer
  <2>5. UNCHANGED <<timeNow, phase, turn, ballistics, newEffects, effects, j, k, it, effectHappened>>
      BY <1>15 DEF FireParalyzer, clock, areas
  <2> QED
      BY <1>1, <1>2, <2>3, <2>4, <2>5 DEF RestOK
<1>16. CASE Collide
  <2>1. it \in 1 .. Len(ballistics)
    <3>1. Len(ballistics) \in Nat
        BY <1>2, LenProperties
    <3> QED
        BY <1>2, <1>16, <3>1 DEF Collide, Collides
  <2>2. ballistics' \in Seq(0 .. MaxTime)
      BY <1>2, <1>16, <2>1, RemovedAt DEF Collide
  <2>3. newEffects' \in Nat
      BY <1>2, <1>16 DEF Collide
  <2>4. UNCHANGED <<timeNow, phase, turn, beams, effects, j, k, step, it, effectHappened>>
      BY <1>16 DEF Collide, clock, loops
  <2> QED
      BY <1>1, <1>2, <2>2, <2>3, <2>4 DEF RestOK
<1> QED
    BY <1>7, <1>8, <1>9, <1>10, <1>11, <1>12, <1>13, <1>14, <1>15, <1>16 DEF PlainStep

\* These steps keep the invariant.
LEMMA PlainStepsKeep ==
    ASSUME IInv, PlainStep
    PROVE  IInv'
BY PlainStepsLeave, NobodyMoves, TimePasses, PlainStepsKeepTheRest DEF IInv

-----------------------------------------------------------------------------
(* The steps that do *)

\* What the invariant says of a unit, in short.
UnitOK(c, tokens) ==
    /\ c \in [kind : Kinds, hp : Nat \ {0}, arms : Kinds, layers : Seq(Layers)]
    /\ Carries(c.layers, tokens)

\* The invariant, said of one unit.
LEMMA EveryUnitOK ==
    ASSUME PeopleOK
    PROVE  /\ Alive \subseteq Units
           /\ \A u \in Alive : UnitOK(core[u], FusesOf(u))
BY AliveAre DEF PeopleOK, UnitOK

\* One unit changes.
LEMMA OneUnitChanges ==
    ASSUME PeopleOK, units' = units, DOMAIN core' = Units, NEW u \in Alive,
           UnitOK(core'[u], FusesOf(u)'),
           \A v \in Units \ {u} : core'[v] = core[v] /\ FusesOf(v)' = FusesOf(v)
    PROVE  PeopleOK'
<1>1. Alive' = Alive
    BY DEF Alive
<1>2. ASSUME NEW v \in Units
      PROVE  IF v \in Alive THEN UnitOK(core'[v], FusesOf(v)') ELSE core'[v] = Nobody
  <2>1. CASE v = u
      BY <2>1
  <2>2. CASE v # u
      BY <2>2 DEF PeopleOK, UnitOK
  <2> QED
      BY <2>1, <2>2
<1> QED
    BY <1>1, <1>2 DEF PeopleOK, UnitOK

\* The entry at the top of the queue goes.
LEMMA TopGoes ==
    ASSUME IInv, Due, fuseQueue' = Pop(fuseQueue), UNCHANGED <<timeNow, phase, lastFuseToken>>
    PROVE  /\ IsQueue(fuseQueue', Tokens) /\ fuseQueue' = [p \in DOMAIN fuseQueue' |-> fuseQueue'[p]]
           /\ Top(fuseQueue).token \in Queued(fuseQueue)
           /\ Queued(fuseQueue') = Queued(fuseQueue) \ {Top(fuseQueue).token}
           /\ InAgeOrder(fuseQueue', lastFuseToken') /\ NoGaps(fuseQueue', lastFuseToken')
           /\ FuseTimes'
<1>1. DOMAIN fuseQueue # {}
    BY SomeQueued DEF Due, IInv
<1>2. /\ IsQueue(fuseQueue', Tokens) /\ DOMAIN fuseQueue' \subseteq DOMAIN fuseQueue
      /\ Queued(fuseQueue') = Queued(fuseQueue) \ {Top(fuseQueue).token}
      /\ InAgeOrder(fuseQueue', lastFuseToken) /\ NoGaps(fuseQueue', lastFuseToken)
    BY <1>1, Popped DEF IInv, FusesOK
<1>3. Top(fuseQueue).token \in Queued(fuseQueue)
    BY <1>1, TopIs DEF IInv, FusesOK
<1>4. FuseTimes'
    BY <1>2 DEF IInv, FuseTimes
<1>5. fuseQueue' = [p \in DOMAIN fuseQueue' |-> fuseQueue'[p]]
    BY DEF Pop, Restrict, IInv, FusesOK
<1> QED
    BY <1>2, <1>3, <1>4, <1>5

\* Dropping the entry of a removed fuse keeps the invariant: its token may be given
\* out again.
LEMMA SkipRemovedKeeps ==
    ASSUME IInv, SkipRemoved
    PROVE  IInv'
<1>1. /\ UNCHANGED <<timeNow, phase, turn, units, core, ballistics, beams, newEffects, effects>>
      /\ UNCHANGED <<lastFuseToken, fuseMap, j, k, step, it, effectHappened, fatal>>
      /\ Due /\ Top(fuseQueue).token \in removedFuses /\ fuseQueue' = Pop(fuseQueue)
      /\ removedFuses' = removedFuses \ {Top(fuseQueue).token}
    BY DEF SkipRemoved, clock, people, shots, areas, loops
<1>2. Alive' = Alive /\ \A u : FusesOf(u)' = FusesOf(u)
    BY <1>1 DEF Alive, FusesOf
<1>3. PeopleOK'
    BY <1>1, <1>2 DEF IInv, PeopleOK
<1>4. FusesOK'
  <2>1. /\ IsQueue(fuseQueue', Tokens) /\ fuseQueue' = [p \in DOMAIN fuseQueue' |-> fuseQueue'[p]]
        /\ Queued(fuseQueue') = Queued(fuseQueue) \ {Top(fuseQueue).token}
        /\ InAgeOrder(fuseQueue', lastFuseToken') /\ NoGaps(fuseQueue', lastFuseToken')
      BY <1>1, TopGoes
  <2>2. Queued(fuseQueue') = DOMAIN fuseMap \cup removedFuses'
      BY <1>1, <2>1 DEF IInv, FusesOK
  <2> QED
      BY <1>1, <1>2, <2>1, <2>2 DEF IInv, FusesOK
<1>5. FuseTimes'
    BY <1>1, TopGoes
<1>6. RestOK'
    BY <1>1, <1>2 DEF IInv, RestOK
<1> QED
    BY <1>3, <1>4, <1>5, <1>6 DEF IInv

\* A unit that is spawned has no fuses, since none points to its storage.
LEMMA CreateKeeps ==
    ASSUME IInv, Create
    PROVE  IInv'
<1>1. PICK weapon \in DOMAIN Creates :
         /\ Spawn(Creates[weapon], 1, <<Layer("building", 1)>>)
         /\ step' = step + 1
         /\ UNCHANGED <<clock, shots, areas, fuses, j, k, it, effectHappened, fatal>>
    BY DEF Create
<1>2. /\ UNCHANGED <<timeNow, phase, turn, ballistics, beams, newEffects, effects>>
      /\ UNCHANGED <<lastFuseToken, fuseQueue, fuseMap, removedFuses>>
      /\ UNCHANGED <<j, k, it, effectHappened, fatal>>
    BY <1>1 DEF clock, shots, areas, fuses
<1>3. PICK kind \in Kinds : kind = Creates[weapon]
    BY GameAssumption DEF Range
<1>4. PICK new : new = Min(Free)
    OBVIOUS
<1>5. new \in Units /\ new \notin Alive /\ new \notin Range(fuseMap)
  <2>1. Free # {} /\ Free \subseteq Nat
      BY <1>1, WorldAssumption DEF Spawn, Free
  <2>2. new \in Free
      BY <1>4, <2>1, LeastOf
  <2> QED
      BY <2>2 DEF Free
<1>6. PICK made : made = Unit(kind, 1, kind, <<Layer("building", 1)>>)
    OBVIOUS
<1>7. units' = Append(units, new) /\ core' = [core EXCEPT ![new] = made]
    BY <1>1, <1>3, <1>4, <1>6 DEF Spawn
<1>8. UnitOK(made, {})
  <2>1. Carries(<<Layer("building", 1)>>, {})
      BY CarriesNothing
  <2>2. made.layers = <<Layer("building", 1)>>
      BY <1>6 DEF Unit
  <2>3. <<Layer("building", 1)>> \in Seq(Layers)
      BY <2>1 DEF Carries
  <2>4. made \in [kind : Kinds, hp : Nat \ {0}, arms : Kinds, layers : Seq(Layers)]
      BY <1>6, <2>3 DEF Unit
  <2> QED
      BY <2>1, <2>2, <2>4 DEF UnitOK
<1>9. units \in Seq(Units) /\ IsInjective(units) /\ DOMAIN core = Units
    BY DEF IInv, PeopleOK
<1>10. /\ Alive = {units[n] : n \in DOMAIN units}
       /\ Len(units) \in Nat /\ DOMAIN units = 1 .. Len(units)
    BY <1>9, AliveAre
<1>11. /\ units' \in Seq(Units) /\ Len(units') = Len(units) + 1
       /\ \A n \in 1 .. Len(units) : units'[n] = units[n]
       /\ units'[Len(units) + 1] = new
    BY <1>5, <1>7, <1>9, AppendProperties
<1>12. DOMAIN units' = 1 .. Len(units) + 1
    BY <1>11, LenProperties
<1>13. IsInjective(units')
  <2> SUFFICES ASSUME NEW m \in DOMAIN units', NEW n \in DOMAIN units', units'[m] = units'[n]
               PROVE  m = n
      BY DEF IsInjective
  <2>1. \A i \in DOMAIN units' : \/ i = Len(units) + 1 /\ units'[i] = new
                                 \/ i \in DOMAIN units /\ units'[i] = units[i]
      BY <1>10, <1>11, <1>12
  <2>2. \A i \in DOMAIN units : units[i] # new
      BY <1>5, <1>10
  <2> QED
      BY <1>9, <2>1, <2>2 DEF IsInjective
<1>14. Alive' = Alive \cup {new}
  <2>1. \A i \in DOMAIN units' : units'[i] \in Alive \cup {new}
      BY <1>10, <1>11, <1>12
  <2>2. \A i \in DOMAIN units : i \in DOMAIN units' /\ units'[i] = units[i]
      BY <1>10, <1>11, <1>12
  <2>3. Len(units) + 1 \in DOMAIN units'
      BY <1>10, <1>12
  <2>4. Alive' = {units'[n] : n \in DOMAIN units'}
      BY DEF Alive, Range
  <2> QED
      BY <1>10, <1>11, <2>1, <2>2, <2>3, <2>4
<1>15. \A u : FusesOf(u)' = FusesOf(u)
    BY <1>2 DEF FusesOf
<1>16. FusesOf(new) = {}
    BY <1>5 DEF FusesOf, Range
<1>17. PeopleOK'
  <2>1. ASSUME NEW u \in Units
        PROVE  IF u \in Alive' THEN UnitOK(core'[u], FusesOf(u)') ELSE core'[u] = Nobody
    <3>1. CASE u = new
      <4>1. core'[u] = made
          BY <1>5, <1>7, <1>9, <3>1
      <4> QED
          BY <1>8, <1>14, <1>15, <1>16, <3>1, <4>1
    <3>2. CASE u # new
      <4>1. core'[u] = core[u]
          BY <1>7, <1>9, <3>2
      <4>2. IF u \in Alive THEN UnitOK(core[u], FusesOf(u)) ELSE core[u] = Nobody
          BY DEF IInv, PeopleOK, UnitOK
      <4> QED
          BY <1>14, <1>15, <3>2, <4>1, <4>2
    <3> QED
        BY <3>1, <3>2
  <2>2. DOMAIN core' = Units
      BY <1>7, <1>9
  <2> QED
      BY <1>11, <1>13, <2>1, <2>2 DEF PeopleOK, UnitOK
<1>18. FusesOK'
    BY <1>2, <1>14 DEF IInv, FusesOK
<1>19. FuseTimes'
    BY <1>2 DEF IInv, FuseTimes
<1>20. RestOK'
  <2>1. beams \in Seq([source : Alive \cup {End}, end : Nat])
      BY DEF IInv, RestOK
  <2>2. [source : Alive \cup {End}, end : Nat] \subseteq [source : Alive' \cup {End}, end : Nat]
      BY <1>14
  <2>3. beams \in Seq([source : Alive' \cup {End}, end : Nat])
      BY <2>1, <2>2, SeqMonotonic
  <2>4. step' \in Nat
      BY <1>1 DEF IInv, RestOK
  <2> QED
      BY <1>2, <2>3, <2>4 DEF IInv, RestOK
<1> QED
    BY <1>17, <1>18, <1>19, <1>20 DEF IInv

\* A unit under construction has no more hit points than were built.
Within(c) == \A i \in DOMAIN c.layers : c.layers[i].type = "building" => c.hp <= c.layers[i].n

\* Construction takes the layer away or adds to it, as much as to the unit or more.
LEMMA ConstructDoes ==
    ASSUME PeopleOK, NEW u \in Alive, NEW i \in LayersOf(u, "building"), Construct(u, i)
    PROVE  /\ DOMAIN core' = Units /\ \A v \in Units \ {u} : core'[v] = core[v]
           /\ UnitOK(core'[u], FusesOf(u))
           /\ core'[u].kind = core[u].kind /\ core'[u].arms = core[u].arms
           /\ Within(core[u]) => Within(core'[u])
<1> DEFINE max == MaxHitPoints[core[u].kind]
           built == core[u].layers[i].n
           amount == IF built + BuildRate > max THEN max - built ELSE BuildRate
           hp == IF amount = 0 THEN core[u].hp ELSE Repaired(core[u].hp, amount, max)
<1>1. u \in Units /\ DOMAIN core = Units /\ UnitOK(core[u], FusesOf(u))
    BY EveryUnitOK DEF PeopleOK
<1>2. PICK c : c = core[u]
    OBVIOUS
<1>3. /\ c \in [kind : Kinds, hp : Nat \ {0}, arms : Kinds, layers : Seq(Layers)]
      /\ Carries(c.layers, FusesOf(u))
      /\ i \in DOMAIN c.layers /\ c.layers[i].type = "building"
    BY <1>1, <1>2 DEF UnitOK, LayersOf
<1>4. c.layers[i] \in Layers
    BY <1>3, LayersHave
<1>5. max \in Nat \ {0} /\ built \in Nat /\ BuildRate \in Nat \ {0} /\ c.hp \in Nat \ {0}
    BY <1>2, <1>3, <1>4, WorldAssumption, GameAssumption DEF Layers
<1>6. CASE built >= max
  <2>1. core' = WithoutLayer(u, i)
      BY <1>6 DEF Construct
  <2>2. core' = [core EXCEPT ![u].layers = RemoveAt(c.layers, i)]
      BY <1>2, <2>1 DEF WithoutLayer
  <2>3. PICK ls : ls = RemoveAt(c.layers, i)
      OBVIOUS
  <2>4. Carries(ls, FusesOf(u)) /\ \A m \in DOMAIN ls : ls[m].type # "building"
    <3>1. PICK old : old = c.layers
        OBVIOUS
    <3>2. Carries(old, FusesOf(u)) /\ i \in DOMAIN old /\ old[i].type = "building"
        BY <1>3, <3>1
    <3>3. /\ Carries(RemoveAt(old, i), FusesOf(u))
          /\ \A m \in DOMAIN RemoveAt(old, i) : RemoveAt(old, i)[m].type # "building"
        BY <3>2, CarriesOneLess
    <3> QED
        BY <2>3, <3>1, <3>3
  <2>5. core'[u] = [c EXCEPT !.layers = ls]
      BY <1>1, <1>2, <2>2, <2>3
  <2>6. /\ core'[u] \in [kind : Kinds, hp : Nat \ {0}, arms : Kinds, layers : Seq(Layers)]
        /\ core'[u].layers = ls /\ core'[u].kind = c.kind /\ core'[u].arms = c.arms
    <3>1. ls \in Seq(Layers)
        BY <2>4 DEF Carries
    <3> QED
        BY <1>3, <2>5, <3>1
  <2>7. Within(core'[u])
      BY <2>4, <2>6 DEF Within
  <2>8. UnitOK(core'[u], FusesOf(u))
      BY <2>4, <2>6 DEF UnitOK
  <2>9. DOMAIN core' = Units /\ \A v \in Units \ {u} : core'[v] = core[v]
      BY <1>1, <2>2
  <2> QED
      BY <1>2, <2>6, <2>7, <2>8, <2>9
<1>7. CASE ~(built >= max)
  <2>1. core' = [core EXCEPT ![u].layers[i].n = built + amount, ![u].hp = hp]
      BY <1>7 DEF Construct
  <2>2. /\ amount \in Nat /\ built + amount <= max
        /\ hp \in Nat \ {0}
        /\ c.hp <= built => hp <= built + amount
      BY <1>2, <1>5, <1>7 DEF Repaired
  <2> HIDE DEF built, amount, hp, max
  <2>3. PICK ls : ls = [c.layers EXCEPT ![i].n = built + amount]
      OBVIOUS
  <2>4. built + amount \in Nat
      BY <1>5, <2>2
  <2>5. /\ Carries(ls, FusesOf(u)) /\ DOMAIN ls = DOMAIN c.layers
        /\ \A m \in DOMAIN c.layers :
              ls[m] = IF m = i THEN Layer("building", built + amount) ELSE c.layers[m]
      BY <1>3, <2>3, <2>4, CarriesBuilt
  <2>6. core' = [[core EXCEPT ![u].layers[i].n = built + amount] EXCEPT ![u].hp = hp]
      BY <2>1
  <2>7. PICK mid : mid = [core EXCEPT ![u].layers[i].n = built + amount]
      OBVIOUS
  <2>8. DOMAIN mid = Units /\ mid[u] = [c EXCEPT !.layers = ls] /\ \A v \in Units \ {u} : mid[v] = core[v]
      BY <1>1, <1>2, <2>3, <2>7
  <2>9. /\ DOMAIN core' = Units /\ \A v \in Units \ {u} : core'[v] = core[v]
        /\ core'[u] = [[c EXCEPT !.layers = ls] EXCEPT !.hp = hp]
      BY <1>1, <2>6, <2>7, <2>8
  <2>10. /\ core'[u] \in [kind : Kinds, hp : Nat \ {0}, arms : Kinds, layers : Seq(Layers)]
         /\ core'[u].layers = ls /\ core'[u].kind = c.kind /\ core'[u].arms = c.arms
         /\ core'[u].hp = hp
    <3>1. PICK d : d = [c EXCEPT !.layers = ls]
        OBVIOUS
    <3>2. ls \in Seq(Layers)
        BY <2>5 DEF Carries
    <3>3. /\ d \in [kind : Kinds, hp : Nat \ {0}, arms : Kinds, layers : Seq(Layers)]
          /\ d.layers = ls /\ d.kind = c.kind /\ d.arms = c.arms
        BY <1>3, <3>1, <3>2
    <3>4. core'[u] = [d EXCEPT !.hp = hp]
        BY <2>9, <3>1
    <3> QED
        BY <2>2, <3>3, <3>4
  <2>11. UnitOK(core'[u], FusesOf(u))
      BY <2>5, <2>10 DEF UnitOK
  <2>12. ASSUME Within(c) PROVE Within(core'[u])
    <3>1. c.hp <= built
        BY <1>2, <1>3, <2>12 DEF Within, built
    <3>2. \A m \in DOMAIN ls : ls[m].type = "building" => m = i
        BY <1>3, <2>5 DEF Carries
    <3>3. ls[i].n = built + amount
        BY <1>3, <2>5 DEF Layer
    <3> QED
        BY <2>2, <2>10, <3>1, <3>2, <3>3 DEF Within
  <2> QED
      BY <1>2, <2>9, <2>10, <2>11, <2>12
<1> QED
    BY <1>6, <1>7

\* What a builder does, if it does anything.
LEMMA BuildDoes ==
    ASSUME IInv, Build
    PROVE  /\ UNCHANGED <<timeNow, phase, turn, units, ballistics, beams, newEffects, effects>>
           /\ UNCHANGED <<lastFuseToken, fuseQueue, fuseMap, removedFuses>>
           /\ UNCHANGED <<j, k, it, effectHappened, fatal>>
           /\ step' = step + 1
           /\ \/ UNCHANGED core
              \/ \E u \in Alive : \E i \in LayersOf(u, "building") : Construct(u, i)
<1>1. PICK u \in Alive :
         /\ IF LayersOf(u, "building") = {} THEN UNCHANGED core
            ELSE Construct(u, Min(LayersOf(u, "building")))
         /\ step' = step + 1
         /\ UNCHANGED <<clock, units, shots, areas, fuses, j, k, it, effectHappened, fatal>>
    BY DEF Build
<1>2. /\ UNCHANGED <<timeNow, phase, turn, units, ballistics, beams, newEffects, effects>>
      /\ UNCHANGED <<lastFuseToken, fuseQueue, fuseMap, removedFuses>>
      /\ UNCHANGED <<j, k, it, effectHappened, fatal>>
    BY <1>1 DEF clock, shots, areas, fuses
<1>3. ASSUME LayersOf(u, "building") # {}
      PROVE  Min(LayersOf(u, "building")) \in LayersOf(u, "building")
  <2>1. core[u].layers \in Seq(Layers)
      BY EveryUnitOK DEF IInv, UnitOK
  <2>2. LayersOf(u, "building") \subseteq Nat
      BY <2>1, LayersHave DEF LayersOf
  <2> QED
      BY <1>3, <2>2, LeastOf
<1> QED
    BY <1>1, <1>2, <1>3

\* A builder changes hit points and what was built, and no fuses.
LEMMA BuildKeeps ==
    ASSUME IInv, Build
    PROVE  IInv'
<1>1. /\ UNCHANGED <<timeNow, phase, turn, units, ballistics, beams, newEffects, effects>>
      /\ UNCHANGED <<lastFuseToken, fuseQueue, fuseMap, removedFuses>>
      /\ UNCHANGED <<j, k, it, effectHappened, fatal>>
      /\ step' = step + 1
    BY BuildDoes
<1>2. Alive' = Alive /\ \A u : FusesOf(u)' = FusesOf(u)
    BY <1>1 DEF Alive, FusesOf
<1>3. PeopleOK'
  <2>1. CASE UNCHANGED core
      BY <1>1, <1>2, <2>1 DEF IInv, PeopleOK
  <2>2. CASE \E u \in Alive : \E i \in LayersOf(u, "building") : Construct(u, i)
    <3>1. PICK u \in Alive : \E i \in LayersOf(u, "building") : Construct(u, i)
        BY <2>2
    <3>2. PICK i \in LayersOf(u, "building") : Construct(u, i)
        BY <3>1
    <3>3. /\ DOMAIN core' = Units /\ \A v \in Units \ {u} : core'[v] = core[v]
          /\ UnitOK(core'[u], FusesOf(u))
        BY <3>2, ConstructDoes DEF IInv
    <3> QED
        BY <1>1, <1>2, <3>3, OneUnitChanges DEF IInv
  <2> QED
      BY <2>1, <2>2, BuildDoes
<1>4. FusesOK'
    BY <1>1, <1>2 DEF IInv, FusesOK
<1>5. FuseTimes'
    BY <1>1 DEF IInv, FuseTimes
<1>6. RestOK'
    BY <1>1, <1>2 DEF IInv, RestOK
<1> QED
    BY <1>3, <1>4, <1>5, <1>6 DEF IInv

\* A new token is given out for a fuse that goes off FuseDelay from now.
LEMMA FuseGiven ==
    ASSUME IInv, Cardinality(Queued(fuseQueue)) < TokenModulus,
           NEW u \in Alive, AddFuse(u, timeNow + FuseDelay), UNCHANGED <<timeNow, units>>,
           phase = "beams", phase' = "beams"
    PROVE  /\ FusesOK' /\ FuseTimes'
           /\ NextToken \in Tokens /\ NextToken \notin Queued(fuseQueue)
           /\ FusesOf(u)' = FusesOf(u) \cup {NextToken}
           /\ \A v \in Units \ {u} : FusesOf(v)' = FusesOf(v)
<1>1. PICK time : time = timeNow + FuseDelay
    OBVIOUS
<1>2. /\ timeNow \in Nat /\ FuseDelay \in Nat /\ MaxTime \in Nat /\ timeNow <= MaxTime
      /\ MaxTime + FuseDelay <= LastTime
    BY GameAssumption DEF IInv, RestOK
<1>3. time \in Times /\ time \in Nat
    BY <1>1, <1>2, LastTimeAssumption DEF Times
<1>4. /\ lastFuseToken \in Tokens /\ IsQueue(fuseQueue, Tokens)
      /\ fuseQueue = [p \in DOMAIN fuseQueue |-> fuseQueue[p]]
      /\ DOMAIN fuseMap \subseteq Tokens /\ \A t \in DOMAIN fuseMap : fuseMap[t] \in Alive
      /\ Queued(fuseQueue) = DOMAIN fuseMap \cup removedFuses
      /\ DOMAIN fuseMap \cap removedFuses = {}
      /\ InAgeOrder(fuseQueue, lastFuseToken) /\ NoGaps(fuseQueue, lastFuseToken)
      /\ fatal = FALSE
    BY DEF IInv, FusesOK
<1>5. PICK next : next = NextToken
    OBVIOUS
<1>6. /\ next \in Tokens /\ next = IF lastFuseToken = TokenModulus - 1 THEN 0 ELSE lastFuseToken + 1
      /\ next \notin Queued(fuseQueue)
    BY <1>4, <1>5, TokenAfter, NextIsFree
<1>7. /\ lastFuseToken' = next
      /\ fatal' = (fatal \/ next \in DOMAIN fuseMap \cup removedFuses)
      /\ fuseQueue' = Push(fuseQueue, [time |-> time, token |-> next])
      /\ fuseMap' = [t \in DOMAIN fuseMap \cup {next} |-> IF t = next THEN u ELSE fuseMap[t]]
      /\ removedFuses' = removedFuses
    BY <1>1, <1>5 DEF AddFuse
<1>8. PICK queue : queue = fuseQueue
    OBVIOUS
<1>9. PICK new : new = fuseQueue'
    OBVIOUS
<1>10. /\ IsQueue(new, Tokens)
       /\ DOMAIN new = DOMAIN queue \cup {Priority(time)}
       /\ Queued(new) = Queued(queue) \cup {next}
  <2>1. IsQueue(queue, Tokens) /\ new = Push(queue, [time |-> time, token |-> next])
      BY <1>4, <1>7, <1>8, <1>9
  <2>2. time \in Times /\ next \in Tokens
      BY <1>3, <1>6
  <2>3. /\ IsQueue(new, Tokens)
        /\ DOMAIN new = DOMAIN queue \cup {Priority(time)}
        /\ \A p \in DOMAIN queue : p # Priority(time) => new[p] = queue[p]
        /\ new[Priority(time)] =
                IF Priority(time) \in DOMAIN queue
                THEN Append(queue[Priority(time)], next) ELSE <<next>>
        /\ Queued(new) = Queued(queue) \cup {next}
      BY <2>1, <2>2, Pushed
  <2> QED
      BY <2>3
<1>11. \A p \in DOMAIN queue : p >= Priority(time)
  <2>1. ASSUME NEW p \in DOMAIN queue PROVE p >= Priority(time)
    <3>1. Priority(p) <= time
        BY <1>1, <1>8 DEF IInv, FuseTimes
    <3>2. p \in Int
        BY <1>4, <1>8, QueueHas, LastTimeAssumption
    <3> QED
        BY <1>3, <3>1, <3>2, LastTimeAssumption DEF Priority
  <2> QED
      BY <2>1
<1>12. InAgeOrder(new, next) /\ NoGaps(new, next)
    BY <1>3, <1>4, <1>6, <1>7, <1>8, <1>9, <1>11, PushedInOrder
<1>13. fuseQueue' = [p \in DOMAIN fuseQueue' |-> fuseQueue'[p]]
    BY <1>4, <1>7 DEF Push
<1>14. Alive' = Alive
    BY DEF Alive
<1>15. FusesOK'
  <2>1. DOMAIN fuseMap' = DOMAIN fuseMap \cup {next}
      BY <1>7
  <2>2. DOMAIN fuseMap' \subseteq Tokens /\ \A t \in DOMAIN fuseMap' : fuseMap'[t] \in Alive
      BY <1>4, <1>6, <1>7
  <2>3. fatal' = FALSE
      BY <1>4, <1>6, <1>7
  <2>4. /\ Queued(fuseQueue') = DOMAIN fuseMap' \cup removedFuses'
        /\ DOMAIN fuseMap' \cap removedFuses' = {}
      BY <1>4, <1>6, <1>7, <1>8, <1>9, <1>10, <2>1
  <2> QED
      BY <1>6, <1>7, <1>9, <1>10, <1>12, <1>13, <1>14, <2>2, <2>3, <2>4 DEF FusesOK
<1>16. FuseTimes'
  <2> SUFFICES ASSUME NEW p \in DOMAIN new
               PROVE  timeNow <= Priority(p) /\ Priority(p) <= timeNow + FuseDelay
      BY <1>9 DEF FuseTimes
  <2>1. CASE p \in DOMAIN queue
      BY <1>8, <2>1 DEF IInv, FuseTimes
  <2>2. CASE p = Priority(time)
    <3>1. Priority(p) = time
        BY <1>3, <2>2, Complements
    <3> QED
        BY <1>1, <1>2, <3>1
  <2> QED
      BY <1>10, <2>1, <2>2
<1>17. next \notin DOMAIN fuseMap
    BY <1>4, <1>6
<1>18. FusesOf(u)' = FusesOf(u) \cup {next}
    BY <1>7, <1>17 DEF FusesOf
<1>19. \A v \in Units \ {u} : FusesOf(v)' = FusesOf(v)
    BY <1>7, <1>17 DEF FusesOf
<1> QED
    BY <1>5, <1>6, <1>15, <1>16, <1>18, <1>19

\* A paralysis gives the unit a layer and the map a fuse with the same token.
LEMMA ParalyseKeeps ==
    ASSUME IInv, Paralyse
    PROVE  IInv'
<1>1. PICK u \in Alive :
         /\ Shines /\ u # beams[it].source
         /\ Cardinality(Queued(fuseQueue)) < TokenModulus
         /\ core' = InsertLayer(u, Layer("paralysing", NextToken))
         /\ AddFuse(u, timeNow + FuseDelay)
         /\ it' = it + 1
         /\ UNCHANGED <<clock, units, shots, areas, j, k, step, effectHappened>>
    BY DEF Paralyse
<1>2. /\ UNCHANGED <<timeNow, phase, turn, units, ballistics, beams, newEffects, effects>>
      /\ UNCHANGED <<j, k, step, effectHappened>>
      /\ phase = "beams" /\ it' = it + 1
    BY <1>1 DEF clock, shots, areas, Shines
<1>3. /\ FusesOK' /\ FuseTimes'
      /\ NextToken \in Tokens /\ NextToken \notin Queued(fuseQueue)
      /\ FusesOf(u)' = FusesOf(u) \cup {NextToken}
      /\ \A v \in Units \ {u} : FusesOf(v)' = FusesOf(v)
    BY <1>1, <1>2, FuseGiven
<1>4. u \in Units /\ DOMAIN core = Units /\ UnitOK(core[u], FusesOf(u))
    BY EveryUnitOK DEF IInv, PeopleOK
<1>5. PICK c : c = core[u]
    OBVIOUS
<1>6. PICK ls : ls = <<Layer("paralysing", NextToken)>> \o c.layers
    OBVIOUS
<1>7. core' = [core EXCEPT ![u].layers = ls]
    BY <1>1, <1>5, <1>6 DEF InsertLayer
<1>8. Carries(ls, FusesOf(u) \cup {NextToken})
  <2>1. NextToken \in Nat
      BY <1>3, WorldAssumption DEF Tokens
  <2>2. NextToken \notin FusesOf(u)
      BY <1>3 DEF FusesOf, IInv, FusesOK
  <2>3. PICK old : old = c.layers
      OBVIOUS
  <2>4. Carries(old, FusesOf(u))
      BY <1>4, <1>5, <2>3 DEF UnitOK
  <2>5. Carries(<<Layer("paralysing", NextToken)>> \o old, FusesOf(u) \cup {NextToken})
      BY <2>1, <2>2, <2>4, CarriesOneMore
  <2> QED
      BY <1>6, <2>3, <2>5
<1>9. core'[u] = [c EXCEPT !.layers = ls] /\ DOMAIN core' = Units
      /\ \A v \in Units \ {u} : core'[v] = core[v]
    BY <1>4, <1>5, <1>7
<1>10. UnitOK(core'[u], FusesOf(u)')
  <2>1. ls \in Seq(Layers)
      BY <1>8 DEF Carries
  <2>2. c \in [kind : Kinds, hp : Nat \ {0}, arms : Kinds, layers : Seq(Layers)]
      BY <1>4, <1>5 DEF UnitOK
  <2>3. /\ core'[u] \in [kind : Kinds, hp : Nat \ {0}, arms : Kinds, layers : Seq(Layers)]
        /\ core'[u].layers = ls
      BY <1>9, <2>1, <2>2
  <2> QED
      BY <1>3, <1>8, <2>3 DEF UnitOK
<1>11. PeopleOK'
    BY <1>2, <1>3, <1>9, <1>10, OneUnitChanges DEF IInv
<1>12. RestOK'
  <2>1. Alive' = Alive
      BY <1>2 DEF Alive
  <2>2. effectHappened' \in BOOLEAN /\ it' \in Nat \ {0}
      BY <1>2 DEF IInv, RestOK
  <2> QED
      BY <1>2, <2>1, <2>2 DEF IInv, RestOK
<1> QED
    BY <1>3, <1>11, <1>12 DEF IInv

\* The fuse at the top of the queue is that of a layer of a unit, which goes.
LEMMA ExpireFuseDoes ==
    ASSUME IInv, ExpireFuse
    PROVE  /\ UNCHANGED <<timeNow, phase, turn, units, ballistics, beams, newEffects, effects>>
           /\ UNCHANGED <<lastFuseToken, removedFuses, j, k, step, it, effectHappened, fatal>>
           /\ Due /\ Top(fuseQueue).token \in DOMAIN fuseMap
           /\ fuseQueue' = Pop(fuseQueue)
           /\ fuseMap' = Restrict(fuseMap, DOMAIN fuseMap \ {Top(fuseQueue).token})
           /\ \E i \in OwnLayer(fuseMap[Top(fuseQueue).token], Top(fuseQueue).token) :
                core' = WithoutLayer(fuseMap[Top(fuseQueue).token], i)
<1>1. PICK token \in Tokens :
         /\ GoesOff(token)
         /\ IF token \in DOMAIN fuseMap /\ OwnLayer(fuseMap[token], token) # {}
            THEN /\ core' = WithoutLayer(fuseMap[token], Min(OwnLayer(fuseMap[token], token)))
                 /\ UNCHANGED fatal
            ELSE fatal' = TRUE /\ UNCHANGED core
         /\ WentOff(token)
         /\ UNCHANGED <<clock, units, shots, areas, loops>>
    BY DEF ExpireFuse
<1>2. token = Top(fuseQueue).token /\ Due /\ token \notin removedFuses
    BY <1>1 DEF GoesOff
<1>3. token \in DOMAIN fuseMap
  <2>1. token \in Queued(fuseQueue)
      BY <1>2, SomeQueued, TopIs DEF Due, IInv, FusesOK
  <2> QED
      BY <1>2, <2>1 DEF IInv, FusesOK
<1>4. PICK u \in Alive : u = fuseMap[token]
    BY <1>3 DEF IInv, FusesOK
<1>5. Carries(core[u].layers, FusesOf(u)) /\ token \in FusesOf(u)
    BY <1>3, <1>4, EveryUnitOK DEF IInv, UnitOK, FusesOf
<1>6. OwnLayer(u, token) # {} /\ OwnLayer(u, token) \subseteq Nat
  <2>1. \E i \in DOMAIN core[u].layers :
           core[u].layers[i].type = "paralysing" /\ core[u].layers[i].n = token
      BY <1>5 DEF Carries
  <2>2. \A i \in DOMAIN core[u].layers : i \in Nat
      BY <1>5, LayersHave DEF Carries
  <2> QED
      BY <2>1, <2>2 DEF OwnLayer, LayersOf
<1>7. Min(OwnLayer(u, token)) \in OwnLayer(u, token)
    BY <1>6, LeastOf
<1>8. /\ core' = WithoutLayer(u, Min(OwnLayer(u, token))) /\ fatal' = fatal
    BY <1>1, <1>3, <1>4, <1>6
<1>9. /\ UNCHANGED <<timeNow, phase, turn, units, ballistics, beams, newEffects, effects>>
      /\ UNCHANGED <<lastFuseToken, removedFuses, j, k, step, it, effectHappened>>
      /\ fuseQueue' = Pop(fuseQueue)
      /\ fuseMap' = Restrict(fuseMap, DOMAIN fuseMap \ {token})
    BY <1>1 DEF clock, shots, areas, loops, WentOff
<1> QED
    BY <1>2, <1>3, <1>4, <1>7, <1>8, <1>9

\* A fuse that goes off takes its layer along.
LEMMA ExpireFuseKeeps ==
    ASSUME IInv, ExpireFuse
    PROVE  IInv'
<1>1. PICK token : token = Top(fuseQueue).token
    OBVIOUS
<1>2. PICK u : u = fuseMap[token]
    OBVIOUS
<1>3. /\ UNCHANGED <<timeNow, phase, turn, units, ballistics, beams, newEffects, effects>>
      /\ UNCHANGED <<lastFuseToken, removedFuses, j, k, step, it, effectHappened, fatal>>
      /\ Due /\ token \in DOMAIN fuseMap
      /\ fuseQueue' = Pop(fuseQueue)
      /\ fuseMap' = Restrict(fuseMap, DOMAIN fuseMap \ {token})
    BY <1>1, ExpireFuseDoes
<1>4. PICK i \in OwnLayer(u, token) : core' = WithoutLayer(u, i)
    BY <1>1, <1>2, ExpireFuseDoes
<1>5. u \in Alive
    BY <1>2, <1>3 DEF IInv, FusesOK
<1>6. u \in Units /\ DOMAIN core = Units /\ UnitOK(core[u], FusesOf(u))
    BY <1>5, EveryUnitOK DEF IInv, PeopleOK
<1>7. PICK c : c = core[u]
    OBVIOUS
<1>8. PICK old : old = c.layers
    OBVIOUS
<1>9. /\ c \in [kind : Kinds, hp : Nat \ {0}, arms : Kinds, layers : Seq(Layers)]
      /\ Carries(old, FusesOf(u))
    BY <1>6, <1>7, <1>8 DEF UnitOK
<1>10. i \in DOMAIN old /\ old[i].type = "paralysing" /\ old[i].n = token
    BY <1>4, <1>7, <1>8 DEF OwnLayer, LayersOf
<1>11. PICK ls : ls = RemoveAt(old, i)
    OBVIOUS
<1>12. Carries(ls, FusesOf(u) \ {token})
  <2>1. Carries(RemoveAt(old, i), FusesOf(u) \ {old[i].n})
      BY <1>9, <1>10, CarriesOneLess
  <2> QED
      BY <1>10, <1>11, <2>1
<1>13. core' = [core EXCEPT ![u].layers = ls]
    BY <1>4, <1>7, <1>8, <1>11 DEF WithoutLayer
<1>14. core'[u] = [c EXCEPT !.layers = ls] /\ DOMAIN core' = Units
       /\ \A v \in Units \ {u} : core'[v] = core[v]
    BY <1>6, <1>7, <1>13
<1>15. /\ DOMAIN fuseMap' = DOMAIN fuseMap \ {token}
       /\ \A t \in DOMAIN fuseMap' : fuseMap'[t] = fuseMap[t]
    BY <1>3 DEF Restrict
<1>16. FusesOf(u)' = FusesOf(u) \ {token}
    BY <1>15 DEF FusesOf
<1>17. \A v \in Units \ {u} : FusesOf(v)' = FusesOf(v)
    BY <1>2, <1>15 DEF FusesOf
<1>18. UnitOK(core'[u], FusesOf(u)')
  <2>1. ls \in Seq(Layers)
      BY <1>12 DEF Carries
  <2>2. /\ core'[u] \in [kind : Kinds, hp : Nat \ {0}, arms : Kinds, layers : Seq(Layers)]
        /\ core'[u].layers = ls
      BY <1>9, <1>14, <2>1
  <2> QED
      BY <1>12, <1>16, <2>2 DEF UnitOK
<1>19. PeopleOK'
    BY <1>3, <1>5, <1>14, <1>17, <1>18, OneUnitChanges DEF IInv
<1>20. Alive' = Alive
    BY <1>3 DEF Alive
<1>21. FusesOK'
  <2>1. /\ IsQueue(fuseQueue', Tokens) /\ fuseQueue' = [p \in DOMAIN fuseQueue' |-> fuseQueue'[p]]
        /\ Queued(fuseQueue') = Queued(fuseQueue) \ {token}
        /\ InAgeOrder(fuseQueue', lastFuseToken') /\ NoGaps(fuseQueue', lastFuseToken')
      BY <1>1, <1>3, TopGoes
  <2>2. /\ Queued(fuseQueue') = DOMAIN fuseMap' \cup removedFuses'
        /\ DOMAIN fuseMap' \cap removedFuses' = {}
      BY <1>3, <1>15, <2>1 DEF IInv, FusesOK
  <2> QED
      BY <1>3, <1>15, <1>20, <2>1, <2>2 DEF IInv, FusesOK
<1>22. FuseTimes'
    BY <1>3, TopGoes
<1>23. RestOK'
    BY <1>3, <1>20 DEF IInv, RestOK
<1> QED
    BY <1>19, <1>21, <1>22, <1>23 DEF IInv

\* Of some units that are hurt, some die.
Hurt(us, dead, rank) ==
    /\ units' = Without(units, dead)
    /\ DOMAIN core' = Units
    /\ \A u \in Units :
         IF u \in dead THEN core'[u] = Nobody
         ELSE IF u \in us
         THEN /\ core'[u] \in [kind : Kinds, hp : Nat \ {0}, arms : Kinds, layers : Seq(Layers)]
              /\ core'[u].arms = core[u].arms /\ core'[u].layers = core[u].layers
              /\ Remains(<<core'[u].kind, core'[u].hp>>, core[u].kind, core[u].hp, rank)
         ELSE core'[u] = core[u]
    /\ fatal' = (fatal \/ ~(OnRemoval(dead) \subseteq DOMAIN fuseMap))
    /\ removedFuses' = removedFuses \cup OnRemoval(dead)
    /\ fuseMap' = Restrict(fuseMap, DOMAIN fuseMap \ OnRemoval(dead))
    /\ beams' = Unreferenced(dead)

\* What damage does to the units it is done to, of which all are in the list.
LEMMA DamageDoes ==
    ASSUME IInv, NEW us \in SUBSET Alive, Explode(us), NEW rank
    PROVE  \E dead \in SUBSET us : Hurt(us, dead, rank)
<1> DEFINE amounts == [u \in us |-> BlastDamage]
           after == [u \in us |-> Damaged(core[u].kind, core[u].hp, BlastDamage)]
           dead == {u \in us : after[u][1] = NoKind}
           hurt == [u \in Units |->
                      IF u \in dead THEN Nobody
                      ELSE IF u \in us
                           THEN [core[u] EXCEPT !.kind = after[u][1], !.hp = after[u][2]]
                           ELSE core[u]]
<1>1. /\ core' = hurt
      /\ units' = Without(units, dead)
      /\ fatal' = (fatal \/ ~(OnRemoval(dead) \subseteq DOMAIN fuseMap))
      /\ removedFuses' = removedFuses \cup OnRemoval(dead)
      /\ fuseMap' = Restrict(fuseMap, DOMAIN fuseMap \ OnRemoval(dead))
      /\ beams' = Unreferenced(dead)
  <2>1. DOMAIN amounts = us /\ \A u \in us : amounts[u] = BlastDamage
      OBVIOUS
  <2>2. [u \in DOMAIN amounts |-> Damaged(core[u].kind, core[u].hp, amounts[u])] = after
      BY <2>1
  <2>3. Damage(amounts)
      BY DEF Explode
  <2> HIDE DEF amounts
  <2> QED
      BY <2>1, <2>2, <2>3 DEF Damage
<1>2. ASSUME NEW u \in us
      PROVE  /\ after[u] = Damaged(core[u].kind, core[u].hp, BlastDamage)
             /\ core[u] \in [kind : Kinds, hp : Nat \ {0}, arms : Kinds, layers : Seq(Layers)]
             /\ Remains(after[u], core[u].kind, core[u].hp, rank)
  <2>1. core[u] \in [kind : Kinds, hp : Nat \ {0}, arms : Kinds, layers : Seq(Layers)]
      BY EveryUnitOK DEF IInv, UnitOK
  <2>2. PICK kind \in Kinds : kind = core[u].kind
      BY <2>1
  <2>3. PICK hp \in Nat \ {0} : hp = core[u].hp
      BY <2>1
  <2>4. BlastDamage \in Nat
      BY GameAssumption
  <2>5. Remains(Damaged(kind, hp, BlastDamage), kind, hp, rank)
      BY <2>4, DamageRemains
  <2> QED
      BY <2>1, <2>2, <2>3, <2>5
<1> HIDE DEF after
<1>3. ASSUME NEW u \in us \ dead
      PROVE  /\ core'[u] \in [kind : Kinds, hp : Nat \ {0}, arms : Kinds, layers : Seq(Layers)]
             /\ core'[u].arms = core[u].arms /\ core'[u].layers = core[u].layers
             /\ Remains(<<core'[u].kind, core'[u].hp>>, core[u].kind, core[u].hp, rank)
  <2>1. PICK d : d = after[u]
      OBVIOUS
  <2>2. d[1] # NoKind /\ Remains(d, core[u].kind, core[u].hp, rank)
      BY <1>2, <2>1
  <2>3. d[1] \in Kinds /\ d[2] \in Nat \ {0}
      BY <2>2 DEF Remains
  <2>4. u \in Units
      BY AliveAre DEF IInv, PeopleOK
  <2>5. core'[u] = [core[u] EXCEPT !.kind = d[1], !.hp = d[2]]
      BY <1>1, <2>1, <2>4
  <2>6. PICK c : c = core[u]
      OBVIOUS
  <2>7. c \in [kind : Kinds, hp : Nat \ {0}, arms : Kinds, layers : Seq(Layers)]
      BY <1>2, <2>6
  <2>8. core'[u] = [[c EXCEPT !.kind = d[1]] EXCEPT !.hp = d[2]]
      BY <2>5, <2>6
  <2>9. /\ core'[u] \in [kind : Kinds, hp : Nat \ {0}, arms : Kinds, layers : Seq(Layers)]
        /\ core'[u].kind = d[1] /\ core'[u].hp = d[2]
        /\ core'[u].arms = c.arms /\ core'[u].layers = c.layers
      BY <2>3, <2>7, <2>8
  <2>10. Remains(<<d[1], d[2]>>, core[u].kind, core[u].hp, rank)
      BY <2>2 DEF Remains
  <2> QED
      BY <2>6, <2>9, <2>10
<1>4. ASSUME NEW u \in Units
      PROVE  IF u \in dead THEN core'[u] = Nobody
             ELSE IF u \in us
             THEN /\ core'[u] \in [kind : Kinds, hp : Nat \ {0}, arms : Kinds, layers : Seq(Layers)]
                  /\ core'[u].arms = core[u].arms /\ core'[u].layers = core[u].layers
                  /\ Remains(<<core'[u].kind, core'[u].hp>>, core[u].kind, core[u].hp, rank)
             ELSE core'[u] = core[u]
  <2>1. CASE u \in us \ dead
      BY <1>3, <2>1
  <2>2. CASE u \notin us \ dead
      BY <1>1, <2>2
  <2> QED
      BY <2>1, <2>2
<1>5. dead \in SUBSET us /\ DOMAIN core' = Units
    BY <1>1
<1> HIDE DEF dead
<1> QED
    BY <1>1, <1>4, <1>5 DEF Hurt

\* The tokens that go with the dead are those of the fuses that point to them.
LEMMA TokensOfTheDead ==
    ASSUME IInv, NEW dead \in SUBSET Alive
    PROVE  OnRemoval(dead) = {t \in DOMAIN fuseMap : fuseMap[t] \in dead}
<1>1. \A u \in dead : Carries(core[u].layers, FusesOf(u))
    BY EveryUnitOK DEF IInv, UnitOK
<1>2. ASSUME NEW u \in dead
      PROVE  {core[u].layers[i].n : i \in LayersOf(u, "paralysing")} = FusesOf(u)
    BY <1>1 DEF Carries, LayersOf, Hurt
<1>3. OnRemoval(dead) = UNION {FusesOf(u) : u \in dead}
    BY <1>2 DEF OnRemoval
<1> QED
    BY <1>3 DEF FusesOf

\* The fuses of the dead are moved from the map to the removed ones.
LEMMA DamageKeeps ==
    ASSUME IInv, NEW us \in SUBSET Alive, Explode(us),
           UNCHANGED <<timeNow, phase, lastFuseToken, fuseQueue>>
    PROVE  /\ PeopleOK' /\ FusesOK' /\ FuseTimes'
           /\ beams' \in Seq([source : Alive' \cup {End}, end : Nat])
<1>1. PICK dead \in SUBSET us : \E rank : Hurt(us, dead, rank)
    BY DamageDoes
<1>2. PICK tokens : tokens = OnRemoval(dead)
    OBVIOUS
<1>3. tokens = {t \in DOMAIN fuseMap : fuseMap[t] \in dead}
    BY <1>2, TokensOfTheDead
<1>4. /\ units \in Seq(Units) /\ IsInjective(units)
      /\ Alive \subseteq Units
      /\ \A u \in Units :
           IF u \in Alive THEN UnitOK(core[u], FusesOf(u)) ELSE core[u] = Nobody
    BY AliveAre DEF IInv, PeopleOK, UnitOK
<1>5. units' \in Seq(Units) /\ IsInjective(units') /\ Alive' = Alive \ dead
  <2>1. /\ units' \in Seq(Units \ dead) /\ IsInjective(units')
        /\ Range(units') = Range(units) \ dead
      BY <1>1, <1>4, WithoutElements DEF Hurt
  <2>2. units' \in Seq(Units)
      BY <2>1, SeqMonotonic
  <2> QED
      BY <2>1, <2>2 DEF Alive
<1>6. /\ DOMAIN fuseMap' = DOMAIN fuseMap \ tokens
      /\ \A t \in DOMAIN fuseMap' : fuseMap'[t] = fuseMap[t]
    BY <1>1, <1>2 DEF Restrict, Hurt
<1>7. \A u \in Alive \ dead : FusesOf(u)' = FusesOf(u)
    BY <1>3, <1>6 DEF FusesOf
<1>8. PeopleOK'
  <2>1. ASSUME NEW u \in Units
        PROVE  IF u \in Alive' THEN UnitOK(core'[u], FusesOf(u)') ELSE core'[u] = Nobody
    <3>1. CASE u \in dead
        BY <1>1, <1>5, <3>1 DEF Hurt
    <3>2. CASE u \in us \ dead
      <4>1. /\ core'[u] \in [kind : Kinds, hp : Nat \ {0}, arms : Kinds, layers : Seq(Layers)]
            /\ core'[u].layers = core[u].layers
          BY <1>1, <3>2 DEF Hurt
      <4>2. Carries(core[u].layers, FusesOf(u))
          BY <1>4, <3>2 DEF UnitOK
      <4> QED
          BY <1>5, <1>7, <3>2, <4>1, <4>2 DEF UnitOK
    <3>3. CASE u \notin us
      <4>1. core'[u] = core[u]
          BY <1>1, <3>3 DEF Hurt
      <4> QED
          BY <1>4, <1>5, <1>7, <3>3, <4>1
    <3> QED
        BY <3>1, <3>2, <3>3
  <2> QED
      BY <1>1, <1>5, <2>1 DEF PeopleOK, UnitOK, Hurt
<1>9. FusesOK'
  <2>1. /\ lastFuseToken' \in Tokens
        /\ IsQueue(fuseQueue', Tokens) /\ fuseQueue' = [p \in DOMAIN fuseQueue' |-> fuseQueue'[p]]
        /\ InAgeOrder(fuseQueue', lastFuseToken') /\ NoGaps(fuseQueue', lastFuseToken')
      BY DEF IInv, FusesOK
  <2>2. DOMAIN fuseMap' \subseteq Tokens /\ \A t \in DOMAIN fuseMap' : fuseMap'[t] \in Alive'
      BY <1>3, <1>5, <1>6 DEF IInv, FusesOK
  <2>3. Queued(fuseQueue') = Queued(fuseQueue) /\ Queued(fuseQueue) = DOMAIN fuseMap \cup removedFuses
      BY DEF IInv, FusesOK
  <2>4. removedFuses' = removedFuses \cup tokens /\ tokens \subseteq DOMAIN fuseMap
      BY <1>1, <1>2, <1>3 DEF Hurt
  <2>5. /\ Queued(fuseQueue') = DOMAIN fuseMap' \cup removedFuses'
        /\ DOMAIN fuseMap' \cap removedFuses' = {}
      BY <1>6, <2>3, <2>4 DEF IInv, FusesOK
  <2>6. fatal' = FALSE
      BY <1>1, <1>2, <2>4 DEF IInv, FusesOK, Hurt
  <2> QED
      BY <2>1, <2>2, <2>5, <2>6 DEF FusesOK
<1>10. FuseTimes'
    BY DEF IInv, FuseTimes
<1>11. beams' \in Seq([source : Alive' \cup {End}, end : Nat])
  <2>1. beams \in Seq([source : Alive \cup {End}, end : Nat])
      BY DEF IInv, RestOK
  <2>2. /\ Len(beams) \in Nat /\ DOMAIN beams = 1 .. Len(beams)
        /\ \A i \in 1 .. Len(beams) : beams[i] \in [source : Alive \cup {End}, end : Nat]
      BY <2>1, LenProperties, ElementOfSeq
  <2> DEFINE e(i) == IF beams[i].source \in dead THEN [beams[i] EXCEPT !.source = End] ELSE beams[i]
  <2>3. ASSUME NEW i \in 1 .. Len(beams)
        PROVE  e(i) \in [source : Alive' \cup {End}, end : Nat]
    <3>1. PICK b : b = beams[i]
        OBVIOUS
    <3>2. b \in [source : Alive \cup {End}, end : Nat]
        BY <2>2, <3>1
    <3>3. CASE b.source \in dead
      <4>1. [b EXCEPT !.source = End] \in [source : Alive' \cup {End}, end : Nat]
          BY <3>2
      <4> QED
          BY <3>1, <3>3, <4>1
    <3>4. CASE b.source \notin dead
      <4>1. b \in [source : Alive' \cup {End}, end : Nat]
          BY <1>5, <3>2, <3>4
      <4> QED
          BY <3>1, <3>4, <4>1
    <3> QED
        BY <3>3, <3>4
  <2>4. beams' = [i \in 1 .. Len(beams) |-> e(i)]
      BY <1>1, <2>2 DEF Unreferenced, Hurt
  <2> HIDE DEF e
  <2>5. [i \in 1 .. Len(beams) |-> e(i)] \in Seq([source : Alive' \cup {End}, end : Nat])
      BY <2>2, <2>3, IsASeq
  <2> QED
      BY <2>4, <2>5
<1> QED
    BY <1>8, <1>9, <1>10, <1>11

\* Explosions keep the invariant.
LEMMA EffectsKeep ==
    ASSUME IInv, EngulfOld \/ NewEffect
    PROVE  IInv'
<1>1. CASE EngulfOld
  <2>1. PICK us \in SUBSET Alive :
          /\ Engulfs /\ Explode(us) /\ Engulfed
          /\ UNCHANGED <<clock, ballistics, newEffects, lastFuseToken, fuseQueue,
                         j, k, step, effectHappened>>
      BY <1>1 DEF EngulfOld
  <2>2. UNCHANGED <<timeNow, phase, turn>>
      BY <2>1 DEF clock
  <2>3. /\ PeopleOK' /\ FusesOK' /\ FuseTimes'
        /\ beams' \in Seq([source : Alive' \cup {End}, end : Nat])
      BY <2>1, <2>2, DamageKeeps
  <2>4. effects' \in 0 .. MaxEffects /\ it' \in Nat \ {0}
    <3>1. PICK gone \in RemovalTests : /\ effects' = IF gone THEN effects - 1 ELSE effects
                                       /\ it' = IF gone THEN it ELSE it + 1
        BY <2>1 DEF Engulfed
    <3>2. effects \in 0 .. MaxEffects /\ it \in Nat \ {0} /\ it <= effects /\ MaxEffects \in Nat
        BY <2>1, GameAssumption DEF IInv, RestOK, Engulfs
    <3> QED
        BY <3>1, <3>2
  <2>5. RestOK'
      BY <2>1, <2>2, <2>3, <2>4 DEF IInv, RestOK
  <2> QED
      BY <2>3, <2>5 DEF IInv
<1>2. CASE NewEffect
  <2>1. PICK us \in SUBSET Alive :
          /\ Happens /\ Explode(us) /\ Happened(MaxEffects)
          /\ UNCHANGED <<clock, ballistics, lastFuseToken, fuseQueue, j, k, step, it>>
      BY <1>2 DEF NewEffect
  <2>2. UNCHANGED <<timeNow, phase, turn>>
      BY <2>1 DEF clock
  <2>3. /\ PeopleOK' /\ FusesOK' /\ FuseTimes'
        /\ beams' \in Seq([source : Alive' \cup {End}, end : Nat])
      BY <2>1, <2>2, DamageKeeps
  <2>4. effects' \in 0 .. MaxEffects /\ newEffects' \in Nat /\ effectHappened' \in BOOLEAN
    <3>1. PICK gone \in RemovalTests : /\ gone \/ effects < MaxEffects
                                       /\ effects' = IF gone THEN effects ELSE effects + 1
        BY <2>1 DEF Happened
    <3>2. newEffects' = newEffects - 1 /\ effectHappened' = TRUE
        BY <2>1 DEF Happened
    <3>3. /\ effects \in 0 .. MaxEffects /\ MaxEffects \in Nat
          /\ newEffects \in Nat /\ newEffects > 0
        BY <2>1, GameAssumption DEF IInv, RestOK, Happens
    <3> QED
        BY <3>1, <3>2, <3>3
  <2>5. RestOK'
      BY <2>1, <2>2, <2>3, <2>4 DEF IInv, RestOK
  <2> QED
      BY <2>3, <2>5 DEF IInv
<1> QED
    BY <1>1, <1>2

-----------------------------------------------------------------------------
\* The invariant is inductive: every step of the game keeps it.
LEMMA NextKeepsInvariant ==
    ASSUME IInv, [Next]_vars
    PROVE  IInv'
<1>1. CASE UNCHANGED vars
  <2>1. UNCHANGED <<timeNow, phase, turn, units, core, ballistics, beams, newEffects, effects>>
        /\ UNCHANGED <<lastFuseToken, fuseQueue, fuseMap, removedFuses>>
        /\ UNCHANGED <<j, k, step, it, effectHappened, fatal>>
      BY <1>1 DEF vars, clock, people, shots, areas, fuses, loops
  <2>2. Alive' = Alive /\ \A u : FusesOf(u)' = FusesOf(u)
      BY <2>1 DEF Alive, FusesOf
  <2>3. PeopleOK'
      BY <2>1, <2>2 DEF IInv, PeopleOK
  <2>4. FusesOK' /\ FuseTimes'
      BY <2>1, <2>2 DEF IInv, FusesOK, FuseTimes
  <2>5. RestOK'
      BY <2>1, <2>2 DEF IInv, RestOK
  <2> QED
      BY <2>3, <2>4, <2>5 DEF IInv
<1>2. CASE Next
  <2>1. PlainStep \/ SkipRemoved \/ Create \/ Build \/ Paralyse \/ EngulfOld \/ NewEffect \/ ExpireFuse
      BY <1>2 DEF Next, Loop, PlainStep
  <2> QED
      BY <2>1, PlainStepsKeep, SkipRemovedKeeps, CreateKeeps, BuildKeeps, ParalyseKeeps,
         EffectsKeep, ExpireFuseKeeps
<1> QED
    BY <1>1, <1>2

\* In every state of the game the types, the tables of fuses and the layers agree.
THEOREM Invariance ==
    Spec => []IInv
<1>1. Init => IInv
    BY InvariantHoldsAtFirst
<1>2. IInv /\ [Next]_vars => IInv'
    BY NextKeepsInvariant
<1> QED
    BY <1>1, <1>2, PTL DEF Spec

\* The state of the world keeps its type, and who is in the list of units has hit
\* points and a kind.
THEOREM GameTyped ==
    Spec => []TypeOK
<1>1. IInv => TypeOK
    BY InvariantImplies
<1> QED
    BY <1>1, Invariance, PTL

\* No call of addFuse, removeFuse, removeLayer or the loop over the fuses reaches
\* its SAKUSEN_FATAL, however often the tokens have wrapped around.
THEOREM NoCallFails ==
    Spec => []NoFatal
<1>1. IInv => NoFatal
    BY InvariantImplies
<1> QED
    BY <1>1, Invariance, PTL

\* Every paralysing layer has the one fuse that will remove it, every fuse has its
\* layer, and the queue and the map agree about them.
THEOREM TheParalysedWakeUp ==
    Spec => []ParalysisFuses
<1>1. IInv => ParalysisFuses
    BY InvariantImplies
<1> QED
    BY <1>1, Invariance, PTL

-----------------------------------------------------------------------------
(* The loop over the units *)

\* The loop is at the n-th unit of the list: it has been at those before it, will
\* come to the next one unless there was none, and has not been at any after it.
VisitsAt(n) ==
    /\ units[n] = j
    /\ k = End \/ (n + 1 \in DOMAIN units /\ k = units[n + 1])
    /\ \A m \in DOMAIN units : m < n => turn[units[m]] = "done"
    /\ IF step = 0 THEN turn[j] \in {"due", "new"} ELSE turn[j] = "done"
    /\ \A m \in DOMAIN units : m > n =>
          turn[units[m]] = "new" \/ (turn[units[m]] = "due" /\ k # End)

\* Nobody has had a turn outside the loop; in it, VisitsAt says who has.
Turns ==
    /\ phase # "units" => \A u \in Units : turn[u] = "new"
    /\ \A u \in Units \ Alive : turn[u] = "new"
    /\ phase = "units" /\ j = End => k = End /\ \A u \in Alive : turn[u] \in {"new", "done"}
    /\ phase = "units" /\ j # End => \E n \in DOMAIN units : VisitsAt(n)

\* Turns is strong enough.
LEMMA TurnsImply ==
    IInv /\ Turns => EveryUnitOnce
<1> SUFFICES ASSUME IInv, Turns PROVE EveryUnitOnce
    OBVIOUS
<1>1. Alive = {units[n] : n \in DOMAIN units} /\ DOMAIN units \subseteq Nat
    BY AliveAre DEF IInv, PeopleOK
<1>2. ASSUME NEW u \in Units PROVE turn[u] # "twice"
  <2>1. CASE u \notin Alive
      BY <2>1 DEF Turns
  <2>2. CASE u \in Alive /\ (phase # "units" \/ j = End)
      BY <2>2 DEF Turns
  <2>3. CASE u \in Alive /\ phase = "units" /\ j # End
    <3>1. PICK n \in DOMAIN units : VisitsAt(n)
        BY <2>3 DEF Turns
    <3>2. PICK m \in DOMAIN units : units[m] = u
        BY <1>1, <2>3
    <3>3. m < n \/ m = n \/ m > n
        BY <1>1
    <3>4. turn[units[m]] \in {"done", "due", "new"}
        BY <3>1, <3>3 DEF VisitsAt
    <3> QED
        BY <3>2, <3>4
  <2> QED
      BY <2>1, <2>2, <2>3
<1> QED
    BY <1>2 DEF EveryUnitOnce, Turns

\* Where the iterator is after the n-th unit.
LEMMA SuccessorOf ==
    ASSUME units \in Seq(Units), IsInjective(units), NEW n \in DOMAIN units
    PROVE  Successor(units[n]) = IF n = Len(units) THEN End ELSE units[n + 1]
<1>1. /\ Alive = {units[m] : m \in DOMAIN units}
      /\ Len(units) \in Nat /\ DOMAIN units = 1 .. Len(units)
    BY AliveAre
<1>2. Last(units) = units[Len(units)] /\ units[n] \in Alive
    BY <1>1 DEF Last
<1>3. CASE n = Len(units)
    BY <1>2, <1>3 DEF Successor
<1>4. CASE n # Len(units)
  <2>1. units[n] # Last(units)
    <3>1. Len(units) \in DOMAIN units
        BY <1>1
    <3> QED
        BY <1>2, <1>4, <3>1 DEF IsInjective
  <2>2. (CHOOSE i \in DOMAIN units : units[i] = units[n]) = n
    <3>1. \A i \in DOMAIN units : units[i] = units[n] <=> i = n
        BY DEF IsInjective
    <3> QED
        BY <3>1
  <2>3. Successor(units[n]) = units[1 + n]
      BY <1>2, <2>1, <2>2 DEF Successor
  <2>4. 1 + n = n + 1
      BY <1>1
  <2> QED
      BY <1>4, <2>3, <2>4
<1> QED
    BY <1>3, <1>4

\* Weapons are fired one after the other, after the layers.
LEMMA ArmsAre ==
    ASSUME IInv
    PROVE  /\ Len(Arms) \in Nat /\ DOMAIN Arms = 1 .. Len(Arms)
           /\ step \in DOMAIN Arms \/ step > Len(Arms) => step # 0 /\ step + 1 # 0
<1>1. Arms \in Seq(STRING)
  <2>1. CASE j \in Alive /\ ~Disarmed(j)
    <3>1. core[j].arms \in Kinds
        BY <2>1, EveryUnitOK DEF IInv, UnitOK
    <3>2. Weapons[core[j].arms] \in Seq(STRING)
        BY <3>1, WorldAssumption
    <3>3. Arms = Weapons[core[j].arms]
        BY <2>1 DEF Arms
    <3> QED
        BY <3>2, <3>3
  <2>2. CASE ~(j \in Alive /\ ~Disarmed(j))
    <3>1. Arms = <<>>
        BY <2>2 DEF Arms
    <3> QED
        BY <3>1, EmptySeq
  <2> QED
      BY <2>1, <2>2
<1>2. Len(Arms) \in Nat /\ DOMAIN Arms = 1 .. Len(Arms)
    BY <1>1, LenProperties
<1>3. step \in Nat
    BY DEF IInv, RestOK
<1> HIDE DEF Arms
<1> QED
    BY <1>2, <1>3

\* The steps at a weapon: nothing in the loop moves.
LEMMA AtTheWeapons ==
    ASSUME IInv, Turns, phase = "units", j # End, step # 0, step' # 0,
           UNCHANGED <<phase, turn, units, j, k>>
    PROVE  Turns'
<1>1. Alive' = Alive
    BY DEF Alive
<1>2. PICK n \in DOMAIN units : VisitsAt(n)
    BY DEF Turns
<1>3. VisitsAt(n)'
    BY <1>2 DEF VisitsAt
<1> QED
    BY <1>1, <1>3 DEF Turns

\* The steps of the other loops.
LEMMA OutsideTheLoop ==
    ASSUME IInv, Turns, phase # "units", phase' # "units", turn' = turn
    PROVE  Turns'
BY DEF Turns

\* A tick starts with everybody due.
LEMMA StartTickTurns ==
    ASSUME IInv, Turns, StartTick(MaxTime)
    PROVE  Turns'
<1>1. /\ phase' = "units" /\ step' = 0 /\ units' = units
      /\ j' = IF units = <<>> THEN End ELSE Head(units)
      /\ k' = IF units = <<>> THEN End ELSE Successor(Head(units))
      /\ turn' = [u \in Units |-> IF u \in Alive THEN "due" ELSE "new"]
    BY DEF StartTick, people
<1>2. /\ units \in Seq(Units) /\ IsInjective(units) /\ Alive \subseteq Units
      /\ Alive = {units[m] : m \in DOMAIN units} /\ End \notin Alive
      /\ Len(units) \in Nat /\ DOMAIN units = 1 .. Len(units)
    BY AliveAre DEF IInv, PeopleOK
<1>3. Alive' = Alive
    BY <1>1 DEF Alive
<1>4. \A u \in Units \ Alive' : turn'[u] = "new"
    BY <1>1, <1>3
<1>5. CASE units = <<>>
  <2>1. Len(units) = 0
      BY <1>5
  <2>2. Alive = {}
      BY <1>2, <2>1
  <2> QED
      BY <1>1, <1>3, <1>4, <1>5, <2>2 DEF Turns
<1>6. CASE units # <<>>
  <2>1. 1 \in DOMAIN units /\ Head(units) = units[1]
    <3>1. Len(units) # 0
        BY <1>2, <1>6, EmptySeq
    <3> QED
        BY <1>2, <1>6, <3>1
  <2>2. j' = units[1] /\ k' = IF 1 = Len(units) THEN End ELSE units[2]
      BY <1>1, <1>2, <1>6, <2>1, SuccessorOf
  <2>3. j' # End
      BY <1>2, <2>1, <2>2
  <2>4. \A m \in DOMAIN units : turn'[units[m]] = "due"
      BY <1>1, <1>2
  <2>5. \A m \in DOMAIN units : m > 1 => k' # End
    <3> SUFFICES ASSUME NEW m \in DOMAIN units, m > 1 PROVE k' # End
        OBVIOUS
    <3>1. 2 \in DOMAIN units /\ 1 # Len(units)
        BY <1>2
    <3> QED
        BY <1>2, <2>2, <3>1
  <2>6. k' = End \/ (1 + 1 \in DOMAIN units /\ k' = units[1 + 1])
    <3>1. 1 # Len(units) => 2 \in DOMAIN units
        BY <1>2, <2>1
    <3> QED
        BY <2>2, <3>1
  <2>7. \A m \in DOMAIN units : ~(m < 1)
      BY <1>2
  <2>8. turn'[j'] = "due"
      BY <2>1, <2>2, <2>4
  <2>9. VisitsAt(1)'
      BY <1>1, <2>2, <2>4, <2>5, <2>6, <2>7, <2>8 DEF VisitsAt
  <2> QED
      BY <1>1, <1>4, <2>1, <2>3, <2>9 DEF Turns
<1> QED
    BY <1>5, <1>6

\* The unit at the iterator has its turn, which it had not yet.
LEMMA UpdateLayersTurns ==
    ASSUME IInv, Turns, UpdateLayers
    PROVE  Turns'
<1>1. /\ phase = "units" /\ j # End /\ step = 0 /\ step' = 1
      /\ UNCHANGED <<phase, units, j, k>>
      /\ turn' = [turn EXCEPT ![j] = IF @ = "done" THEN "twice" ELSE "done"]
    BY DEF UpdateLayers, AtLayers, Visiting, Visited, people
<1>2. /\ IsInjective(units) /\ Alive \subseteq Units /\ Alive = {units[m] : m \in DOMAIN units}
      /\ DOMAIN units \subseteq Nat
    BY AliveAre DEF IInv, PeopleOK
<1>3. PICK n \in DOMAIN units : VisitsAt(n)
    BY <1>1 DEF Turns
<1>4. j = units[n] /\ j \in Alive /\ turn[j] # "done"
    BY <1>1, <1>2, <1>3 DEF VisitsAt
<1>5. turn'[j] = "done" /\ \A u \in Units \ {j} : turn'[u] = turn[u]
  <2>1. turn \in [Units -> {"new", "due", "done", "twice"}] /\ j \in Units
      BY <1>2, <1>4 DEF IInv, RestOK
  <2> QED
      BY <1>1, <1>4, <2>1
<1>6. \A m \in DOMAIN units : m # n => turn'[units[m]] = turn[units[m]]
    BY <1>2, <1>4, <1>5 DEF IsInjective
<1>7. \A m \in DOMAIN units : (m < n \/ m > n) => m # n
    BY <1>2
<1>8. VisitsAt(n)'
    BY <1>1, <1>3, <1>5, <1>6, <1>7 DEF VisitsAt
<1>9. Alive' = Alive
    BY <1>1 DEF Alive
<1>10. \A u \in Units \ Alive' : turn'[u] = "new"
    BY <1>4, <1>5, <1>9 DEF Turns
<1> QED
    BY <1>1, <1>8, <1>10 DEF Turns

\* The next unit is the one that the second iterator holds.
LEMMA AdvanceTurns ==
    ASSUME IInv, Turns, Advance
    PROVE  Turns'
<1>1. /\ phase = "units" /\ j # End /\ step # 0 /\ step' = 0
      /\ UNCHANGED <<phase, turn, units>>
      /\ j' = k /\ k' = Successor(k)
    BY ArmsAre DEF Advance, AfterWeapons, Visiting, clock, people
<1>2. /\ units \in Seq(Units) /\ IsInjective(units) /\ Alive \subseteq Units
      /\ Alive = {units[m] : m \in DOMAIN units} /\ End \notin Alive
      /\ Len(units) \in Nat /\ DOMAIN units = 1 .. Len(units)
    BY AliveAre DEF IInv, PeopleOK
<1>3. PICK n \in DOMAIN units : VisitsAt(n)
    BY <1>1 DEF Turns
<1>4. turn[units[n]] = "done"
    BY <1>1, <1>3 DEF VisitsAt
<1>5. Alive' = Alive
    BY <1>1 DEF Alive
<1>6. CASE k = End
  <2>1. k' = End
      BY <1>1, <1>2, <1>6 DEF Successor
  <2>2. \A m \in DOMAIN units : turn[units[m]] \in {"new", "done"}
    <3> SUFFICES ASSUME NEW m \in DOMAIN units PROVE turn[units[m]] \in {"new", "done"}
        OBVIOUS
    <3>1. m < n \/ m = n \/ m > n
        BY <1>2
    <3> QED
        BY <1>3, <1>4, <1>6, <3>1 DEF VisitsAt
  <2>3. \A u \in Alive : turn[u] \in {"new", "done"}
      BY <1>2, <2>2
  <2> QED
      BY <1>1, <1>5, <1>6, <2>1, <2>3 DEF Turns
<1>7. CASE k # End
  <2>1. n + 1 \in DOMAIN units /\ k = units[n + 1]
      BY <1>3, <1>7 DEF VisitsAt
  <2>2. PICK l \in DOMAIN units : l = n + 1
      BY <2>1
  <2>3. k' = IF l = Len(units) THEN End ELSE units[l + 1]
      BY <1>1, <1>2, <2>1, <2>2, SuccessorOf
  <2>4. k' = End \/ (l + 1 \in DOMAIN units /\ k' = units[l + 1])
    <3>1. l # Len(units) => l + 1 \in DOMAIN units
        BY <1>2
    <3> QED
        BY <2>3, <3>1
  <2>5. \A m \in DOMAIN units : m < l => turn[units[m]] = "done"
    <3> SUFFICES ASSUME NEW m \in DOMAIN units, m < l PROVE turn[units[m]] = "done"
        OBVIOUS
    <3>1. m < n \/ m = n
        BY <1>2, <2>2
    <3> QED
        BY <1>3, <1>4, <3>1 DEF VisitsAt
  <2>6. \A m \in DOMAIN units : m >= l => turn[units[m]] \in {"due", "new"}
    <3> SUFFICES ASSUME NEW m \in DOMAIN units, m >= l PROVE turn[units[m]] \in {"due", "new"}
        OBVIOUS
    <3>1. m > n
        BY <1>2, <2>2
    <3> QED
        BY <1>3, <3>1 DEF VisitsAt
  <2>7. \A m \in DOMAIN units : m > l => k' # End
    <3> SUFFICES ASSUME NEW m \in DOMAIN units, m > l PROVE k' # End
        OBVIOUS
    <3>1. l # Len(units) /\ l + 1 \in DOMAIN units
        BY <1>2
    <3>2. units[l + 1] \in Alive
        BY <1>2, <3>1
    <3> QED
        BY <1>2, <2>3, <3>1, <3>2
  <2>8. j' = units[l] /\ turn[j'] \in {"due", "new"}
    <3>1. l >= l
        BY <1>2
    <3> QED
        BY <1>1, <2>1, <2>2, <2>6, <3>1
  <2>9. \A m \in DOMAIN units : m > l => m >= l
      BY <1>2
  <2>10. VisitsAt(l)'
      BY <1>1, <2>4, <2>5, <2>6, <2>7, <2>8, <2>9 DEF VisitsAt
  <2> QED
      BY <1>1, <1>5, <1>7, <2>10 DEF Turns
<1> QED
    BY <1>6, <1>7

\* A unit spawned goes to the end of the list, where the loop may still come.
LEMMA CreateTurns ==
    ASSUME IInv, Turns, Create
    PROVE  Turns'
<1>1. PICK weapon \in DOMAIN Creates :
         /\ AtWeapon(weapon)
         /\ Spawn(Creates[weapon], 1, <<Layer("building", 1)>>)
         /\ step' = step + 1
         /\ UNCHANGED <<clock, shots, areas, fuses, j, k, it, effectHappened, fatal>>
    BY DEF Create
<1>2. /\ phase = "units" /\ j # End /\ step # 0 /\ step' # 0
      /\ UNCHANGED <<phase, turn, j, k>>
    BY <1>1, ArmsAre DEF AtWeapon, Visiting, clock
<1>3. PICK new : new = Min(Free)
    OBVIOUS
<1>4. new \in Units /\ new \notin Alive
  <2>1. Free # {} /\ Free \subseteq Nat
      BY <1>1, WorldAssumption DEF Spawn, Free
  <2>2. new \in Free
      BY <1>3, <2>1, LeastOf
  <2> QED
      BY <2>2 DEF Free
<1>5. units' = Append(units, new)
    BY <1>1, <1>3 DEF Spawn
<1>6. /\ units \in Seq(Units) /\ Alive = {units[m] : m \in DOMAIN units}
      /\ Len(units) \in Nat /\ DOMAIN units = 1 .. Len(units)
    BY AliveAre DEF IInv, PeopleOK
<1>7. /\ units' \in Seq(Units) /\ Len(units') = Len(units) + 1
      /\ \A n \in 1 .. Len(units) : units'[n] = units[n]
      /\ units'[Len(units) + 1] = new
    BY <1>4, <1>5, <1>6, AppendProperties
<1>8. DOMAIN units' = 1 .. Len(units) + 1
    BY <1>7, LenProperties
<1>9. \A m \in DOMAIN units' : \/ m = Len(units) + 1 /\ units'[m] = new
                               \/ m \in DOMAIN units /\ units'[m] = units[m]
    BY <1>6, <1>7, <1>8
<1>10. \A m \in DOMAIN units : m \in DOMAIN units' /\ units'[m] = units[m]
    BY <1>6, <1>7, <1>8
<1>11. turn[new] = "new"
    BY <1>4 DEF Turns
<1>12. Alive \subseteq Alive'
  <2>1. Alive' = {units'[m] : m \in DOMAIN units'}
      BY DEF Alive, Range
  <2> QED
      BY <1>6, <1>10, <2>1
<1>13. PICK n \in DOMAIN units : VisitsAt(n)
    BY <1>2 DEF Turns
<1>14. VisitsAt(n)'
  <2>1. \A m \in DOMAIN units' : m < n => turn[units'[m]] = "done"
    <3> SUFFICES ASSUME NEW m \in DOMAIN units', m < n PROVE turn[units'[m]] = "done"
        OBVIOUS
    <3>1. m # Len(units) + 1
        BY <1>6
    <3> QED
        BY <1>9, <1>13, <3>1 DEF VisitsAt
  <2>2. \A m \in DOMAIN units' : m > n =>
           turn[units'[m]] = "new" \/ (turn[units'[m]] = "due" /\ k # End)
      BY <1>9, <1>11, <1>13 DEF VisitsAt
  <2>3. k = End \/ (n + 1 \in DOMAIN units' /\ k = units'[n + 1])
      BY <1>10, <1>13 DEF VisitsAt
  <2>4. units'[n] = j
      BY <1>10, <1>13 DEF VisitsAt
  <2>5. turn[j] = "done"
      BY <1>2, <1>13 DEF VisitsAt
  <2> QED
      BY <1>2, <2>1, <2>2, <2>3, <2>4, <2>5 DEF VisitsAt
<1>15. n \in DOMAIN units'
    BY <1>10
<1> QED
    BY <1>2, <1>12, <1>14, <1>15 DEF Turns

\* Every step of the game keeps Turns.
LEMMA NextKeepsTurns ==
    ASSUME IInv, Turns, [Next]_vars
    PROVE  Turns'
<1>1. CASE UNCHANGED vars
  <2>1. UNCHANGED <<phase, turn, units, j, k, step>>
      BY <1>1 DEF vars, clock, people, loops
  <2>2. Alive' = Alive
      BY <2>1 DEF Alive
  <2> QED
      BY <2>1, <2>2 DEF Turns, VisitsAt
<1>2. CASE StartTick(MaxTime)
    BY <1>2, StartTickTurns
<1>3. CASE HoldFire \/ FireCannon \/ FireParalyzer \/ Build
  <2>1. /\ Visiting /\ step \in DOMAIN Arms /\ step' = step + 1
        /\ UNCHANGED <<phase, turn, units, j, k>>
    <3>1. CASE HoldFire \/ FireCannon \/ FireParalyzer
        BY <3>1 DEF HoldFire, FireCannon, FireParalyzer, AtWeapon, clock, people
    <3>2. CASE Build
        BY <3>2 DEF Build, AtWeapon, clock
    <3> QED
        BY <1>3, <3>1, <3>2
  <2> QED
      BY <2>1, ArmsAre, AtTheWeapons DEF Visiting
<1>4. CASE Create
    BY <1>4, CreateTurns
<1>5. CASE UpdateLayers
    BY <1>5, UpdateLayersTurns
<1>6. CASE Advance
    BY <1>6, AdvanceTurns
<1>7. CASE UnitsDone
  <2>1. phase' = "ballistics" /\ turn' = [u \in Units |-> "new"]
      BY <1>7 DEF UnitsDone
  <2> QED
      BY <2>1 DEF Turns
<1>8. CASE Fly \/ BallisticsDone \/ RemoveBeam \/ Misses \/ BeamsDone \/ EffectsDone
           \/ FusesDone \/ NewDone \/ Collide
  <2>1. phase # "units" /\ phase' # "units" /\ turn' = turn
    <3>1. CASE Fly \/ RemoveBeam \/ Misses \/ Collide
        BY <3>1 DEF Fly, RemoveBeam, Misses, Shines, Collide, Collides, clock
    <3>2. CASE BallisticsDone \/ BeamsDone \/ EffectsDone
        BY <3>2 DEF BallisticsDone, BeamsDone, EffectsDone, Turn
    <3>3. CASE FusesDone \/ NewDone
        BY <3>3 DEF FusesDone, NewDone
    <3> QED
        BY <1>8, <3>1, <3>2, <3>3
  <2> QED
      BY <2>1, OutsideTheLoop
<1>9. CASE SkipRemoved \/ Paralyse \/ EngulfOld \/ NewEffect \/ ExpireFuse
  <2>1. phase # "units" /\ phase' # "units" /\ turn' = turn
    <3>1. CASE SkipRemoved
        BY <3>1 DEF SkipRemoved, Due, clock
    <3>2. CASE Paralyse
        BY <3>2 DEF Paralyse, Shines, clock
    <3>3. CASE EngulfOld
        BY <3>3 DEF EngulfOld, Engulfs, clock
    <3>4. CASE NewEffect
        BY <3>4 DEF NewEffect, Happens, clock
    <3>5. CASE ExpireFuse
        BY <3>5, ExpireFuseDoes DEF Due
    <3> QED
        BY <1>9, <3>1, <3>2, <3>3, <3>4, <3>5
  <2> QED
      BY <2>1, OutsideTheLoop
<1>10. CASE Next
    BY <1>2, <1>3, <1>4, <1>5, <1>6, <1>7, <1>8, <1>9, <1>10 DEF Next, Loop
<1> QED
    BY <1>1, <1>10

\* The loop over the units updates none twice and leaves out none.
THEOREM UnitsVisitedOnce ==
    Spec => []EveryUnitOnce
<1>1. Init => Turns
    BY DEF Init, Turns
<1>2. IInv /\ Turns /\ [Next]_vars => Turns'
    BY NextKeepsTurns
<1>3. IInv /\ Turns => EveryUnitOnce
    BY TurnsImply
<1> QED
    BY <1>1, <1>2, <1>3, Invariance, PTL DEF Spec

-----------------------------------------------------------------------------
(* Hit points under construction *)

\* No kind comes back to itself when its corpses are killed, and theirs.
CorpsesEnd == \E rank : Descends(rank)

\* A unit that is a corpse is of lower rank than what it was.
Health(rank) ==
    \A u \in Alive :
        /\ core[u].kind = core[u].arms \/ rank[core[u].kind] < rank[core[u].arms]
        /\ core[u].kind = core[u].arms => Within(core[u])

\* Health is strong enough.
LEMMA HealthImplies ==
    ASSUME NEW rank
    PROVE  Health(rank) => HealthWithinBuilt
BY DEF Health, HealthWithinBuilt, Within, LayersOf

\* A unit of which nothing matters but its kind, what it was, its hit points and
\* its layers under construction.
HealthOf(c, rank) ==
    /\ c.kind = c.arms \/ rank[c.kind] < rank[c.arms]
    /\ c.kind = c.arms => Within(c)

\* A unit loses layers and keeps its health.
LEMMA LayersOnly ==
    ASSUME NEW c, NEW d, NEW rank, HealthOf(c, rank),
           d.kind = c.kind, d.arms = c.arms, d.hp = c.hp,
           \A m \in DOMAIN d.layers : d.layers[m].type = "building" =>
              \E n \in DOMAIN c.layers : c.layers[n] = d.layers[m]
    PROVE  HealthOf(d, rank)
BY DEF HealthOf, Within

\* Health, said of one unit.
LEMMA HealthIs ==
    ASSUME NEW rank
    PROVE  Health(rank) <=> \A u \in Alive : HealthOf(core[u], rank)
BY DEF Health, HealthOf

\* Nothing is under construction at first.
LEMMA HealthAtFirst ==
    ASSUME NEW rank, Init
    PROVE  Health(rank)
<1> SUFFICES ASSUME NEW u \in Alive PROVE HealthOf(core[u], rank)
    BY HealthIs
<1>1. u \in Units /\ u \in DOMAIN InitialUnits
  <2>1. Alive = DOMAIN InitialUnits
      BY DEF Init, Alive, Range
  <2> QED
      BY <2>1, WorldAssumption
<1>2. PICK kind : kind = InitialUnits[u]
    OBVIOUS
<1>3. core[u] = Unit(kind, MaxHitPoints[kind], kind, <<>>)
    BY <1>1, <1>2 DEF Init
<1>4. core[u].kind = kind /\ core[u].arms = kind /\ core[u].layers = <<>>
    BY <1>3 DEF Unit
<1>5. DOMAIN core[u].layers = {}
    BY <1>4
<1> QED
    BY <1>4, <1>5 DEF HealthOf, Within

\* A unit is created with the one hit point that was built.
LEMMA CreateHealth ==
    ASSUME IInv, NEW rank, Health(rank), Create
    PROVE  Health(rank)'
<1>1. PICK weapon \in DOMAIN Creates : Spawn(Creates[weapon], 1, <<Layer("building", 1)>>)
    BY DEF Create
<1>2. PICK new : new = Min(Free)
    OBVIOUS
<1>3. new \in Units
  <2>1. Free # {} /\ Free \subseteq Nat
      BY <1>1, WorldAssumption DEF Spawn, Free
  <2>2. new \in Free
      BY <1>2, <2>1, LeastOf
  <2> QED
      BY <2>2 DEF Free
<1>4. PICK kind : kind = Creates[weapon]
    OBVIOUS
<1>5. PICK made : made = Unit(kind, 1, kind, <<Layer("building", 1)>>)
    OBVIOUS
<1>6. units' = Append(units, new) /\ core' = [core EXCEPT ![new] = made]
    BY <1>1, <1>2, <1>4, <1>5 DEF Spawn
<1>7. HealthOf(made, rank)
  <2>1. PICK layer : layer = Layer("building", 1)
      OBVIOUS
  <2>2. layer.n = 1
      BY <2>1 DEF Layer
  <2>3. made.kind = kind /\ made.arms = kind /\ made.hp = 1 /\ made.layers = <<layer>>
      BY <1>5, <2>1 DEF Unit
  <2>4. DOMAIN <<layer>> = {1} /\ <<layer>>[1] = layer
      OBVIOUS
  <2> QED
      BY <2>2, <2>3, <2>4 DEF HealthOf, Within
<1>8. \A u \in Alive' : u = new \/ u \in Alive
  <2>1. /\ units \in Seq(Units) /\ Len(units) \in Nat /\ DOMAIN units = 1 .. Len(units)
        /\ Alive = {units[m] : m \in DOMAIN units}
      BY AliveAre DEF IInv, PeopleOK
  <2>2. /\ units' \in Seq(Units) /\ Len(units') = Len(units) + 1
        /\ \A n \in 1 .. Len(units) : units'[n] = units[n]
        /\ units'[Len(units) + 1] = new
      BY <1>3, <1>6, <2>1, AppendProperties
  <2>3. DOMAIN units' = 1 .. Len(units) + 1
      BY <2>2, LenProperties
  <2>4. \A m \in DOMAIN units' : units'[m] = new \/ units'[m] \in Alive
      BY <2>1, <2>2, <2>3
  <2>5. Alive' = {units'[m] : m \in DOMAIN units'}
      BY DEF Alive, Range
  <2> QED
      BY <2>4, <2>5
<1>9. ASSUME NEW u \in Alive' PROVE HealthOf(core'[u], rank)
  <2>1. CASE u = new
    <3>1. core'[u] = made
        BY <1>3, <1>6, <2>1 DEF IInv, PeopleOK
    <3> QED
        BY <1>7, <3>1
  <2>2. CASE u # new
    <3>1. u \in Alive /\ u \in Units
        BY <1>8, <2>2, EveryUnitOK DEF IInv
    <3>2. core'[u] = core[u]
        BY <1>6, <2>2, <3>1 DEF IInv, PeopleOK
    <3> QED
        BY <3>1, <3>2, HealthIs
  <2> QED
      BY <2>1, <2>2
<1> QED
    BY <1>9 DEF Health, HealthOf

\* Building adds no more hit points than it builds.
LEMMA BuildHealth ==
    ASSUME IInv, NEW rank, Health(rank), Build
    PROVE  Health(rank)'
<1>1. Alive' = Alive
    BY BuildDoes DEF Alive
<1>2. CASE UNCHANGED core
    BY <1>1, <1>2 DEF Health, Within
<1>3. CASE \E u \in Alive : \E i \in LayersOf(u, "building") : Construct(u, i)
  <2>1. PICK u \in Alive : \E i \in LayersOf(u, "building") : Construct(u, i)
      BY <1>3
  <2>2. PICK i \in LayersOf(u, "building") : Construct(u, i)
      BY <2>1
  <2>3. /\ \A v \in Units \ {u} : core'[v] = core[v]
        /\ core'[u].kind = core[u].kind /\ core'[u].arms = core[u].arms
        /\ Within(core[u]) => Within(core'[u])
      BY <2>2, ConstructDoes DEF IInv
  <2>4. HealthOf(core'[u], rank)
      BY <2>3 DEF Health, HealthOf
  <2>5. \A v \in Alive \ {u} : HealthOf(core'[v], rank)
      BY <2>3, EveryUnitOK, HealthIs DEF IInv
  <2>6. \A v \in Alive' : HealthOf(core'[v], rank)
      BY <1>1, <2>4, <2>5
  <2> QED
      BY <2>6 DEF Health, HealthOf
<1> QED
    BY <1>2, <1>3, BuildDoes

\* A paralysing layer is put over the others.
LEMMA ParalyseHealth ==
    ASSUME IInv, NEW rank, Health(rank), Paralyse
    PROVE  Health(rank)'
<1>1. PICK u \in Alive : /\ core' = InsertLayer(u, Layer("paralysing", NextToken))
                         /\ units' = units
    BY DEF Paralyse
<1>2. Alive' = Alive
    BY <1>1 DEF Alive
<1>3. u \in Units /\ DOMAIN core = Units /\ UnitOK(core[u], FusesOf(u))
    BY EveryUnitOK DEF IInv, PeopleOK
<1>4. PICK c : c = core[u]
    OBVIOUS
<1>5. PICK layer : layer = Layer("paralysing", NextToken)
    OBVIOUS
<1>6. layer.type = "paralysing" /\ layer \in Layers
  <2>1. NextToken \in Nat
      BY TokenAfter, WorldAssumption DEF IInv, FusesOK, Tokens
  <2> QED
      BY <1>5, <2>1 DEF Layer, Layers
<1>7. PICK old : old = c.layers
    OBVIOUS
<1>8. old \in Seq(Layers) /\ Len(old) \in Nat /\ DOMAIN old = 1 .. Len(old)
    BY <1>3, <1>4, <1>7, LayersHave DEF UnitOK, Carries
<1>9. PICK ls : ls = <<layer>> \o old
    OBVIOUS
<1>10. \A m \in DOMAIN ls : ls[m] = layer \/ \E n \in DOMAIN old : old[n] = ls[m]
  <2>1. <<layer>> \in Seq(Layers) /\ Len(<<layer>>) = 1 /\ <<layer>>[1] = layer
      BY <1>6
  <2>2. /\ ls \in Seq(Layers) /\ Len(ls) = 1 + Len(old)
        /\ \A i \in 1 .. 1 + Len(old) : ls[i] = IF i <= 1 THEN <<layer>>[i] ELSE old[i - 1]
      BY <1>8, <1>9, <2>1, ConcatProperties
  <2>3. DOMAIN ls = 1 .. Len(ls)
      BY <2>2, LenProperties
  <2>4. ASSUME NEW m \in DOMAIN ls, m # 1 PROVE m - 1 \in DOMAIN old /\ ls[m] = old[m - 1]
      BY <1>8, <2>2, <2>3, <2>4
  <2>5. 1 \in DOMAIN ls => ls[1] = layer
      BY <1>8, <2>1, <2>2
  <2> QED
      BY <2>4, <2>5
<1>11. core' = [core EXCEPT ![u].layers = ls]
    BY <1>1, <1>4, <1>5, <1>7, <1>9 DEF InsertLayer
<1>12. core'[u] = [c EXCEPT !.layers = ls] /\ \A v \in Units \ {u} : core'[v] = core[v]
    BY <1>3, <1>4, <1>11
<1>13. PICK d : d = core'[u]
    OBVIOUS
<1>14. d.kind = c.kind /\ d.arms = c.arms /\ d.hp = c.hp /\ d.layers = ls
    BY <1>3, <1>4, <1>12, <1>13 DEF UnitOK
<1>15. HealthOf(d, rank)
  <2>1. HealthOf(c, rank)
      BY <1>4, HealthIs
  <2>2. \A m \in DOMAIN d.layers : d.layers[m].type = "building" =>
              \E n \in DOMAIN c.layers : c.layers[n] = d.layers[m]
      BY <1>6, <1>7, <1>10, <1>14
  <2> QED
      BY <1>14, <2>1, <2>2, LayersOnly
<1>16. \A v \in Alive \ {u} : HealthOf(core'[v], rank)
    BY <1>12, EveryUnitOK, HealthIs DEF IInv
<1>17. \A v \in Alive' : HealthOf(core'[v], rank)
    BY <1>2, <1>13, <1>15, <1>16
<1> QED
    BY <1>17 DEF Health, HealthOf

\* A paralysing layer goes from among the others.
LEMMA ExpireFuseHealth ==
    ASSUME IInv, NEW rank, Health(rank), ExpireFuse
    PROVE  Health(rank)'
<1>1. PICK token : token = Top(fuseQueue).token
    OBVIOUS
<1>2. PICK u : u = fuseMap[token]
    OBVIOUS
<1>3. units' = units /\ u \in Alive
    BY <1>1, <1>2, ExpireFuseDoes DEF IInv, FusesOK
<1>4. PICK i \in OwnLayer(u, token) : core' = WithoutLayer(u, i)
    BY <1>1, <1>2, ExpireFuseDoes
<1>5. u \in Units /\ DOMAIN core = Units /\ UnitOK(core[u], FusesOf(u))
    BY <1>3, EveryUnitOK DEF IInv, PeopleOK
<1>6. PICK c : c = core[u]
    OBVIOUS
<1>7. PICK old : old = c.layers
    OBVIOUS
<1>8. Carries(old, FusesOf(u)) /\ i \in DOMAIN old
    BY <1>4, <1>5, <1>6, <1>7 DEF UnitOK, OwnLayer, LayersOf
<1>9. PICK ls : ls = RemoveAt(old, i)
    OBVIOUS
<1>10. \A m \in DOMAIN ls : \E n \in DOMAIN old : old[n] = ls[m]
    BY <1>8, <1>9, CarriesOneLess
<1>11. core' = [core EXCEPT ![u].layers = ls]
    BY <1>4, <1>6, <1>7, <1>9 DEF WithoutLayer
<1>12. core'[u] = [c EXCEPT !.layers = ls] /\ \A v \in Units \ {u} : core'[v] = core[v]
    BY <1>5, <1>6, <1>11
<1>13. PICK d : d = core'[u]
    OBVIOUS
<1>14. d.kind = c.kind /\ d.arms = c.arms /\ d.hp = c.hp /\ d.layers = ls
    BY <1>5, <1>6, <1>12, <1>13 DEF UnitOK
<1>15. HealthOf(d, rank)
  <2>1. HealthOf(c, rank)
      BY <1>3, <1>6, HealthIs
  <2>2. \A m \in DOMAIN d.layers : \E n \in DOMAIN c.layers : c.layers[n] = d.layers[m]
      BY <1>7, <1>10, <1>14
  <2> QED
      BY <1>14, <2>1, <2>2, LayersOnly
<1>16. Alive' = Alive
    BY <1>3 DEF Alive
<1>17. \A v \in Alive \ {u} : HealthOf(core'[v], rank)
    BY <1>12, EveryUnitOK, HealthIs DEF IInv
<1>18. \A v \in Alive' : HealthOf(core'[v], rank)
    BY <1>13, <1>15, <1>16, <1>17
<1> QED
    BY <1>18 DEF Health, HealthOf

\* Damage takes hit points, or makes a corpse.
LEMMA DamageHealth ==
    ASSUME IInv, NEW rank, Descends(rank), Health(rank),
           NEW us \in SUBSET Alive, Explode(us)
    PROVE  Health(rank)'
<1>1. PICK dead \in SUBSET us : Hurt(us, dead, rank)
    BY DamageDoes
<1>2. Alive' = Alive \ dead /\ Alive \subseteq Units
  <2>1. units \in Seq(Units) /\ units' = Without(units, dead)
      BY <1>1 DEF IInv, PeopleOK, Hurt
  <2>2. Range(units') = Range(units) \ dead
      BY <2>1, WithoutElements
  <2> QED
      BY <2>1, <2>2, AliveAre DEF Alive
<1>3. ASSUME NEW u \in Alive' PROVE HealthOf(core'[u], rank)
  <2>1. u \in Alive /\ u \in Units /\ u \notin dead /\ HealthOf(core[u], rank)
      BY <1>2, HealthIs
  <2>2. CASE u \notin us
    <3>1. core'[u] = core[u]
        BY <1>1, <2>1, <2>2 DEF Hurt
    <3> QED
        BY <2>1, <3>1
  <2>3. CASE u \in us
    <3>1. PICK c : c = core[u]
        OBVIOUS
    <3>2. PICK d : d = core'[u]
        OBVIOUS
    <3>3. /\ d \in [kind : Kinds, hp : Nat \ {0}, arms : Kinds, layers : Seq(Layers)]
          /\ d.arms = c.arms /\ d.layers = c.layers
          /\ Remains(<<d.kind, d.hp>>, c.kind, c.hp, rank)
        BY <1>1, <2>1, <2>3, <3>1, <3>2 DEF Hurt
    <3>4. UnitOK(c, FusesOf(u)) /\ HealthOf(c, rank)
        BY <2>1, <3>1, EveryUnitOK DEF IInv
    <3>5. (d.kind = c.kind /\ d.hp <= c.hp) \/ rank[d.kind] < rank[c.kind]
      <4>1. d.kind # NoKind
          BY <3>3, WorldAssumption
      <4> QED
          BY <3>3, <4>1 DEF Remains
    <3>6. CASE d.kind = c.kind /\ d.hp <= c.hp
      <4>1. d.kind = d.arms \/ rank[d.kind] < rank[d.arms]
          BY <3>3, <3>4, <3>6 DEF HealthOf
      <4>2. ASSUME d.kind = d.arms,
                   NEW i \in DOMAIN d.layers, d.layers[i].type = "building"
            PROVE  d.hp <= d.layers[i].n
        <5>1. c.hp <= c.layers[i].n
            BY <3>3, <3>4, <3>6, <4>2 DEF HealthOf, Within
        <5>2. c.layers[i].n \in Nat
          <6>1. c.layers \in Seq(Layers)
              BY <3>4 DEF UnitOK
          <6>2. c.layers[i] \in Layers
              BY <3>3, <4>2, <6>1, LayersHave
          <6> QED
              BY <6>2 DEF Layers
        <5>3. c.hp \in Nat /\ d.hp \in Nat
            BY <3>3, <3>4 DEF UnitOK
        <5> QED
            BY <3>3, <3>6, <5>1, <5>2, <5>3
      <4> QED
          BY <3>2, <4>1, <4>2 DEF HealthOf, Within
    <3>7. CASE rank[d.kind] < rank[c.kind]
      <4>1. c.kind \in Kinds /\ c.arms \in Kinds
          BY <3>4 DEF UnitOK
      <4>2. rank[d.kind] \in Nat /\ rank[c.kind] \in Nat /\ rank[c.arms] \in Nat
          BY <3>3, <4>1 DEF Descends
      <4>3. c.kind = c.arms \/ rank[c.kind] < rank[c.arms]
          BY <3>4 DEF HealthOf
      <4>4. rank[d.kind] < rank[c.arms]
          BY <3>7, <4>2, <4>3
      <4>5. d.kind # d.arms
          BY <3>3, <4>2, <4>4
      <4> QED
          BY <3>2, <3>3, <4>4, <4>5 DEF HealthOf
    <3> QED
        BY <3>5, <3>6, <3>7
  <2> QED
      BY <2>2, <2>3
<1> QED
    BY <1>3 DEF Health, HealthOf

\* Every step of the game keeps Health.
LEMMA NextKeepsHealth ==
    ASSUME IInv, NEW rank, Descends(rank), Health(rank), [Next]_vars
    PROVE  Health(rank)'
<1>1. CASE UNCHANGED <<units, core>>
  <2>1. Alive' = Alive
      BY <1>1 DEF Alive
  <2> QED
      BY <1>1, <2>1 DEF Health, Within
<1>2. CASE EngulfOld \/ NewEffect
  <2>1. PICK us \in SUBSET Alive : Explode(us)
      BY <1>2 DEF EngulfOld, NewEffect
  <2> QED
      BY <2>1, DamageHealth
<1>3. CASE Next /\ ~(EngulfOld \/ NewEffect)
  <2>1. PlainStep \/ SkipRemoved \/ Create \/ Build \/ Paralyse \/ ExpireFuse
      BY <1>3 DEF Next, Loop, PlainStep
  <2>2. CASE PlainStep \/ SkipRemoved
    <3>1. UNCHANGED <<units, core>>
        BY <2>2, PlainStepsLeave DEF SkipRemoved, people
    <3> QED
        BY <1>1, <3>1
  <2> QED
      BY <2>1, <2>2, CreateHealth, BuildHealth, ParalyseHealth, ExpireFuseHealth
<1> QED
    BY <1>1, <1>2, <1>3 DEF vars, people

\* What is under construction has no more hit points than were built, whatever
\* hurts it, if no kind leaves itself as its corpse in the end.
THEOREM ConstructionWithinBuilt ==
    ASSUME CorpsesEnd
    PROVE  Spec => []HealthWithinBuilt
<1>1. PICK rank : Descends(rank)
    BY DEF CorpsesEnd
<1>2. Init => Health(rank)
    BY HealthAtFirst
<1>3. IInv /\ Health(rank) /\ [Next]_vars => Health(rank)'
    BY <1>1, NextKeepsHealth
<1>4. Health(rank) => HealthWithinBuilt
    BY HealthImplies
<1> QED
    BY <1>2, <1>3, <1>4, Invariance, PTL DEF Spec

-----------------------------------------------------------------------------
(* The book of fuses *)

\* What FuseBook's book lists
Entries == [time : Times, token : Tokens]

\* The entries of a set, those first whose tokens were given out first.
Lists(b, set, last) ==
    /\ b \in Seq(Entries) /\ Range(b) = set
    /\ \A i, m \in DOMAIN b : i < m => Age(b[i].token, last) > Age(b[m].token, last)

\* What is in a list.
LEMMA ListsHave ==
    ASSUME NEW b, NEW set, NEW last \in Tokens, Lists(b, set, last)
    PROVE  /\ Len(b) \in Nat /\ DOMAIN b = 1 .. Len(b)
           /\ set = {b[i] : i \in DOMAIN b}
           /\ \A i \in DOMAIN b : b[i] \in Entries /\ b[i] \in set /\ Age(b[i].token, last) \in Nat
<1>1. Len(b) \in Nat /\ DOMAIN b = 1 .. Len(b)
    BY LenProperties DEF Lists
<1>2. \A i \in DOMAIN b : b[i] \in Entries
    BY <1>1, ElementOfSeq DEF Lists
<1>3. set = {b[i] : i \in DOMAIN b}
    BY DEF Lists, Range
<1>4. \A e \in Entries : Age(e.token, last) \in Nat
    BY Ages, WorldAssumption DEF Entries
<1> QED
    BY <1>1, <1>2, <1>3, <1>4

\* There is only one such list.
LEMMA ListsAgree ==
    ASSUME NEW a, NEW b, NEW set, NEW last \in Tokens, Lists(a, set, last), Lists(b, set, last)
    PROVE  \A i \in DOMAIN a : i \in DOMAIN b /\ a[i] = b[i]
<1> DEFINE S == {c \in 0 .. Len(a) : \A i \in 1 .. c : i \in DOMAIN b /\ a[i] = b[i]}
<1>1. /\ Len(a) \in Nat /\ DOMAIN a = 1 .. Len(a)
      /\ set = {a[i] : i \in DOMAIN a}
      /\ \A i \in DOMAIN a : a[i] \in set /\ Age(a[i].token, last) \in Nat
    BY ListsHave
<1>2. /\ Len(b) \in Nat /\ DOMAIN b = 1 .. Len(b)
      /\ set = {b[i] : i \in DOMAIN b}
      /\ \A i \in DOMAIN b : b[i] \in set /\ Age(b[i].token, last) \in Nat
    BY ListsHave
<1>3. 0 \in S
    BY <1>1
<1>4. ASSUME NEW c \in 0 .. Len(a) - 1, c \in S PROVE c + 1 \in S
  <2>1. c + 1 \in DOMAIN a /\ c \in Nat
      BY <1>1
  <2>2. \A i \in 1 .. c : i \in DOMAIN b /\ a[i] = b[i] /\ i \in DOMAIN a /\ i < c + 1
      BY <1>1, <1>4
  <2>3. PICK m \in DOMAIN b : b[m] = a[c + 1]
      BY <1>1, <1>2, <2>1
  <2>4. m > c
    <3> SUFFICES ASSUME m <= c PROVE FALSE
        BY <1>2, <2>1
    <3>1. m \in 1 .. c
        BY <1>2, <2>1
    <3>2. a[m] = a[c + 1]
        BY <2>2, <2>3, <3>1
    <3>3. Age(a[m].token, last) > Age(a[c + 1].token, last)
        BY <2>1, <2>2, <3>1 DEF Lists
    <3> QED
        BY <1>1, <2>1, <3>2, <3>3
  <2>5. c + 1 \in DOMAIN b
      BY <1>2, <2>1, <2>4
  <2>6. PICK x \in DOMAIN a : a[x] = b[c + 1]
      BY <1>1, <1>2, <2>5
  <2>7. x > c
    <3> SUFFICES ASSUME x <= c PROVE FALSE
        BY <1>1, <2>1
    <3>1. x \in 1 .. c
        BY <1>1, <2>1
    <3>2. b[x] = b[c + 1]
        BY <2>2, <2>6, <3>1
    <3>3. Age(b[x].token, last) > Age(b[c + 1].token, last)
        BY <2>2, <2>5, <3>1 DEF Lists
    <3> QED
        BY <1>2, <2>5, <3>2, <3>3
  <2>8. a[c + 1] = b[c + 1]
    <3>1. CASE x = c + 1
        BY <2>6, <3>1
    <3>2. CASE x # c + 1
      <4>1. c + 1 < x
          BY <1>1, <2>1, <2>7, <3>2
      <4>2. Age(a[c + 1].token, last) > Age(a[x].token, last)
          BY <2>1, <4>1 DEF Lists
      <4>3. Age(b[m].token, last) > Age(b[c + 1].token, last)
          BY <2>3, <2>6, <4>2
      <4>4. m # c + 1
          BY <1>2, <2>5, <4>3
      <4>5. c + 1 < m
          BY <1>2, <2>1, <2>4, <4>4
      <4>6. Age(b[c + 1].token, last) > Age(b[m].token, last)
          BY <2>5, <4>5 DEF Lists
      <4>7. Age(b[m].token, last) \in Nat /\ Age(b[c + 1].token, last) \in Nat
          BY <1>2, <2>5
      <4>8. PICK x1, y1 : x1 = Age(b[m].token, last) /\ y1 = Age(b[c + 1].token, last)
          OBVIOUS
      <4>9. x1 \in Nat /\ y1 \in Nat /\ x1 > y1 /\ y1 > x1
          BY <4>3, <4>6, <4>7, <4>8
      <4> QED
          BY <4>9
    <3> QED
        BY <3>1, <3>2
  <2>9. \A i \in 1 .. c + 1 : i \in DOMAIN b /\ a[i] = b[i]
    <3> SUFFICES ASSUME NEW i \in 1 .. c + 1 PROVE i \in DOMAIN b /\ a[i] = b[i]
        OBVIOUS
    <3>1. i \in 1 .. c \/ i = c + 1
        BY <2>1
    <3> QED
        BY <2>2, <2>5, <2>8, <3>1
  <2> QED
      BY <1>1, <2>9
<1> HIDE DEF S
<1>5. \A c \in 0 .. Len(a) : c \in S
    BY <1>1, <1>3, <1>4, CountUp
<1>6. Len(a) \in S
    BY <1>1, <1>5
<1> QED
    BY <1>1, <1>6 DEF S

\* There is only one list of a set.
LEMMA OneList ==
    ASSUME NEW a, NEW b, NEW set, NEW last \in Tokens, Lists(a, set, last), Lists(b, set, last)
    PROVE  a = b
<1>1. \A i \in DOMAIN a : i \in DOMAIN b /\ a[i] = b[i]
    BY ListsAgree
<1>2. \A i \in DOMAIN b : i \in DOMAIN a
    BY ListsAgree
<1>3. /\ Len(a) \in Nat /\ DOMAIN a = 1 .. Len(a)
      /\ Len(b) \in Nat /\ DOMAIN b = 1 .. Len(b)
    BY ListsHave
<1>4. Len(a) = Len(b)
  <2>1. Len(a) <= Len(b)
    <3>1. Len(a) = 0 \/ Len(a) \in DOMAIN a
        BY <1>3
    <3> QED
        BY <1>1, <1>3, <3>1
  <2>2. Len(b) <= Len(a)
    <3>1. Len(b) = 0 \/ Len(b) \in DOMAIN b
        BY <1>3
    <3> QED
        BY <1>2, <1>3, <3>1
  <2>3. PICK x, y : x = Len(a) /\ y = Len(b)
      OBVIOUS
  <2>4. x \in Nat /\ y \in Nat /\ x <= y /\ y <= x
      BY <1>3, <2>1, <2>2, <2>3
  <2>5. x = y
      BY <2>4
  <2> QED
      BY <2>3, <2>5
<1>5. a \in Seq(Entries) /\ b \in Seq(Entries)
    BY DEF Lists
<1> QED
    BY <1>1, <1>3, <1>4, <1>5, SeqEqual

\* Two lists make one if what is in the one is older than what is in the other.
LEMMA ListsConcat ==
    ASSUME NEW a, NEW b, NEW A, NEW B, NEW last \in Tokens, Lists(a, A, last), Lists(b, B, last),
           \A x \in A, y \in B : Age(x.token, last) > Age(y.token, last)
    PROVE  Lists(a \o b, A \cup B, last)
<1>1. /\ Len(a) \in Nat /\ DOMAIN a = 1 .. Len(a) /\ A = {a[i] : i \in DOMAIN a}
      /\ Len(b) \in Nat /\ DOMAIN b = 1 .. Len(b) /\ B = {b[i] : i \in DOMAIN b}
    BY ListsHave
<1>2. PICK l : l = a \o b
    OBVIOUS
<1>3. /\ l \in Seq(Entries) /\ Len(l) = Len(a) + Len(b)
      /\ \A i \in 1 .. Len(a) + Len(b) : l[i] = IF i <= Len(a) THEN a[i] ELSE b[i - Len(a)]
    BY <1>2, ConcatProperties DEF Lists
<1>4. DOMAIN l = 1 .. Len(a) + Len(b)
    BY <1>3, LenProperties
<1>5. \A i \in DOMAIN l : \/ i \in DOMAIN a /\ l[i] = a[i]
                          \/ i > Len(a) /\ i - Len(a) \in DOMAIN b /\ l[i] = b[i - Len(a)]
    BY <1>1, <1>3, <1>4
<1>6. \A i \in DOMAIN a : i \in DOMAIN l /\ l[i] = a[i]
    BY <1>1, <1>3, <1>4
<1>7. \A i \in DOMAIN b : i + Len(a) \in DOMAIN l /\ l[i + Len(a)] = b[i]
  <2> SUFFICES ASSUME NEW i \in DOMAIN b
               PROVE  i + Len(a) \in DOMAIN l /\ l[i + Len(a)] = b[i]
      OBVIOUS
  <2>1. i + Len(a) \in 1 .. Len(a) + Len(b) /\ ~(i + Len(a) <= Len(a)) /\ (i + Len(a)) - Len(a) = i
      BY <1>1
  <2> QED
      BY <1>3, <1>4, <2>1
<1>8. Range(l) = A \cup B
  <2>1. \A i \in DOMAIN l : l[i] \in A \cup B
      BY <1>1, <1>5
  <2>2. \A x \in A \cup B : \E i \in DOMAIN l : l[i] = x
      BY <1>1, <1>6, <1>7
  <2> QED
      BY <2>1, <2>2 DEF Range
<1>9. ASSUME NEW i \in DOMAIN l, NEW m \in DOMAIN l, i < m
      PROVE  Age(l[i].token, last) > Age(l[m].token, last)
  <2>1. i \in Int /\ m \in Int
      BY <1>1, <1>4
  <2>2. CASE i \in DOMAIN a /\ l[i] = a[i]
    <3>1. CASE m \in DOMAIN a /\ l[m] = a[m]
        BY <1>9, <2>2, <3>1 DEF Lists
    <3>2. CASE m - Len(a) \in DOMAIN b /\ l[m] = b[m - Len(a)]
        BY <1>1, <2>2, <3>2
    <3> QED
        BY <1>5, <3>1, <3>2
  <2>3. CASE i > Len(a) /\ i - Len(a) \in DOMAIN b /\ l[i] = b[i - Len(a)]
    <3>1. m > Len(a)
        BY <1>1, <1>9, <2>1, <2>3
    <3>2. m \notin DOMAIN a
        BY <1>1, <2>1, <3>1
    <3>3. m - Len(a) \in DOMAIN b /\ l[m] = b[m - Len(a)]
        BY <1>5, <3>2
    <3>4. i - Len(a) < m - Len(a)
        BY <1>1, <1>9, <2>1
    <3> QED
        BY <2>3, <3>3, <3>4 DEF Lists
  <2> QED
      BY <1>5, <2>2, <2>3
<1>10. Lists(l, A \cup B, last)
    BY <1>3, <1>8, <1>9 DEF Lists
<1> QED
    BY <1>2, <1>10

\* Nothing is listed by the empty sequence ...
LEMMA ListsNothing ==
    ASSUME NEW last
    PROVE  Lists(<<>>, {}, last)
<1>1. <<>> \in Seq(Entries) /\ DOMAIN <<>> = {}
    OBVIOUS
<1> QED
    BY <1>1 DEF Lists, Range

\* ... and one entry by itself.
LEMMA ListsOne ==
    ASSUME NEW e \in Entries, NEW last
    PROVE  Lists(<<e>>, {e}, last)
<1>1. <<e>> \in Seq(Entries) /\ DOMAIN <<e>> = {1} /\ <<e>>[1] = e
    OBVIOUS
<1> QED
    BY <1>1 DEF Lists, Range

-----------------------------------------------------------------------------
(* The entries that are still to go off *)

\* The queue has an entry with this time and token.
Holds(queue, e) ==
    /\ Priority(e.time) \in DOMAIN queue
    /\ \E m \in DOMAIN queue[Priority(e.time)] : queue[Priority(e.time)][m] = e.token

\* The entries whose fuses are still to go off: all of them, those of one time,
\* and those before a time
Pending(queue, removed) == {e \in Entries : Holds(queue, e) /\ e.token \notin removed}
PendingAt(queue, removed, t) == {e \in Pending(queue, removed) : e.time = t}
PendingBefore(queue, removed, t) == {e \in Pending(queue, removed) : e.time < t}

\* Those of one time are listed in the order of their queue.
LEMMA OneTimeListed ==
    ASSUME NEW queue, IsQueue(queue, Tokens), NEW last \in Tokens, InAgeOrder(queue, last),
           NEW removed, NEW t \in Times
    PROVE  Lists(EntriesAt(queue, removed, t), PendingAt(queue, removed, t), last)
<1> DEFINE p == Priority(t)
<1>1. CASE p \notin DOMAIN queue
  <2>1. PendingAt(queue, removed, t) = {}
      BY <1>1 DEF PendingAt, Pending, Holds
  <2>2. EntriesAt(queue, removed, t) = <<>>
      BY <1>1 DEF EntriesAt
  <2> QED
      BY <2>1, <2>2, ListsNothing
<1>2. CASE p \in DOMAIN queue
  <2>1. PICK seq : seq = queue[p]
      OBVIOUS
  <2>2. /\ seq \in Seq(Tokens) /\ Len(seq) \in Nat /\ DOMAIN seq = 1 .. Len(seq)
        /\ \A m \in DOMAIN seq : seq[m] \in Tokens
      BY <1>2, <2>1, QueueHas
  <2>3. PICK w : w = Without(seq, removed)
      OBVIOUS
  <2>4. w \in Seq(Tokens) /\ \E h : Picks(w, h, seq, removed, Len(seq))
      BY <2>2, <2>3, WithoutPicks
  <2>5. PICK h : Picks(w, h, seq, removed, Len(seq))
      BY <2>4
  <2>6. Len(w) \in Nat /\ DOMAIN w = 1 .. Len(w) /\ \A i \in DOMAIN w : w[i] \in Tokens
      BY <2>4, LenProperties, ElementOfSeq
  <2>7. /\ \A i \in DOMAIN w : h[i] \in DOMAIN seq
        /\ \A i, m \in DOMAIN w : i < m => h[i] < h[m]
        /\ \A i \in DOMAIN w : w[i] = seq[h[i]] /\ w[i] \notin removed
        /\ \A n \in DOMAIN seq : seq[n] \notin removed => \E i \in DOMAIN w : h[i] = n
      BY <2>2, <2>5, <2>6 DEF Picks
  <2>8. PICK l : l = [i \in DOMAIN w |-> [time |-> t, token |-> w[i]]]
      OBVIOUS
  <2>9. EntriesAt(queue, removed, t) = l
      BY <1>2, <2>1, <2>3, <2>8 DEF EntriesAt
  <2>10. /\ DOMAIN l = DOMAIN w
         /\ \A i \in DOMAIN w : l[i] \in Entries /\ l[i].time = t /\ l[i].token = w[i]
      BY <2>6, <2>8 DEF Entries
  <2>11. l \in Seq(Entries)
    <3>1. l \in [1 .. Len(w) -> Entries]
        BY <2>6, <2>8, <2>10
    <3> QED
        BY <2>6, <3>1, SeqDef
  <2>12. Range(l) = PendingAt(queue, removed, t)
    <3>1. ASSUME NEW i \in DOMAIN l PROVE l[i] \in PendingAt(queue, removed, t)
      <4>1. queue[Priority(l[i].time)] = seq /\ Priority(l[i].time) \in DOMAIN queue
          BY <1>2, <2>1, <2>10
      <4>2. \E m \in DOMAIN seq : seq[m] = l[i].token
          BY <2>7, <2>10
      <4>3. Holds(queue, l[i])
          BY <4>1, <4>2 DEF Holds
      <4> QED
          BY <2>7, <2>10, <4>3 DEF PendingAt, Pending
    <3>2. ASSUME NEW e \in PendingAt(queue, removed, t) PROVE \E i \in DOMAIN l : l[i] = e
      <4>1. e \in Entries /\ e.time = t /\ Holds(queue, e) /\ e.token \notin removed
          BY DEF PendingAt, Pending
      <4>2. PICK n \in DOMAIN seq : seq[n] = e.token
          BY <2>1, <4>1 DEF Holds
      <4>3. PICK i \in DOMAIN w : h[i] = n
          BY <2>7, <4>1, <4>2
      <4>4. l[i] \in Entries /\ l[i].time = e.time /\ l[i].token = e.token
          BY <2>7, <2>10, <4>1, <4>2, <4>3
      <4>5. l[i] = e
          BY <4>1, <4>4 DEF Entries
      <4> QED
          BY <2>10, <4>5
    <3> QED
        BY <3>1, <3>2 DEF Range
  <2>13. ASSUME NEW i \in DOMAIN l, NEW m \in DOMAIN l, i < m
         PROVE  Age(l[i].token, last) > Age(l[m].token, last)
    <3>1. h[i] \in DOMAIN queue[p] /\ h[m] \in DOMAIN queue[p] /\ h[i] < h[m]
        BY <2>1, <2>7, <2>10, <2>13
    <3>2. Age(queue[p][h[i]], last) > Age(queue[p][h[m]], last)
        BY <1>2, <3>1 DEF InAgeOrder
    <3> QED
        BY <2>1, <2>7, <2>10, <3>2
  <2>14. Lists(l, PendingAt(queue, removed, t), last)
      BY <2>11, <2>12, <2>13 DEF Lists
  <2> QED
      BY <2>9, <2>14
<1> QED
    BY <1>1, <1>2

\* What FlattenSeq computes
JoinsTo(f, seqs, n) ==
    f = [i \in 1 .. n |-> IF i = 1 THEN seqs[i] ELSE f[i - 1] \o seqs[i]]

\* Sequences can be joined up to one more ...
LEMMA JoinOneMore ==
    ASSUME NEW seqs, NEW c \in Nat, NEW r, JoinsTo(r, seqs, c)
    PROVE  \E q : JoinsTo(q, seqs, c + 1)
<1> DEFINE last == IF c + 1 = 1 THEN seqs[c + 1] ELSE r[c] \o seqs[c + 1]
           q == [i \in 1 .. c + 1 |-> IF i = c + 1 THEN last ELSE r[i]]
<1>1. \A i \in 1 .. c : q[i] = r[i]
    OBVIOUS
<1>2. q[c + 1] = last
    OBVIOUS
<1>3. ASSUME NEW i \in 1 .. c + 1
      PROVE  q[i] = IF i = 1 THEN seqs[i] ELSE q[i - 1] \o seqs[i]
  <2>1. CASE i = c + 1
    <3>1. i - 1 = c /\ (i # 1 => i - 1 \in 1 .. c)
        BY <2>1
    <3>2. i # 1 => q[i - 1] = r[c]
        BY <1>1, <3>1
    <3> HIDE DEF q
    <3> QED
        BY <1>2, <2>1, <3>2
  <2>2. CASE i # c + 1
    <3>1. i \in 1 .. c
        BY <2>2
    <3>2. r[i] = IF i = 1 THEN seqs[i] ELSE r[i - 1] \o seqs[i]
        BY <3>1 DEF JoinsTo
    <3>3. i # 1 => q[i - 1] = r[i - 1]
        BY <1>1, <3>1
    <3>4. q[i] = r[i]
        BY <1>1, <3>1
    <3> HIDE DEF q
    <3> QED
        BY <3>2, <3>3, <3>4
  <2> QED
      BY <2>1, <2>2
<1>4. JoinsTo(q, seqs, c + 1)
    BY <1>3 DEF JoinsTo
<1> QED
    BY <1>4

\* ... and so all of them.
LEMMA JoinExists ==
    ASSUME NEW seqs, NEW n \in Nat
    PROVE  \E r : JoinsTo(r, seqs, n)
<1> DEFINE S == {c \in 0 .. n : \E r : JoinsTo(r, seqs, c)}
<1>1. 0 \in S
  <2> DEFINE r == [i \in 1 .. 0 |-> <<>>]
  <2>1. JoinsTo(r, seqs, 0)
      BY DEF JoinsTo
  <2> QED
      BY <2>1
<1>2. \A c \in 0 .. n - 1 : c \in S => c + 1 \in S
    BY JoinOneMore
<1> HIDE DEF S
<1>3. \A c \in 0 .. n : c \in S
    BY <1>1, <1>2, CountUp
<1> QED
    BY <1>3 DEF S

\* An earlier time goes off first, and has the older tokens.
LEMMA EarlierIsOlder ==
    ASSUME NEW queue, IsQueue(queue, Tokens), NEW last \in Tokens, InAgeOrder(queue, last),
           NEW d \in Entries, NEW e \in Entries, Holds(queue, d), Holds(queue, e), d.time < e.time
    PROVE  Age(d.token, last) > Age(e.token, last)
<1>1. PICK m \in DOMAIN queue[Priority(d.time)] : queue[Priority(d.time)][m] = d.token
    BY DEF Holds
<1>2. PICK n \in DOMAIN queue[Priority(e.time)] : queue[Priority(e.time)][n] = e.token
    BY DEF Holds
<1>3. d.time \in Nat /\ e.time \in Nat
    BY DEF Entries, Times
<1>4. Priority(d.time) > Priority(e.time)
    BY <1>3, LastTimeAssumption DEF Priority
<1>5. Priority(d.time) \in DOMAIN queue /\ Priority(e.time) \in DOMAIN queue
    BY DEF Holds
<1> QED
    BY <1>1, <1>2, <1>4, <1>5 DEF InAgeOrder

\* The book lists all entries that are pending.
LEMMA InOrderLists ==
    ASSUME NEW queue, IsQueue(queue, Tokens), NEW last \in Tokens, InAgeOrder(queue, last),
           NEW removed
    PROVE  Lists(InOrder(queue, removed), Pending(queue, removed), last)
<1>1. PICK n : n = LastTime + 1
    OBVIOUS
<1>2. n \in Nat /\ n >= 1
    BY <1>1, LastTimeAssumption
<1>3. PICK seqs : seqs = [i \in 1 .. n |-> EntriesAt(queue, removed, i - 1)]
    OBVIOUS
<1>4. \A c \in 0 .. n - 1 : seqs[c + 1] = EntriesAt(queue, removed, c)
  <2> SUFFICES ASSUME NEW c \in 0 .. n - 1 PROVE seqs[c + 1] = EntriesAt(queue, removed, c)
      OBVIOUS
  <2>1. c + 1 \in 1 .. n /\ (c + 1) - 1 = c
      BY <1>2
  <2> QED
      BY <1>3, <2>1
<1>5. Len(seqs) = n
    BY <1>2, <1>3
<1> DEFINE r == CHOOSE f : f = [i \in 1 .. Len(seqs) |->
                                 IF i = 1 THEN seqs[i] ELSE f[i - 1] \o seqs[i]]
<1>6. JoinsTo(r, seqs, n)
  <2>1. \E q : JoinsTo(q, seqs, n)
      BY <1>2, JoinExists
  <2> QED
      BY <1>5, <2>1 DEF JoinsTo
<1>7. InOrder(queue, removed) = r[n]
  <2>1. FlattenSeq(seqs) = r[Len(seqs)]
      BY <1>2, <1>5 DEF FlattenSeq
  <2>2. InOrder(queue, removed) = FlattenSeq(seqs)
      BY <1>1, <1>3 DEF InOrder
  <2> QED
      BY <1>5, <2>1, <2>2
<1> HIDE DEF r
<1>8. /\ r[1] = seqs[1]
      /\ \A c \in 1 .. n - 1 : r[c + 1] = r[c] \o seqs[c + 1]
  <2>1. 1 \in 1 .. n /\ \A c \in 1 .. n - 1 : c + 1 \in 1 .. n /\ c + 1 # 1 /\ (c + 1) - 1 = c
      BY <1>2
  <2> QED
      BY <1>6, <2>1 DEF JoinsTo
<1>9. \A c \in 0 .. n - 1 :
        Lists(EntriesAt(queue, removed, c), PendingAt(queue, removed, c), last)
  <2>1. \A c \in 0 .. n - 1 : c \in Times
      BY <1>1, LastTimeAssumption DEF Times
  <2> QED
      BY <2>1, OneTimeListed
<1> DEFINE S == {c \in 0 .. n - 1 : Lists(r[c + 1], PendingBefore(queue, removed, c + 1), last)}
<1>10. 0 \in S
  <2>1. PendingBefore(queue, removed, 1) = PendingAt(queue, removed, 0)
      BY DEF PendingBefore, PendingAt, Pending, Entries, Times
  <2>2. 0 \in 0 .. n - 1 /\ r[0 + 1] = EntriesAt(queue, removed, 0)
    <3>1. 0 \in 0 .. n - 1 /\ 0 + 1 = 1
        BY <1>2
    <3> QED
        BY <1>4, <1>8, <3>1
  <2> QED
      BY <1>9, <2>1, <2>2
<1>11. ASSUME NEW c \in 0 .. (n - 1) - 1, c \in S PROVE c + 1 \in S
  <2>1. PICK d : d = c + 1
      OBVIOUS
  <2>2. d \in 1 .. n - 1 /\ d \in 0 .. n - 1 /\ d \in Nat
      BY <1>2, <2>1
  <2>3. r[d + 1] = r[d] \o EntriesAt(queue, removed, d)
      BY <1>4, <1>8, <2>2
  <2>4. Lists(r[d], PendingBefore(queue, removed, d), last)
      BY <1>11, <2>1
  <2>5. Lists(EntriesAt(queue, removed, d), PendingAt(queue, removed, d), last)
      BY <1>9, <2>2
  <2>6. PendingBefore(queue, removed, d + 1) =
            PendingBefore(queue, removed, d) \cup PendingAt(queue, removed, d)
      BY <2>2 DEF PendingBefore, PendingAt, Pending, Entries, Times
  <2>7. ASSUME NEW x \in PendingBefore(queue, removed, d), NEW y \in PendingAt(queue, removed, d)
        PROVE  Age(x.token, last) > Age(y.token, last)
    <3>1. /\ x \in Entries /\ Holds(queue, x) /\ y \in Entries /\ Holds(queue, y)
          /\ x.time < y.time
        BY DEF PendingBefore, PendingAt, Pending
    <3> QED
        BY <3>1, EarlierIsOlder
  <2>8. PICK A, B : A = PendingBefore(queue, removed, d) /\ B = PendingAt(queue, removed, d)
      OBVIOUS
  <2>9. Lists(r[d] \o EntriesAt(queue, removed, d), A \cup B, last)
    <3>1. Lists(r[d], A, last) /\ Lists(EntriesAt(queue, removed, d), B, last)
        BY <2>4, <2>5, <2>8
    <3>2. \A x \in A, y \in B : Age(x.token, last) > Age(y.token, last)
        BY <2>7, <2>8
    <3> QED
        BY <3>1, <3>2, ListsConcat
  <2>10. Lists(r[d + 1], PendingBefore(queue, removed, d + 1), last)
      BY <2>3, <2>6, <2>8, <2>9
  <2> QED
      BY <2>1, <2>2, <2>10
<1> HIDE DEF S
<1>12. \A c \in 0 .. n - 1 : c \in S
  <2>1. n - 1 \in Nat
      BY <1>2
  <2> QED
      BY <1>10, <1>11, <2>1, CountUp
<1>13. Lists(r[n], PendingBefore(queue, removed, n), last)
  <2>1. n - 1 \in 0 .. n - 1 /\ (n - 1) + 1 = n
      BY <1>2
  <2>2. n - 1 \in S
      BY <1>12, <2>1
  <2> QED
      BY <2>1, <2>2 DEF S
<1>14. PendingBefore(queue, removed, n) = Pending(queue, removed)
    BY <1>1, LastTimeAssumption DEF PendingBefore, Pending, Entries, Times
<1> QED
    BY <1>7, <1>13, <1>14

-----------------------------------------------------------------------------
(* What pushing and popping do to the entries *)

\* An entry and its priority.
LEMMA EntryHas ==
    ASSUME NEW e \in Entries
    PROVE  /\ e.time \in Times /\ e.time \in Nat /\ e.token \in Tokens
           /\ Priority(e.time) \in Times /\ Priority(Priority(e.time)) = e.time
           /\ \A d \in Entries : d.time = e.time /\ d.token = e.token => d = e
<1>1. e.time \in Times /\ e.token \in Tokens
    BY DEF Entries
<1>2. e.time \in Nat
    BY <1>1, LastTimeAssumption DEF Times
<1>3. Priority(e.time) \in Times /\ Priority(Priority(e.time)) = e.time
    BY <1>1, Complements
<1>4. \A d \in Entries : d.time = e.time /\ d.token = e.token => d = e
    BY DEF Entries
<1> QED
    BY <1>1, <1>2, <1>3, <1>4

\* The top of the queue is the only entry with its token.
LEMMA TopEntry ==
    ASSUME NEW queue, IsQueue(queue, Tokens), DOMAIN queue # {},
           NEW last \in Tokens, InAgeOrder(queue, last)
    PROVE  /\ Top(queue) \in Entries /\ Holds(queue, Top(queue))
           /\ Priority(Top(queue).time) = TopPriority(queue)
           /\ \A e \in Entries : Holds(queue, e) /\ e.token = Top(queue).token => e = Top(queue)
<1>1. PICK p : p = TopPriority(queue)
    OBVIOUS
<1>2. /\ p \in DOMAIN queue /\ Top(queue).token = queue[p][1] /\ Top(queue).time = Priority(p)
      /\ 1 \in DOMAIN queue[p] /\ Top(queue).token \in Queued(queue)
    BY <1>1, TopIs
<1>3. p \in Times
    BY <1>2, Complements DEF IsQueue
<1>4. Priority(p) \in Times /\ Priority(Priority(p)) = p
    BY <1>3, Complements
<1>5. Top(queue).token \in Tokens
    BY <1>2, QueueHas
<1>6. PICK x, y : x = Priority(p) /\ y = Head(queue[p])
    OBVIOUS
<1>7. Top(queue) = [time |-> x, token |-> y]
    BY <1>1, <1>6 DEF Top
<1>8. Top(queue).time = x /\ Top(queue).token = y
    BY <1>7
<1>9. Top(queue) \in Entries
    BY <1>2, <1>4, <1>5, <1>7, <1>8 DEF Entries
<1>10. Holds(queue, Top(queue))
    BY <1>2, <1>4 DEF Holds
<1>11. ASSUME NEW e \in Entries, Holds(queue, e), e.token = Top(queue).token
       PROVE  e = Top(queue)
  <2>0. PICK q \in DOMAIN queue : q = Priority(e.time) /\ \E m \in DOMAIN queue[q] : queue[q][m] = e.token
      BY <1>11 DEF Holds
  <2>1. PICK m \in DOMAIN queue[q] : q = Priority(e.time) /\ queue[q][m] = e.token
      BY <2>0
  <2>2. queue[q][m] = queue[p][1]
      BY <1>2, <1>11, <2>1
  <2>3. q = p
      BY <1>2, <2>1, <2>2, QueuedOnce
  <2>4. e.time = Top(queue).time
      BY <1>2, <2>1, <2>3, EntryHas
  <2> QED
      BY <1>9, <1>11, <2>4, EntryHas
<1> QED
    BY <1>1, <1>2, <1>4, <1>9, <1>10, <1>11

\* Popping takes the top away and nothing else.
LEMMA PoppedHolds ==
    ASSUME NEW queue, IsQueue(queue, Tokens), DOMAIN queue # {},
           NEW last \in Tokens, InAgeOrder(queue, last), NoGaps(queue, last),
           NEW e \in Entries
    PROVE  Holds(Pop(queue), e) <=> Holds(queue, e) /\ e # Top(queue)
<1>1. PICK new : new = Pop(queue)
    OBVIOUS
<1>2. /\ IsQueue(new, Tokens) /\ DOMAIN new \subseteq DOMAIN queue
      /\ Queued(new) = Queued(queue) \ {Top(queue).token}
      /\ \A q \in DOMAIN new : \A n \in DOMAIN new[q] :
            \E m \in DOMAIN queue[q] : queue[q][m] = new[q][n]
    BY <1>1, Popped
<1>3. \A d \in Entries : Holds(queue, d) /\ d.token = Top(queue).token => d = Top(queue)
    BY TopEntry
<1>4. ASSUME Holds(new, e) PROVE Holds(queue, e) /\ e # Top(queue)
  <2>0. PICK q \in DOMAIN new : q = Priority(e.time) /\ \E n \in DOMAIN new[q] : new[q][n] = e.token
      BY <1>4 DEF Holds
  <2>1. PICK n \in DOMAIN new[q] : q = Priority(e.time) /\ new[q][n] = e.token
      BY <2>0
  <2>2. PICK m \in DOMAIN queue[q] : queue[q][m] = e.token
      BY <1>2, <2>1
  <2>3. Holds(queue, e)
      BY <1>2, <2>1, <2>2 DEF Holds
  <2>4. e.token \in Queued(new)
      BY <2>1, QueuedIs
  <2> QED
      BY <1>2, <2>3, <2>4
<1>5. ASSUME Holds(queue, e), e # Top(queue) PROVE Holds(new, e)
  <2>0. PICK p \in DOMAIN queue : p = Priority(e.time) /\ \E m \in DOMAIN queue[p] : queue[p][m] = e.token
      BY <1>5 DEF Holds
  <2>1. PICK m \in DOMAIN queue[p] : p = Priority(e.time) /\ queue[p][m] = e.token
      BY <2>0
  <2>2. e.token \in Queued(queue)
      BY <2>1, QueuedIs
  <2>3. e.token \in Queued(new)
      BY <1>2, <1>3, <1>5, <2>2
  <2>4. PICK q \in DOMAIN new : \E n \in DOMAIN new[q] : new[q][n] = e.token
      BY <2>3, QueuedIs
  <2>5. PICK n \in DOMAIN new[q] : new[q][n] = e.token
      BY <2>4
  <2>6. q \in DOMAIN queue /\ \E x \in DOMAIN queue[q] : queue[q][x] = e.token
      BY <1>2, <2>5
  <2>7. PICK x \in DOMAIN queue[q] : queue[q][x] = e.token
      BY <2>6
  <2>8. queue[p][m] = queue[q][x]
      BY <2>1, <2>7
  <2>9. p = q
      BY <2>1, <2>6, <2>7, <2>8, QueuedOnce
  <2> QED
      BY <2>1, <2>5, <2>9 DEF Holds
<1> QED
    BY <1>1, <1>4, <1>5

\* Pushing adds one entry and nothing else.
LEMMA PushedHolds ==
    ASSUME NEW queue, IsQueue(queue, Tokens), NEW time \in Times, NEW token \in Tokens,
           NEW new, new = Push(queue, [time |-> time, token |-> token]),
           NEW e \in Entries
    PROVE  Holds(new, e) <=> Holds(queue, e) \/ e = [time |-> time, token |-> token]
<1>1. /\ DOMAIN new = DOMAIN queue \cup {Priority(time)}
      /\ \A p \in DOMAIN queue : p # Priority(time) => new[p] = queue[p]
      /\ new[Priority(time)] =
            IF Priority(time) \in DOMAIN queue
            THEN Append(queue[Priority(time)], token) ELSE <<token>>
    BY Pushed
<1>2. PICK x : x = [time |-> time, token |-> token]
    OBVIOUS
<1>3. x \in Entries /\ x.time = time /\ x.token = token
    BY <1>2 DEF Entries
<1>4. CASE Priority(e.time) # Priority(time)
  <2>1. e # x
      BY <1>3, <1>4
  <2> QED
      BY <1>1, <1>2, <1>4, <2>1 DEF Holds
<1>5. CASE Priority(e.time) = Priority(time)
  <2>1. e.time = time
      BY <1>5, EntryHas, Complements
  <2>2. e = x <=> e.token = token
      BY <1>3, <2>1, EntryHas
  <2>3. CASE Priority(time) \notin DOMAIN queue
    <3>1. new[Priority(time)] = <<token>>
        BY <1>1, <2>3
    <3>2. DOMAIN <<token>> = {1} /\ <<token>>[1] = token
        OBVIOUS
    <3>3. PICK seq : seq = new[Priority(time)]
        OBVIOUS
    <3>4. DOMAIN seq = {1} /\ seq[1] = token
        BY <3>1, <3>2, <3>3
    <3>5. Holds(new, e) <=> e.token = token
        BY <1>1, <1>5, <3>3, <3>4 DEF Holds
    <3>6. ~Holds(queue, e)
        BY <1>5, <2>3 DEF Holds
    <3> QED
        BY <1>2, <2>2, <3>5, <3>6
  <2>4. CASE Priority(time) \in DOMAIN queue
    <3>1. PICK seq : seq = queue[Priority(time)]
        OBVIOUS
    <3>2. PICK l : l = Append(seq, token)
        OBVIOUS
    <3>3. seq \in Seq(Tokens) /\ Len(seq) \in Nat /\ DOMAIN seq = 1 .. Len(seq)
        BY <2>4, <3>1, QueueHas
    <3>4. /\ l \in Seq(Tokens) /\ Len(l) = Len(seq) + 1
          /\ \A i \in 1 .. Len(seq) : l[i] = seq[i]
          /\ l[Len(seq) + 1] = token
        BY <3>2, <3>3, AppendProperties
    <3>5. DOMAIN l = 1 .. Len(seq) + 1
        BY <3>4, LenProperties
    <3>6. \A m \in DOMAIN l : m \in DOMAIN seq \/ m = Len(seq) + 1
        BY <3>3, <3>5
    <3>7. \A m \in DOMAIN seq : m \in DOMAIN l
        BY <3>3, <3>5
    <3>8. Len(seq) + 1 \in DOMAIN l
        BY <3>3, <3>5
    <3>9. (\E m \in DOMAIN l : l[m] = e.token) <=> (\E m \in DOMAIN seq : seq[m] = e.token) \/ e.token = token
        BY <3>3, <3>4, <3>6, <3>7, <3>8
    <3>10. Holds(new, e) <=> \E m \in DOMAIN l : l[m] = e.token
        BY <1>1, <1>5, <2>4, <3>1, <3>2 DEF Holds
    <3>11. Holds(queue, e) <=> \E m \in DOMAIN seq : seq[m] = e.token
        BY <1>5, <2>4, <3>1 DEF Holds
    <3> QED
        BY <1>2, <2>2, <3>9, <3>10, <3>11
  <2> QED
      BY <2>3, <2>4
<1> QED
    BY <1>4, <1>5

-----------------------------------------------------------------------------
(* What the book's operations do to a list *)

\* Taking the first of a list off.
LEMMA ListsTail ==
    ASSUME NEW b, NEW set, NEW last \in Tokens, Lists(b, set, last), set # {}
    PROVE  /\ b # <<>> /\ 1 \in DOMAIN b /\ Head(b) = b[1] /\ b[1] \in set
           /\ Lists(Tail(b), set \ {b[1]}, last)
<1>1. /\ Len(b) \in Nat /\ DOMAIN b = 1 .. Len(b) /\ set = {b[i] : i \in DOMAIN b}
      /\ \A i \in DOMAIN b : b[i] \in Entries /\ b[i] \in set /\ Age(b[i].token, last) \in Nat
    BY ListsHave
<1>2. b \in Seq(Entries)
    BY DEF Lists
<1>3. b # <<>> /\ 1 \in DOMAIN b /\ Len(b) >= 1
  <2>1. PICK i \in DOMAIN b : TRUE
      BY <1>1
  <2>2. 1 <= i /\ i <= Len(b)
      BY <1>1
  <2>3. PICK n : n = Len(b)
      OBVIOUS
  <2>4. n \in Nat /\ n >= 1 /\ 1 \in 1 .. n
      BY <1>1, <2>2, <2>3
  <2>5. b # <<>>
      BY <1>2, <2>3, <2>4, EmptySeq
  <2> QED
      BY <1>1, <2>3, <2>4, <2>5
<1>4. PICK l : l = Tail(b)
    OBVIOUS
<1>5. l \in Seq(Entries) /\ Len(l) = Len(b) - 1 /\ \A i \in 1 .. Len(l) : l[i] = b[i + 1]
    BY <1>2, <1>3, <1>4, HeadTailProperties
<1>6. DOMAIN l = 1 .. Len(b) - 1
    BY <1>5, LenProperties
<1>7. ASSUME NEW i \in DOMAIN l PROVE i + 1 \in DOMAIN b /\ 1 < i + 1 /\ l[i] = b[i + 1]
  <2>1. PICK n : n = Len(b)
      OBVIOUS
  <2>2. i \in 1 .. n - 1 /\ n \in Nat
      BY <1>1, <1>6, <2>1
  <2>3. i + 1 \in 1 .. n /\ 1 < i + 1
      BY <2>2
  <2>4. i \in 1 .. Len(l)
      BY <1>5, <2>1, <2>2
  <2> QED
      BY <1>1, <1>5, <2>1, <2>3, <2>4
<1>8. ASSUME NEW m \in DOMAIN b, m # 1 PROVE m - 1 \in DOMAIN l /\ l[m - 1] = b[m]
  <2>1. PICK n : n = Len(b)
      OBVIOUS
  <2>2. m \in 1 .. n /\ n \in Nat
      BY <1>1, <2>1
  <2>3. m - 1 \in 1 .. n - 1 /\ (m - 1) + 1 = m
      BY <1>8, <2>2
  <2>4. m - 1 \in DOMAIN l
      BY <1>6, <2>1, <2>3
  <2> QED
      BY <1>7, <2>3, <2>4
<1>9. Range(l) = set \ {b[1]}
  <2>1. ASSUME NEW i \in DOMAIN l PROVE l[i] \in set \ {b[1]}
    <3>1. i + 1 \in DOMAIN b /\ 1 < i + 1 /\ l[i] = b[i + 1]
        BY <1>7
    <3>2. PICK m : m = i + 1
        OBVIOUS
    <3>3. m \in DOMAIN b /\ 1 < m /\ l[i] = b[m]
        BY <3>1, <3>2
    <3>4. Age(b[1].token, last) > Age(b[m].token, last)
        BY <1>3, <3>3 DEF Lists
    <3>5. b[m] # b[1]
        BY <1>1, <1>3, <3>3, <3>4
    <3> QED
        BY <1>1, <3>3, <3>5
  <2>2. ASSUME NEW e \in set \ {b[1]} PROVE \E i \in DOMAIN l : l[i] = e
    <3>1. PICK m \in DOMAIN b : b[m] = e
        BY <1>1
    <3>2. m # 1
        BY <3>1
    <3>3. m - 1 \in DOMAIN l /\ l[m - 1] = e
        BY <1>8, <3>1, <3>2
    <3> QED
        BY <3>3
  <2> QED
      BY <2>1, <2>2 DEF Range
<1>10. ASSUME NEW i \in DOMAIN l, NEW m \in DOMAIN l, i < m
       PROVE  Age(l[i].token, last) > Age(l[m].token, last)
  <2>1. i + 1 < m + 1
      BY <1>1, <1>6, <1>10
  <2>2. i + 1 \in DOMAIN b /\ m + 1 \in DOMAIN b /\ l[i] = b[i + 1] /\ l[m] = b[m + 1]
      BY <1>7
  <2> QED
      BY <2>1, <2>2 DEF Lists
<1>11. Lists(l, set \ {b[1]}, last)
    BY <1>5, <1>9, <1>10 DEF Lists
<1>12. Head(b) = b[1]
    BY <1>2, <1>3
<1> QED
    BY <1>1, <1>3, <1>4, <1>11, <1>12

\* Taking any entries out of a list.
LEMMA ListsWithout ==
    ASSUME NEW b, NEW set, NEW last \in Tokens, Lists(b, set, last), NEW gone
    PROVE  Lists(Without(b, gone), set \ gone, last)
<1>1. b \in Seq(Entries) /\ Range(b) = set
    BY DEF Lists
<1>2. Len(b) \in Nat /\ DOMAIN b = 1 .. Len(b)
    BY ListsHave
<1>3. PICK w : w = Without(b, gone)
    OBVIOUS
<1>4. w \in Seq(Entries) /\ \E h : Picks(w, h, b, gone, Len(b))
    BY <1>1, <1>3, WithoutPicks
<1>5. PICK h : Picks(w, h, b, gone, Len(b))
    BY <1>4
<1>6. Len(w) \in Nat /\ DOMAIN w = 1 .. Len(w)
    BY <1>4, LenProperties
<1>7. Range(w) = set \ gone
  <2>1. Range(w) = Range(b) \ gone
      BY <1>1, <1>3, WithoutElements
  <2> QED
      BY <1>1, <2>1
<1>8. ASSUME NEW i \in DOMAIN w, NEW m \in DOMAIN w, i < m
      PROVE  Age(w[i].token, last) > Age(w[m].token, last)
  <2>1. h[i] \in DOMAIN b /\ h[m] \in DOMAIN b /\ h[i] < h[m] /\ w[i] = b[h[i]] /\ w[m] = b[h[m]]
      BY <1>2, <1>5, <1>6, <1>8 DEF Picks
  <2>2. Age(b[h[i]].token, last) > Age(b[h[m]].token, last)
      BY <2>1 DEF Lists
  <2> QED
      BY <2>1, <2>2
<1>9. Lists(w, set \ gone, last)
    BY <1>4, <1>7, <1>8 DEF Lists
<1> QED
    BY <1>3, <1>9

\* The entry of the token given out next goes to the end.
LEMMA ListsOneMore ==
    ASSUME NEW b, NEW set, NEW last \in Tokens, NEW next, Lists(b, set, last),
           next = IF last = TokenModulus - 1 THEN 0 ELSE last + 1,
           \A x \in set : x.token # next,
           NEW e \in Entries, e.token = next
    PROVE  Lists(b \o <<e>>, set \cup {e}, next)
<1>1. /\ DOMAIN b = 1 .. Len(b) /\ set = {b[i] : i \in DOMAIN b}
      /\ \A i \in DOMAIN b : b[i] \in Entries /\ b[i] \in set /\ Age(b[i].token, last) \in Nat
    BY ListsHave
<1>2. /\ next \in Tokens /\ Age(next, next) = 0
      /\ \A t \in Tokens : t # next => Age(t, next) = Age(t, last) + 1
    BY NextAges
<1>3. \A i \in DOMAIN b : Age(b[i].token, next) = Age(b[i].token, last) + 1
    BY <1>1, <1>2, EntryHas
<1>4. ASSUME NEW i \in DOMAIN b, NEW m \in DOMAIN b, i < m
      PROVE  Age(b[i].token, next) > Age(b[m].token, next)
  <2>1. Age(b[i].token, last) > Age(b[m].token, last)
      BY <1>4 DEF Lists
  <2>2. PICK x, y : x = Age(b[i].token, last) /\ y = Age(b[m].token, last)
      OBVIOUS
  <2>3. x \in Nat /\ y \in Nat /\ x > y
      BY <1>1, <2>1, <2>2
  <2>4. Age(b[i].token, next) = x + 1 /\ Age(b[m].token, next) = y + 1
      BY <1>3, <2>2
  <2>5. x + 1 > y + 1
      BY <2>3
  <2> QED
      BY <2>4, <2>5
<1>5. Lists(b, set, next)
    BY <1>4 DEF Lists
<1>6. Lists(<<e>>, {e}, next)
    BY ListsOne
<1>7. \A x \in set, y \in {e} : Age(x.token, next) > Age(y.token, next)
  <2> SUFFICES ASSUME NEW i \in DOMAIN b
               PROVE  Age(b[i].token, next) > Age(e.token, next)
      BY <1>1
  <2>1. PICK x : x = Age(b[i].token, last)
      OBVIOUS
  <2>2. x \in Nat /\ Age(b[i].token, next) = x + 1
      BY <1>1, <1>3, <2>1
  <2>3. x + 1 > 0
      BY <2>2
  <2> QED
      BY <1>2, <2>2, <2>3
<1> QED
    BY <1>2, <1>5, <1>6, <1>7, ListsConcat

-----------------------------------------------------------------------------
(* The game implements FuseBook *)

\* The book as it is, before a step and after it
LEMMA BookNow ==
    ASSUME IInv
    PROVE  /\ IsQueue(fuseQueue, Tokens) /\ lastFuseToken \in Tokens
           /\ InAgeOrder(fuseQueue, lastFuseToken) /\ NoGaps(fuseQueue, lastFuseToken)
           /\ Lists(InOrder(fuseQueue, removedFuses),
                    Pending(fuseQueue, removedFuses), lastFuseToken)
<1>1. /\ IsQueue(fuseQueue, Tokens) /\ lastFuseToken \in Tokens
      /\ InAgeOrder(fuseQueue, lastFuseToken) /\ NoGaps(fuseQueue, lastFuseToken)
    BY DEF IInv, FusesOK
<1> QED
    BY <1>1, InOrderLists

\* The same after a step.
LEMMA BookThen ==
    ASSUME IInv'
    PROVE  /\ IsQueue(fuseQueue', Tokens) /\ lastFuseToken' \in Tokens
           /\ Lists(InOrder(fuseQueue', removedFuses'),
                    Pending(fuseQueue', removedFuses'), lastFuseToken')
<1>1. /\ IsQueue(fuseQueue', Tokens) /\ lastFuseToken' \in Tokens
      /\ InAgeOrder(fuseQueue', lastFuseToken')
    BY DEF IInv, FusesOK
<1>2. PICK queue, removed, last :
         queue = fuseQueue' /\ removed = removedFuses' /\ last = lastFuseToken'
    OBVIOUS
<1>3. Lists(InOrder(queue, removed), Pending(queue, removed), last)
    BY <1>1, <1>2, InOrderLists
<1> QED
    BY <1>1, <1>2, <1>3

\* If a list has what is pending after a step, the book is that list.
LEMMA BookIs ==
    ASSUME IInv', NEW b, NEW set, NEW last,
           Lists(b, set, last), set = Pending(fuseQueue', removedFuses'), last = lastFuseToken'
    PROVE  InOrder(fuseQueue', removedFuses') = b
<1>1. last \in Tokens /\ Lists(InOrder(fuseQueue', removedFuses'), set, last)
    BY BookThen
<1>2. PICK c : c = InOrder(fuseQueue', removedFuses')
    OBVIOUS
<1>3. Lists(c, set, last)
    BY <1>1, <1>2
<1>4. c = b
    BY <1>1, <1>3, OneList
<1> QED
    BY <1>2, <1>4

\* The book is empty at first.
LEMMA InitBook == Init => Book!Init
<1> SUFFICES ASSUME Init PROVE Book!Init
    OBVIOUS
<1>1. IInv
    BY InvariantHoldsAtFirst
<1>2. fuseQueue = EmptyQueue /\ removedFuses = {} /\ timeNow = 0
    BY DEF Init
<1>3. Pending(fuseQueue, removedFuses) = {}
    BY <1>2 DEF Pending, Holds, EmptyQueue
<1>4. PICK b, set, last : /\ b = InOrder(fuseQueue, removedFuses)
                          /\ set = Pending(fuseQueue, removedFuses) /\ last = lastFuseToken
    OBVIOUS
<1>5. Lists(b, set, last) /\ last \in Tokens /\ set = {}
    BY <1>1, <1>3, <1>4, BookNow
<1>6. Lists(<<>>, set, last)
    BY <1>5, ListsNothing
<1>7. b = <<>>
    BY <1>5, <1>6, OneList
<1>8. timeNow \in Times
    BY <1>2, LastTimeAssumption DEF Times
<1> QED
    BY <1>4, <1>7, <1>8 DEF Book!Init

\* Most steps leave the fuses and the time alone.
LEMMA QuietBook ==
    ASSUME UNCHANGED <<timeNow, fuseQueue, removedFuses>>
    PROVE  UNCHANGED <<timeNow, InOrder(fuseQueue, removedFuses)>>
OBVIOUS

\* No tick passes a fuse.
LEMMA StartTickBook ==
    ASSUME IInv, StartTick(MaxTime)
    PROVE  Book!Tick
<1>1. /\ phase = "idle" /\ timeNow' = timeNow + 1
      /\ UNCHANGED <<fuseQueue, removedFuses>>
    BY DEF StartTick, fuses
<1>2. PICK b, set, last : /\ b = InOrder(fuseQueue, removedFuses)
                          /\ set = Pending(fuseQueue, removedFuses) /\ last = lastFuseToken
    OBVIOUS
<1>3. Lists(b, set, last) /\ last \in Tokens
    BY <1>2, BookNow
<1>4. ASSUME b # <<>> PROVE Head(b).time > timeNow
  <2>1. set # {}
    <3> SUFFICES ASSUME set = {} PROVE FALSE
        OBVIOUS
    <3>1. Lists(<<>>, set, last)
        BY ListsNothing
    <3>2. b = <<>>
        BY <1>3, <3>1, OneList
    <3> QED
        BY <1>4, <3>2
  <2>2. Head(b) \in set
    <3>1. Head(b) = b[1] /\ b[1] \in set
        BY <1>3, <2>1, ListsTail
    <3> QED
        BY <3>1
  <2>3. Head(b) \in Entries /\ Holds(fuseQueue, Head(b))
      BY <1>2, <2>2 DEF Pending
  <2>4. PICK p \in DOMAIN fuseQueue : p = Priority(Head(b).time)
      BY <2>3 DEF Holds
  <2>5. timeNow < Priority(p)
      BY <1>1 DEF IInv, FuseTimes
  <2>6. Priority(p) = Head(b).time /\ Head(b).time \in Nat
      BY <2>3, <2>4, EntryHas
  <2>7. timeNow \in Nat
      BY GameAssumption DEF IInv, RestOK
  <2> QED
      BY <2>5, <2>6, <2>7
<1>5. UNCHANGED InOrder(fuseQueue, removedFuses)
    BY <1>1
<1> QED
    BY <1>1, <1>2, <1>4, <1>5 DEF Book!Tick

\* An entry of a fuse that was removed was not in the book.
LEMMA SkipRemovedBook ==
    ASSUME IInv, IInv', SkipRemoved
    PROVE  UNCHANGED <<timeNow, InOrder(fuseQueue, removedFuses)>>
<1>1. /\ Due /\ Top(fuseQueue).token \in removedFuses
      /\ fuseQueue' = Pop(fuseQueue)
      /\ removedFuses' = removedFuses \ {Top(fuseQueue).token}
      /\ UNCHANGED <<timeNow, lastFuseToken>>
    BY DEF SkipRemoved, clock
<1>2. DOMAIN fuseQueue # {}
    BY <1>1, SomeQueued DEF IInv, Due
<1>3. PICK queue, last : queue = fuseQueue /\ last = lastFuseToken
    OBVIOUS
<1>4. /\ IsQueue(queue, Tokens) /\ last \in Tokens /\ DOMAIN queue # {}
      /\ InAgeOrder(queue, last) /\ NoGaps(queue, last)
    BY <1>2, <1>3, BookNow
<1>5. PICK new : new = Pop(queue)
    OBVIOUS
<1>6. \A e \in Entries : Holds(new, e) <=> Holds(queue, e) /\ e # Top(queue)
    BY <1>4, <1>5, PoppedHolds
<1>7. \A e \in Entries : Holds(queue, e) /\ e.token = Top(queue).token => e = Top(queue)
    BY <1>4, TopEntry
<1>8. PICK token : token = Top(queue).token
    OBVIOUS
<1>9. token \in removedFuses
    BY <1>1, <1>3, <1>8
<1>10. ASSUME NEW e \in Entries
       PROVE  Holds(queue, e) /\ e.token \notin removedFuses <=>
              Holds(new, e) /\ e.token \notin removedFuses \ {token}
    BY <1>6, <1>7, <1>8, <1>9
<1>11. Pending(queue, removedFuses) = Pending(new, removedFuses \ {token})
    BY <1>10 DEF Pending
<1>12. new = fuseQueue' /\ removedFuses' = removedFuses \ {token}
    BY <1>1, <1>3, <1>5, <1>8
<1>13. PICK b, set : b = InOrder(fuseQueue, removedFuses) /\ set = Pending(fuseQueue, removedFuses)
    OBVIOUS
<1>14. Lists(b, set, last)
    BY <1>3, <1>13, BookNow
<1>15. set = Pending(fuseQueue', removedFuses') /\ last = lastFuseToken'
    BY <1>1, <1>3, <1>11, <1>12, <1>13
<1>16. InOrder(fuseQueue', removedFuses') = b
    BY <1>14, <1>15, BookIs
<1> QED
    BY <1>1, <1>13, <1>16

\* The fuse that goes off is the first of the book, and it is its time.
LEMMA ExpireFuseBook ==
    ASSUME IInv, IInv', ExpireFuse
    PROVE  Book!GoOff
<1>1. /\ UNCHANGED <<timeNow, lastFuseToken, removedFuses>>
      /\ Due /\ Top(fuseQueue).token \in DOMAIN fuseMap
      /\ fuseQueue' = Pop(fuseQueue)
    BY ExpireFuseDoes
<1>2. DOMAIN fuseQueue # {}
    BY <1>1, SomeQueued DEF IInv, Due
<1>3. PICK queue, last : queue = fuseQueue /\ last = lastFuseToken
    OBVIOUS
<1>4. /\ IsQueue(queue, Tokens) /\ last \in Tokens /\ DOMAIN queue # {}
      /\ InAgeOrder(queue, last) /\ NoGaps(queue, last)
    BY <1>2, <1>3, BookNow
<1>5. PICK new, top : new = Pop(queue) /\ top = Top(queue)
    OBVIOUS
<1>6. \A e \in Entries : Holds(new, e) <=> Holds(queue, e) /\ e # top
    BY <1>4, <1>5, PoppedHolds
<1>7. top \in Entries /\ Holds(queue, top) /\ Priority(top.time) = TopPriority(queue)
    BY <1>4, <1>5, TopEntry
<1>8. top.token \notin removedFuses
    BY <1>1, <1>3, <1>5 DEF IInv, FusesOK
<1>9. PICK b, set : b = InOrder(fuseQueue, removedFuses) /\ set = Pending(fuseQueue, removedFuses)
    OBVIOUS
<1>10. Lists(b, set, last)
    BY <1>3, <1>9, BookNow
<1>11. top \in set
    BY <1>3, <1>7, <1>8, <1>9 DEF Pending
<1>12. /\ b # <<>> /\ 1 \in DOMAIN b /\ Head(b) = b[1] /\ b[1] \in set
       /\ Lists(Tail(b), set \ {b[1]}, last)
    BY <1>4, <1>10, <1>11, ListsTail
<1>13. b[1] = top
  <2>1. b[1] \in Entries /\ Holds(queue, b[1])
      BY <1>3, <1>9, <1>12 DEF Pending
  <2>2. b[1].token \in Queued(queue)
      BY <2>1, QueuedIs DEF Holds
  <2>3. b[1].token # top.token => Age(top.token, last) > Age(b[1].token, last)
      BY <1>4, <1>5, <2>2, TopIs
  <2>4. PICK i \in DOMAIN b : b[i] = top
      BY <1>4, <1>10, <1>11, ListsHave
  <2>5. /\ DOMAIN b = 1 .. Len(b) /\ Len(b) \in Nat
        /\ Age(b[1].token, last) \in Nat /\ Age(top.token, last) \in Nat
    <3>1. /\ Len(b) \in Nat /\ DOMAIN b = 1 .. Len(b)
          /\ \A m \in DOMAIN b : Age(b[m].token, last) \in Nat
        BY <1>4, <1>10, ListsHave
    <3> QED
        BY <1>12, <2>4, <3>1
  <2>6. CASE i = 1
      BY <2>4, <2>6
  <2>7. CASE i # 1
    <3>1. 1 < i
        BY <2>5, <2>7
    <3>2. Age(b[1].token, last) > Age(b[i].token, last)
        BY <1>10, <1>12, <3>1 DEF Lists
    <3>3. PICK x, y : x = Age(b[1].token, last) /\ y = Age(top.token, last)
        OBVIOUS
    <3>4. x \in Nat /\ y \in Nat /\ x > y
        BY <2>4, <2>5, <3>2, <3>3
    <3>5. ~(y > x)
        BY <3>4
    <3>6. b[1].token = top.token
        BY <2>3, <3>3, <3>5
    <3>7. \A e \in Entries : Holds(queue, e) /\ e.token = top.token => e = top
        BY <1>4, <1>5, TopEntry
    <3> QED
        BY <2>1, <3>6, <3>7
  <2> QED
      BY <2>6, <2>7
<1>14. top.time = timeNow
  <2>1. top.time <= timeNow
      BY <1>1, <1>3, <1>5 DEF Due
  <2>2. PICK p \in DOMAIN queue : p = Priority(top.time)
      BY <1>7 DEF Holds
  <2>3. timeNow <= Priority(p)
      BY <1>3 DEF IInv, FuseTimes
  <2>4. Priority(p) = top.time /\ top.time \in Nat
      BY <1>7, <2>2, EntryHas
  <2>5. timeNow \in Nat
      BY GameAssumption DEF IInv, RestOK
  <2> QED
      BY <2>1, <2>3, <2>4, <2>5
<1>15. set \ {top} = Pending(new, removedFuses)
    BY <1>3, <1>6, <1>9 DEF Pending
<1>16. new = fuseQueue' /\ removedFuses' = removedFuses /\ last = lastFuseToken'
    BY <1>1, <1>3, <1>5
<1>17. PICK rest, left : rest = Tail(b) /\ left = set \ {top}
    OBVIOUS
<1>18. Lists(rest, left, last) /\ left = Pending(fuseQueue', removedFuses')
    BY <1>12, <1>13, <1>15, <1>16, <1>17
<1>19. InOrder(fuseQueue', removedFuses') = rest
    BY <1>16, <1>18, BookIs
<1>20. InOrder(fuseQueue, removedFuses)' = Tail(b)
    BY <1>17, <1>19
<1> QED
    BY <1>1, <1>9, <1>12, <1>13, <1>14, <1>20 DEF Book!GoOff

\* The operators that FuseBook brings are those of this module.
LEMMA BookWithout ==
    ASSUME NEW seq, NEW set
    PROVE  Book!Without(seq, set) = Without(seq, set)
BY DEF Book!Without, Without

\* Likewise.
LEMMA BookCardinality ==
    ASSUME NEW set
    PROVE  Book!Cardinality(set) = Cardinality(set)
BY DEF Book!Cardinality, Cardinality

\* An entry that is due last is entered at the end.
LEMMA EnteredLast ==
    ASSUME NEW b, b = InOrder(fuseQueue, removedFuses), b \in Seq(Entries),
           NEW e \in Entries, \A i \in DOMAIN b : b[i].time <= e.time
    PROVE  Book!Entered(e) = b \o <<e>>
<1>1. Len(b) \in Nat /\ DOMAIN b = 1 .. Len(b)
    BY LenProperties
<1>2. PICK n : n = Len(b)
    OBVIOUS
<1>3. {i \in DOMAIN b : b[i].time <= e.time} = 1 .. n
    BY <1>1, <1>2
<1>4. Cardinality(1 .. n) = n
  <2>1. n \in Nat
      BY <1>1, <1>2
  <2>2. Cardinality(1 .. n) = IF 1 > n THEN 0 ELSE n - 1 + 1
      BY <2>1, FS_Interval
  <2> QED
      BY <2>1, <2>2
<1>5. Book!Entered(e) = Book!InsertAt(b, n + 1, e)
  <2>1. PICK before : before = {i \in DOMAIN b : b[i].time <= e.time}
      OBVIOUS
  <2>2. Book!Entered(e) = Book!InsertAt(b, Cardinality(before) + 1, e)
      BY <2>1, BookCardinality, Zenon DEF Book!Entered
  <2>3. Cardinality(before) = n
      BY <1>3, <1>4, <2>1
  <2> QED
      BY <2>2, <2>3
<1>6. Book!InsertAt(b, n + 1, e) = SubSeq(b, 1, (n + 1) - 1) \o <<e>> \o SubSeq(b, n + 1, n)
    BY <1>2 DEF Book!InsertAt
<1>7. n \in Nat /\ (n + 1) - 1 = n
    BY <1>1, <1>2
<1>8. SubSeq(b, 1, n) = b
    BY <1>2, SubSeqFull
<1>9. SubSeq(b, n + 1, n) = <<>>
    BY <1>7, SubSeqEmpty
<1>10. b \o <<e>> \in Seq(Entries)
    BY ConcatProperties
<1>11. (b \o <<e>>) \o <<>> = b \o <<e>>
    BY <1>10, ConcatEmptySeq
<1> QED
    BY <1>5, <1>6, <1>7, <1>8, <1>9, <1>11

\* A paralysis enters one fuse.
LEMMA ParalyseBook ==
    ASSUME IInv, IInv', Paralyse
    PROVE  Book!Add
<1>1. PICK u \in Alive : /\ Cardinality(Queued(fuseQueue)) < TokenModulus
                         /\ AddFuse(u, timeNow + FuseDelay)
                         /\ UNCHANGED timeNow
    BY DEF Paralyse, clock
<1>2. PICK time, next, last : time = timeNow + FuseDelay /\ next = NextToken /\ last = lastFuseToken
    OBVIOUS
<1>3. /\ lastFuseToken' = next
      /\ fuseQueue' = Push(fuseQueue, [time |-> time, token |-> next])
      /\ removedFuses' = removedFuses
    BY <1>1, <1>2 DEF AddFuse
<1>4. /\ timeNow \in Nat /\ FuseDelay \in Nat /\ MaxTime \in Nat /\ timeNow <= MaxTime
      /\ MaxTime + FuseDelay <= LastTime
    BY GameAssumption DEF IInv, RestOK
<1>5. time \in Times /\ time \in Nat /\ time >= timeNow
    BY <1>2, <1>4, LastTimeAssumption DEF Times
<1>6. PICK queue : queue = fuseQueue
    OBVIOUS
<1>7. IsQueue(queue, Tokens) /\ last \in Tokens
    BY <1>2, <1>6, BookNow
<1>8. next \in Tokens /\ next = IF last = TokenModulus - 1 THEN 0 ELSE last + 1
    BY <1>2, <1>7, TokenAfter
<1>9. next \notin Queued(queue)
    BY <1>1, <1>2, <1>6, <1>7, BookNow, NextIsFree
<1>10. next \notin removedFuses
    BY <1>6, <1>9 DEF IInv, FusesOK
<1>11. PICK entry : entry = [time |-> time, token |-> next]
    OBVIOUS
<1>12. entry \in Entries /\ entry.time = time /\ entry.token = next
    BY <1>5, <1>8, <1>11 DEF Entries
<1>13. PICK new : new = fuseQueue'
    OBVIOUS
<1>14. new = Push(queue, [time |-> time, token |-> next])
    BY <1>3, <1>6, <1>13
<1>15. \A e \in Entries : Holds(new, e) <=> Holds(queue, e) \/ e = entry
    BY <1>5, <1>7, <1>8, <1>11, <1>14, PushedHolds
<1>16. PICK b, set : b = InOrder(fuseQueue, removedFuses) /\ set = Pending(fuseQueue, removedFuses)
    OBVIOUS
<1>17. Lists(b, set, last)
    BY <1>2, <1>16, BookNow
<1>18. /\ b \in Seq(Entries)
       /\ \A i \in DOMAIN b : b[i] \in Entries /\ b[i] \in set
  <2>1. b \in Seq(Entries)
      BY <1>17 DEF Lists
  <2>2. \A i \in DOMAIN b : b[i] \in Entries /\ b[i] \in set
      BY <1>7, <1>17, ListsHave
  <2> QED
      BY <2>1, <2>2
<1>19. ASSUME NEW x \in set PROVE x.token # next /\ x.time <= time
  <2>1. x \in Entries /\ Holds(queue, x)
      BY <1>6, <1>16 DEF Pending
  <2>2. x.token \in Queued(queue)
      BY <2>1, QueuedIs DEF Holds
  <2>3. Priority(x.time) \in DOMAIN fuseQueue
      BY <1>6, <2>1 DEF Holds
  <2>4. Priority(Priority(x.time)) <= timeNow + FuseDelay
      BY <2>3 DEF IInv, FuseTimes
  <2>5. Priority(Priority(x.time)) = x.time
      BY <2>1, EntryHas
  <2> QED
      BY <1>2, <1>9, <2>2, <2>4, <2>5
<1>20. Book!Entered(entry) = b \o <<entry>>
  <2>1. \A i \in DOMAIN b : b[i].time <= entry.time
      BY <1>12, <1>18, <1>19
  <2> QED
      BY <1>12, <1>16, <1>18, <2>1, EnteredLast
<1>21. Lists(b \o <<entry>>, set \cup {entry}, next)
  <2>1. \A x \in set : x.token # next
      BY <1>19
  <2> QED
      BY <1>7, <1>8, <1>12, <1>17, <2>1, ListsOneMore
<1>22. PICK longer, more : longer = b \o <<entry>> /\ more = set \cup {entry}
    OBVIOUS
<1>23. more = Pending(new, removedFuses)
    BY <1>6, <1>10, <1>12, <1>15, <1>16, <1>22 DEF Pending
<1>24. InOrder(fuseQueue', removedFuses') = longer
  <2>1. more = Pending(fuseQueue', removedFuses') /\ next = lastFuseToken'
      BY <1>3, <1>13, <1>23
  <2>2. Lists(longer, more, next)
      BY <1>21, <1>22
  <2> QED
      BY <2>1, <2>2, BookIs
<1>25. InOrder(fuseQueue, removedFuses)' = Book!Entered(entry)
    BY <1>20, <1>22, <1>24
<1>26. \A i \in DOMAIN b : b[i].token # entry.token
    BY <1>12, <1>18, <1>19
<1>27. entry \in Book!Entries
    BY <1>12 DEF Entries, Book!Entries
<1> QED
    BY <1>1, <1>5, <1>12, <1>16, <1>25, <1>26, <1>27 DEF Book!Add

\* Who dies takes its fuses off the book.
LEMMA EffectsBook ==
    ASSUME IInv, IInv', EngulfOld \/ NewEffect
    PROVE  Book!Drop
<1>1. PICK us \in SUBSET Alive : /\ Explode(us)
                                 /\ UNCHANGED <<timeNow, lastFuseToken, fuseQueue>>
    BY DEF EngulfOld, NewEffect, clock
<1>2. \E dead \in SUBSET us : Hurt(us, dead, 0)
    BY <1>1, DamageDoes
<1>3. PICK dead \in SUBSET us : Hurt(us, dead, 0)
    BY <1>2
<1>4. PICK tokens : tokens = OnRemoval(dead)
    OBVIOUS
<1>5. removedFuses' = removedFuses \cup tokens
    BY <1>3, <1>4 DEF Hurt
<1>6. tokens \subseteq DOMAIN fuseMap
    BY <1>1, <1>3, <1>4, TokensOfTheDead
<1>7. /\ tokens \subseteq Tokens /\ tokens \subseteq Queued(fuseQueue)
      /\ \A t \in tokens : t \notin removedFuses
    BY <1>6 DEF IInv, FusesOK
<1>8. PICK b, set, last : /\ b = InOrder(fuseQueue, removedFuses)
                          /\ set = Pending(fuseQueue, removedFuses) /\ last = lastFuseToken
    OBVIOUS
<1>9. Lists(b, set, last) /\ last \in Tokens
    BY <1>8, BookNow
<1>10. set = {b[i] : i \in DOMAIN b}
    BY <1>9, ListsHave
<1>11. ASSUME NEW t \in tokens PROVE t \in {b[i].token : i \in DOMAIN b}
  <2>1. PICK p \in DOMAIN fuseQueue : \E m \in DOMAIN fuseQueue[p] : fuseQueue[p][m] = t
      BY <1>7, QueuedIs
  <2>2. p \in Times
      BY <2>1, Complements DEF IInv, FusesOK, IsQueue
  <2>3. PICK time : time = Priority(p)
      OBVIOUS
  <2>4. time \in Times /\ Priority(time) = p
      BY <2>2, <2>3, Complements
  <2>5. PICK e : e = [time |-> time, token |-> t]
      OBVIOUS
  <2>6. e \in Entries /\ e.time = time /\ e.token = t
      BY <1>7, <2>4, <2>5 DEF Entries
  <2>7. Holds(fuseQueue, e)
      BY <2>1, <2>4, <2>6 DEF Holds
  <2>8. e \in set
      BY <1>7, <1>8, <2>6, <2>7 DEF Pending
  <2> QED
      BY <1>10, <2>6, <2>8
<1>12. PICK gone : gone = [time : Times, token : tokens]
    OBVIOUS
<1>13. PICK rest, left : rest = Without(b, gone) /\ left = set \ gone
    OBVIOUS
<1>14. Lists(rest, left, last)
    BY <1>9, <1>13, ListsWithout
<1>15. \A e \in Entries : e \in gone <=> e.token \in tokens
    BY <1>12 DEF Entries
<1>16. left = Pending(fuseQueue, removedFuses \cup tokens)
    BY <1>8, <1>13, <1>15 DEF Pending
<1>17. InOrder(fuseQueue', removedFuses') = rest
  <2>1. left = Pending(fuseQueue', removedFuses') /\ last = lastFuseToken'
      BY <1>1, <1>5, <1>8, <1>16
  <2> QED
      BY <1>14, <2>1, BookIs
<1>18. InOrder(fuseQueue, removedFuses)' = Book!Without(InOrder(fuseQueue, removedFuses), gone)
    BY <1>8, <1>13, <1>17, BookWithout
<1>19. tokens \in SUBSET {InOrder(fuseQueue, removedFuses)[i].token :
                            i \in DOMAIN InOrder(fuseQueue, removedFuses)}
    BY <1>8, <1>11
<1> QED
    BY <1>1, <1>12, <1>18, <1>19 DEF Book!Drop

\* Fuses go off when they were set for, in the order they were set, unless they
\* were removed, and no tick passes one that is due: every behaviour of the game
\* is one of FuseBook's.
THEOREM GameKeepsTheBook == Spec => ImplementsFuseBook
<1>1. ASSUME IInv, IInv', [Next]_vars
      PROVE  [Book!Next]_<<timeNow, InOrder(fuseQueue, removedFuses)>>
  <2> SUFFICES Book!Next \/ UNCHANGED <<timeNow, InOrder(fuseQueue, removedFuses)>>
      OBVIOUS
  <2>1. CASE UNCHANGED vars
      BY <2>1, QuietBook DEF vars, clock, fuses
  <2>2. CASE StartTick(MaxTime)
      BY <1>1, <2>2, StartTickBook DEF Book!Next
  <2>3. CASE \/ HoldFire \/ Advance \/ UnitsDone \/ Fly \/ BallisticsDone \/ RemoveBeam \/ Misses
             \/ BeamsDone \/ EffectsDone \/ FusesDone \/ NewDone
             \/ UpdateLayers \/ FireCannon \/ FireParalyzer \/ Collide
    <3>1. UNCHANGED <<timeNow, fuseQueue, removedFuses>>
        BY <2>3 DEF HoldFire, Advance, UnitsDone, Fly, BallisticsDone, RemoveBeam, Misses,
              BeamsDone, EffectsDone, FusesDone, NewDone, UpdateLayers, FireCannon, FireParalyzer,
              Collide, Turn, clock, fuses
    <3> QED
        BY <3>1, QuietBook
  <2>4. CASE Create
    <3>1. UNCHANGED <<timeNow, fuseQueue, removedFuses>>
        BY <2>4 DEF Create, clock, fuses
    <3> QED
        BY <3>1, QuietBook
  <2>5. CASE Build
    <3>1. UNCHANGED <<timeNow, fuseQueue, removedFuses>>
        BY <1>1, <2>5, BuildDoes
    <3> QED
        BY <3>1, QuietBook
  <2>6. CASE SkipRemoved
      BY <1>1, <2>6, SkipRemovedBook
  <2>7. CASE Paralyse
      BY <1>1, <2>7, ParalyseBook DEF Book!Next
  <2>8. CASE EngulfOld \/ NewEffect
      BY <1>1, <2>8, EffectsBook DEF Book!Next
  <2>9. CASE ExpireFuse
      BY <1>1, <2>9, ExpireFuseBook DEF Book!Next
  <2> QED
      BY <1>1, <2>1, <2>2, <2>3, <2>4, <2>5, <2>6, <2>7, <2>8, <2>9 DEF Next, Loop
<1> QED
    BY <1>1, InitBook, Invariance, PTL DEF Spec, ImplementsFuseBook, Book!Spec
=============================================================================
