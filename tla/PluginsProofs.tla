--------------------------- MODULE PluginsProofs ----------------------------
(***************************************************************************)
(* Proof that the plugins of a server come to be those of its list,        *)
(* whatever plugins there are and by whatever parts of their names they    *)
(* are asked for.                                                          *)
(***************************************************************************)
EXTENDS Plugins, SequenceTheorems, FiniteSetTheorems, TLAPS

Actions == Flags \cup Requests

\* Flags and requests differ in type.
LEMMA RequestsAreNoFlags == \A r \in Requests : r \notin Flags
BY DEF Requests, Flags

LEMMA FlagTypes ==
    ASSUME NEW name \in Names
    PROVE  Add(name) \in Flags /\ Remove(name) \in Flags /\ Add(name) # Remove(name)
BY DEF Add, Remove, Flags

\* Flags for the same thing are for the same name.
LEMMA FlagNames ==
    ASSUME NEW m \in Names, NEW n \in Names
    PROVE  /\ Add(m) = Add(n) => m = n
           /\ Remove(m) = Remove(n) => m = n
           /\ Add(m) # Remove(n)
BY DEF Add, Remove

-----------------------------------------------------------------------------
(* Queues *)

\* When a flag at the head is done with, the others are left.
LEMMA TailOfFlag ==
    ASSUME NEW q \in Seq(Actions), q # <<>>, Head(q) \in Flags, FlagsFirst(q)
    PROVE  /\ FlagsFirst(Tail(q))
           /\ FlagSet(Tail(q)) = FlagSet(q) \ {Head(q)}
           /\ Tail(q) \in Seq(Actions)
<1> DEFINE t == Tail(q)
<1>1. /\ t \in Seq(Actions) /\ Len(t) = Len(q) - 1 /\ Len(q) \in Nat \ {0}
      /\ \A i \in 1 .. Len(t) : t[i] = q[i + 1]
      /\ q[1] = Head(q) /\ DOMAIN q = 1 .. Len(q) /\ DOMAIN t = 1 .. Len(t)
    OBVIOUS
<1>2. Flagged(t) = {i \in 1 .. Len(t) : i + 1 \in Flagged(q)}
    BY <1>1 DEF Flagged
<1>3. Flagged(q) = {1} \cup {i + 1 : i \in Flagged(t)}
  <2>1. ASSUME NEW i \in Flagged(q), i # 1
        PROVE  \E h \in Flagged(t) : i = h + 1
    <3>1. i - 1 \in 1 .. Len(t) /\ (i - 1) + 1 = i
        BY <1>1, <2>1 DEF Flagged
    <3>2. i - 1 \in Flagged(t)
        BY <1>2, <3>1
    <3> QED BY <3>1, <3>2
  <2>2. 1 \in Flagged(q)
      BY <1>1 DEF Flagged
  <2>3. \A i \in Flagged(t) : i + 1 \in Flagged(q)
      BY <1>2
  <2> QED BY <2>1, <2>2, <2>3
<1>4. \A i \in Flagged(t) : i \in 1 .. Len(t) /\ t[i] = q[i + 1] /\ i + 1 \in Flagged(q)
    BY <1>1, <1>2
<1>5. \A i \in Flagged(t) : \A j \in 1 .. i : j \in Flagged(t)
  <2> SUFFICES ASSUME NEW i \in Flagged(t), NEW j \in 1 .. i PROVE j \in Flagged(t)
      OBVIOUS
  <2>1. j \in 1 .. Len(t) /\ j + 1 \in 1 .. (i + 1)
      BY <1>1, <1>4
  <2>2. j + 1 \in Flagged(q)
      BY <1>4, <2>1 DEF FlagsFirst
  <2> QED BY <1>2, <2>1, <2>2
<1>6. \A i, j \in Flagged(t) : t[i] = t[j] => i = j
  <2> SUFFICES ASSUME NEW i \in Flagged(t), NEW j \in Flagged(t), t[i] = t[j]
               PROVE  i = j
      OBVIOUS
  <2>1. q[i + 1] = q[j + 1] /\ i + 1 \in Flagged(q) /\ j + 1 \in Flagged(q)
      BY <1>4
  <2>2. i + 1 = j + 1
      BY <2>1 DEF FlagsFirst
  <2> QED BY <1>4, <2>2
<1>7. FlagSet(t) = FlagSet(q) \ {Head(q)}
  <2>1. \A i \in Flagged(t) : q[i + 1] # Head(q)
    <3> SUFFICES ASSUME NEW i \in Flagged(t), q[i + 1] = q[1] PROVE FALSE
        BY <1>1
    <3>1. i + 1 = 1
        BY <1>3, <1>4 DEF FlagsFirst
    <3> QED BY <1>4, <3>1
  <2>2. FlagSet(q) = {q[1]} \cup {q[i + 1] : i \in Flagged(t)}
      BY <1>3 DEF FlagSet
  <2>3. FlagSet(t) = {q[i + 1] : i \in Flagged(t)}
      BY <1>4 DEF FlagSet
  <2> QED BY <1>1, <2>1, <2>2, <2>3
<1> QED BY <1>1, <1>5, <1>6, <1>7 DEF FlagsFirst

\* When the head is a request there are no flags.
LEMMA TailOfRequest ==
    ASSUME NEW q \in Seq(Actions), q # <<>>, Head(q) \notin Flags, FlagsFirst(q)
    PROVE  /\ FlagSet(q) = {} /\ Flagged(Tail(q)) = {} /\ Tail(q) \in Seq(Actions)
<1>1. Flagged(q) = {}
  <2> SUFFICES ASSUME NEW i \in Flagged(q) PROVE FALSE
      OBVIOUS
  <2>1. 1 \in 1 .. i /\ q[1] = Head(q)
      BY DEF Flagged
  <2>2. 1 \in Flagged(q)
      BY <2>1 DEF FlagsFirst
  <2> QED BY <2>1, <2>2 DEF Flagged
<1>2. \A i \in DOMAIN Tail(q) : Tail(q)[i] = q[i + 1] /\ i + 1 \in DOMAIN q
    OBVIOUS
<1>3. Flagged(Tail(q)) = {}
    BY <1>1, <1>2 DEF Flagged
<1> QED BY <1>1, <1>3 DEF FlagSet

LEMMA NoFlags ==
    ASSUME NEW q \in Seq(Actions), FlagSet(q) = {}
    PROVE  Flagged(q) = {}
BY DEF FlagSet

LEMMA NoFlagsFirst ==
    ASSUME NEW q \in Seq(Actions), Flagged(q) = {}
    PROVE  FlagsFirst(q) /\ FlagSet(q) = {}
BY DEF FlagsFirst, FlagSet

\* Distinct flags put in front of requests are the flags of the queue.
LEMMA FlagsInFront ==
    ASSUME NEW front \in Seq(Flags), NEW t \in Seq(Actions), Flagged(t) = {},
           \A i, j \in DOMAIN front : front[i] = front[j] => i = j
    PROVE  /\ front \o t \in Seq(Actions)
           /\ FlagsFirst(front \o t)
           /\ FlagSet(front \o t) = {front[i] : i \in DOMAIN front}
<1> DEFINE q == front \o t
<1>1. /\ q \in Seq(Actions) /\ Len(q) = Len(front) + Len(t)
      /\ Len(front) \in Nat /\ Len(t) \in Nat
      /\ DOMAIN q = 1 .. Len(q) /\ DOMAIN front = 1 .. Len(front) /\ DOMAIN t = 1 .. Len(t)
      /\ \A i \in 1 .. Len(front) : q[i] = front[i]
      /\ \A i \in 1 .. Len(q) : i > Len(front) =>
            i - Len(front) \in 1 .. Len(t) /\ q[i] = t[i - Len(front)]
    BY DEF Actions
<1>2. \A i \in DOMAIN front : front[i] \in Flags
    OBVIOUS
<1>3. \A i \in 1 .. Len(t) : t[i] \notin Flags
    BY <1>1 DEF Flagged
<1>4. Flagged(q) = 1 .. Len(front)
    BY <1>1, <1>2, <1>3 DEF Flagged
<1>5. FlagsFirst(q)
    BY <1>1, <1>4 DEF FlagsFirst
<1>6. FlagSet(q) = {front[i] : i \in DOMAIN front}
    BY <1>1, <1>4 DEF FlagSet
<1> QED BY <1>1, <1>5, <1>6

-----------------------------------------------------------------------------
(* checkPlugins *)

LEMMA Listed ==
    ASSUME NEW S \in SUBSET Flags, IsFiniteSet(S), NEW f \in Listings(S)
    PROVE  /\ f \in Seq(Flags)
           /\ \A i, j \in DOMAIN f : f[i] = f[j] => i = j
           /\ {f[i] : i \in DOMAIN f} = S
<1>1. Cardinality(S) \in Nat
    BY FS_CardinalityType
<1>2. /\ f \in [1 .. Cardinality(S) -> S]
      /\ \A i, j \in DOMAIN f : f[i] = f[j] => i = j
      /\ \A s \in S : \E i \in 1 .. Cardinality(S) : f[i] = s
    BY DEF Listings, Bijection, Injection, Surjection, IsInjective
<1>3. f \in Seq(Flags)
    BY <1>1, <1>2
<1> QED BY <1>2, <1>3

LEMMA FlagsFinite ==
    ASSUME NEW S \in SUBSET Names
    PROVE  /\ IsFiniteSet({Add(n) : n \in S}) /\ {Add(n) : n \in S} \subseteq Flags
           /\ IsFiniteSet({Remove(n) : n \in S}) /\ {Remove(n) : n \in S} \subseteq Flags
<1>1. IsFiniteSet(S)
    BY PluginsAssumption, FS_Subset
<1>2. [n \in S |-> Add(n)] \in Surjection(S, {Add(n) : n \in S})
    BY DEF Surjection
<1>3. [n \in S |-> Remove(n)] \in Surjection(S, {Remove(n) : n \in S})
    BY DEF Surjection
<1>4. IsFiniteSet({Add(n) : n \in S}) /\ IsFiniteSet({Remove(n) : n \in S})
    BY <1>1, <1>2, <1>3, FS_Surjection
<1> QED BY <1>4, FlagTypes

\* checkPlugins flags, each once, what it takes to make the plugins those wanted.
LEMMA Checked ==
    ASSUME NEW have \in SUBSET Names, NEW wanted \in SUBSET Names,
           NEW front \in CheckPlugins(have, wanted)
    PROVE  /\ front \in Seq(Flags)
           /\ \A i, j \in DOMAIN front : front[i] = front[j] => i = j
           /\ {front[i] : i \in DOMAIN front} = Changes(have, wanted)
<1> DEFINE R == Removals(have, wanted)
           A == Additions(have, wanted)
<1>1. PICK r \in Listings(R), a \in Listings(A) : front = r \o a
    BY DEF CheckPlugins
<1>2. R \in SUBSET Flags /\ IsFiniteSet(R) /\ A \in SUBSET Flags /\ IsFiniteSet(A)
  <2>1. have \ wanted \in SUBSET Names /\ wanted \ have \in SUBSET Names
      OBVIOUS
  <2> QED BY <2>1, FlagsFinite DEF Removals, Additions
<1> HIDE DEF R, A
<1>3. /\ r \in Seq(Flags) /\ {r[i] : i \in DOMAIN r} = R
      /\ \A i, j \in DOMAIN r : r[i] = r[j] => i = j
    BY <1>2, Listed
<1>4. /\ a \in Seq(Flags) /\ {a[i] : i \in DOMAIN a} = A
      /\ \A i, j \in DOMAIN a : a[i] = a[j] => i = j
    BY <1>2, Listed
<1>5. \A x \in R : x \notin A
    BY FlagNames DEF R, A, Removals, Additions
<1>6. /\ front \in Seq(Flags) /\ Len(front) = Len(r) + Len(a)
      /\ Len(r) \in Nat /\ Len(a) \in Nat
      /\ DOMAIN front = 1 .. Len(front) /\ DOMAIN r = 1 .. Len(r) /\ DOMAIN a = 1 .. Len(a)
      /\ \A i \in 1 .. Len(r) : front[i] = r[i]
      /\ \A i \in 1 .. Len(front) : i > Len(r) =>
            i - Len(r) \in 1 .. Len(a) /\ front[i] = a[i - Len(r)]
    BY <1>1, <1>3, <1>4
<1>7. \A i \in 1 .. Len(r) : r[i] \in R
    BY <1>3, <1>6
<1>8. \A i \in 1 .. Len(a) : a[i] \in A
    BY <1>4, <1>6
<1>9. \A i, j \in DOMAIN front : front[i] = front[j] => i = j
  <2> SUFFICES ASSUME NEW i \in DOMAIN front, NEW j \in DOMAIN front, front[i] = front[j]
               PROVE  i = j
      OBVIOUS
  <2>1. CASE i \in 1 .. Len(r) /\ j \in 1 .. Len(r)
      BY <1>3, <1>6, <2>1
  <2>2. CASE i > Len(r) /\ j > Len(r)
    <3>1. i - Len(r) = j - Len(r)
        BY <1>4, <1>6, <2>2
    <3> QED BY <1>6, <2>2, <3>1
  <2>3. CASE i \in 1 .. Len(r) /\ j > Len(r)
      BY <1>5, <1>6, <1>7, <1>8, <2>3
  <2>4. CASE i > Len(r) /\ j \in 1 .. Len(r)
      BY <1>5, <1>6, <1>7, <1>8, <2>4
  <2> QED BY <1>6, <2>1, <2>2, <2>3, <2>4
<1>10. {front[i] : i \in DOMAIN front} = R \cup A
  <2>1. \A i \in DOMAIN front : front[i] \in R \cup A
      BY <1>6, <1>7, <1>8
  <2>2. \A x \in R : \E i \in DOMAIN front : front[i] = x
    <3> SUFFICES ASSUME NEW i \in DOMAIN r PROVE \E h \in DOMAIN front : front[h] = r[i]
        BY <1>3
    <3> QED BY <1>6
  <2>3. \A x \in A : \E i \in DOMAIN front : front[i] = x
    <3> SUFFICES ASSUME NEW i \in DOMAIN a PROVE \E h \in DOMAIN front : front[h] = a[i]
        BY <1>4
    <3>1. i + Len(r) \in DOMAIN front /\ (i + Len(r)) - Len(r) = i /\ i + Len(r) > Len(r)
        BY <1>6
    <3>2. front[i + Len(r)] = a[i]
        BY <1>6, <3>1
    <3> QED BY <3>1, <3>2
  <2> QED BY <2>1, <2>2, <2>3
<1> QED BY <1>6, <1>9, <1>10 DEF R, A, Changes

\* When nothing needs to change, nothing is flagged.
LEMMA CheckedNothing ==
    ASSUME NEW have \in SUBSET Names, NEW front \in CheckPlugins(have, have)
    PROVE  front = <<>>
<1>1. /\ front \in Seq(Flags)
      /\ {front[i] : i \in DOMAIN front} = Changes(have, have)
    BY Checked
<1>2. Len(front) = 0
  <2> SUFFICES ASSUME Len(front) # 0 PROVE FALSE
      OBVIOUS
  <2>1. 1 \in DOMAIN front
      BY <1>1
  <2>2. front[1] \in Changes(have, have)
      BY <1>1, <2>1
  <2> QED BY <2>2 DEF Changes, Removals, Additions
<1> QED BY <1>1, <1>2

\* When one plugin is too many, its removal is flagged and nothing else.
LEMMA CheckedOne ==
    ASSUME NEW have \in SUBSET Names, NEW p \in Names, p \notin have,
           NEW front \in CheckPlugins(have \cup {p}, have)
    PROVE  front = <<Remove(p)>>
<1>1. /\ front \in Seq(Flags)
      /\ \A i, j \in DOMAIN front : front[i] = front[j] => i = j
      /\ {front[i] : i \in DOMAIN front} = Changes(have \cup {p}, have)
    BY Checked
<1>2. Changes(have \cup {p}, have) = {Remove(p)}
    BY DEF Changes, Removals, Additions
<1>3. \A i \in DOMAIN front : front[i] = Remove(p)
    BY <1>1, <1>2
<1>4. Len(front) = 1
  <2>0. Len(front) \in Nat /\ DOMAIN front = 1 .. Len(front)
      BY <1>1
  <2>1. Len(front) # 0
    <3>1. PICK i \in DOMAIN front : front[i] = Remove(p)
        BY <1>1, <1>2
    <3> QED BY <1>1, <3>1
  <2>2. ASSUME Len(front) \notin {0, 1} PROVE FALSE
    <3>1. 1 \in DOMAIN front /\ 2 \in DOMAIN front
        BY <2>0, <2>2
    <3>2. front[1] = front[2]
        BY <1>3, <3>1
    <3>3. 1 = 2
        BY <1>1, <3>1, <3>2
    <3> QED BY <3>3
  <2> QED BY <2>0, <2>1, <2>2
<1>5. front[1] = Remove(p)
    BY <1>1, <1>3, <1>4
<1> QED BY <1>1, <1>4, <1>5

-----------------------------------------------------------------------------
(* The inductive invariant *)

\* At most one plugin is wanted and not loaded, since an entry that is added is
\* acted on before the next request.
OneWanted == failure = "none" => \A n \in list \ loaded : list = loaded \cup {n}

IInv == TypeOK /\ ListComesTrue /\ OneWanted

LEMMA NoChanges ==
    ASSUME NEW have \in SUBSET Names, NEW wanted \in SUBSET Names
    PROVE  Changes(have, wanted) = {} <=> have = wanted
BY DEF Changes, Removals, Additions

\* What a flag at the head of the queue means.
LEMMA HeadIsFlag ==
    ASSUME IInv, failure = "none", pending # <<>>, Head(pending) \in Flags
    PROVE  /\ Head(pending) \in Changes(loaded, list)
           /\ FlagsFirst(Tail(pending)) /\ Tail(pending) \in Seq(Flags \cup Requests)
           /\ FlagSet(Tail(pending)) = Changes(loaded, list) \ {Head(pending)}
<1>1. pending \in Seq(Actions) /\ FlagsFirst(pending) /\ FlagSet(pending) = Changes(loaded, list)
    BY DEF IInv, TypeOK, ListComesTrue, Actions
<1>2. 1 \in Flagged(pending) /\ pending[1] = Head(pending)
    BY <1>1 DEF Flagged
<1>3. Head(pending) \in FlagSet(pending)
    BY <1>2 DEF FlagSet
<1> QED BY <1>1, <1>3, TailOfFlag DEF Actions

LEMMA HeadAdds ==
    ASSUME IInv, NEW n \in Names, Acts(Add(n))
    PROVE  /\ n \in list \ loaded /\ list = loaded \cup {n}
           /\ FlagsFirst(Tail(pending)) /\ Flagged(Tail(pending)) = {}
           /\ Tail(pending) \in Seq(Flags \cup Requests)
<1>1. /\ failure = "none" /\ pending # <<>> /\ Head(pending) = Add(n) /\ Add(n) \in Flags
      /\ list \in SUBSET Names /\ loaded \in SUBSET Names
    BY FlagTypes, PluginsAssumption DEF Acts, IInv, TypeOK
<1>2. /\ Add(n) \in Changes(loaded, list)
      /\ FlagsFirst(Tail(pending)) /\ Tail(pending) \in Seq(Flags \cup Requests)
      /\ FlagSet(Tail(pending)) = Changes(loaded, list) \ {Add(n)}
    BY <1>1, HeadIsFlag
<1>3. n \in list \ loaded
    BY <1>1, <1>2, FlagNames DEF Changes, Removals, Additions
<1>4. list = loaded \cup {n}
    BY <1>1, <1>3 DEF IInv, OneWanted
<1>5. Changes(loaded, list) = {Add(n)}
    BY <1>1, <1>3, <1>4 DEF Changes, Removals, Additions
<1>6. Flagged(Tail(pending)) = {}
    BY <1>2, <1>5, NoFlags DEF Actions
<1> QED BY <1>2, <1>3, <1>4, <1>6

LEMMA HeadRequests ==
    ASSUME IInv, NEW request \in Requests, Acts(request)
    PROVE  /\ list = loaded
           /\ Flagged(Tail(pending)) = {} /\ Tail(pending) \in Seq(Flags \cup Requests)
<1>1. /\ pending \in Seq(Actions) /\ pending # <<>> /\ Head(pending) \notin Flags
      /\ FlagsFirst(pending) /\ FlagSet(pending) = Changes(loaded, list)
      /\ list \in SUBSET Names /\ loaded \in SUBSET Names
    BY RequestsAreNoFlags, PluginsAssumption
    DEF Acts, IInv, TypeOK, ListComesTrue, Actions
<1>2. FlagSet(pending) = {} /\ Flagged(Tail(pending)) = {} /\ Tail(pending) \in Seq(Actions)
    BY <1>1, TailOfRequest
<1> QED BY <1>1, <1>2, NoChanges DEF Actions

\* A queue without flags is right when the list shows the plugins.
LEMMA QuietQueue ==
    ASSUME TypeOK', failure' = "none", Flagged(pending') = {}, list' = loaded',
           loaded' \subseteq branches'
    PROVE  IInv'
<1>1. pending' \in Seq(Actions) /\ list' \in SUBSET Names
    BY DEF TypeOK, Actions
<1>2. FlagsFirst(pending') /\ FlagSet(pending') = {}
    BY <1>1, NoFlagsFirst
<1>3. Changes(loaded', list') = {}
    BY <1>1, NoChanges
<1> QED BY <1>2, <1>3 DEF IInv, ListComesTrue, OneWanted

-----------------------------------------------------------------------------
(* The actions *)

LEMMA InitIInv == Init => IInv
<1> SUFFICES ASSUME Init PROVE IInv
    OBVIOUS
<1>1. TypeOK
  <2>1. pending \in Seq(Flags \cup Requests)
      BY DEF Init
  <2> QED BY <2>1 DEF Init, TypeOK
<1>2. Flagged(pending) = {}
    BY DEF Init, Flagged
<1>3. FlagsFirst(pending) /\ FlagSet(pending) = {}
    BY <1>2 DEF FlagsFirst, FlagSet
<1>4. Changes(loaded, list) = {}
    BY DEF Init, Changes, Removals, Additions
<1> QED BY <1>1, <1>3, <1>4 DEF Init, IInv, ListComesTrue, OneWanted

LEMMA SubmitIInv == ASSUME IInv, Submit PROVE IInv'
<1>1. PICK request \in Requests : pending' = Append(pending, request)
    BY DEF Submit
<1>2. /\ UNCHANGED <<acting, list, loaded, branches, failure>> /\ ~acting
      /\ pending \in Seq(Actions)
    BY DEF Submit, IInv, TypeOK, Actions
<1>3. TypeOK'
    BY <1>1, <1>2 DEF IInv, TypeOK, Actions
<1>4. CASE failure # "none"
    BY <1>2, <1>3, <1>4 DEF IInv, ListComesTrue, OneWanted
<1>5. CASE failure = "none"
  <2>1. list = loaded /\ loaded \subseteq branches /\ FlagSet(pending) = {}
      BY <1>2, <1>5 DEF IInv, ListComesTrue, Changes, Removals, Additions
  <2>2. Flagged(pending) = {}
      BY <1>2, <2>1, NoFlags
  <2>3. \A i \in DOMAIN pending' :
          pending'[i] = request \/ (i \in DOMAIN pending /\ pending'[i] = pending[i])
      BY <1>1, <1>2
  <2>4. Flagged(pending') = {}
      BY <2>2, <2>3, RequestsAreNoFlags DEF Flagged
  <2> QED BY <1>2, <1>3, <1>5, <2>1, <2>4, QuietQueue
<1> QED BY <1>4, <1>5

LEMMA PhaseIInv == ASSUME IInv, StartActing \/ ActionsDone PROVE IInv'
<1>1. TypeOK' /\ UNCHANGED <<pending, list, loaded, branches, failure>>
    BY DEF IInv, TypeOK, StartActing, ActionsDone
<1>2. acting' \/ list = loaded \/ failure # "none"
  <2>1. CASE StartActing
      BY <2>1 DEF StartActing
  <2>2. CASE ActionsDone
    <3>1. pending = <<>>
        BY <2>2 DEF ActionsDone
    <3>2. FlagSet(pending) = {}
        BY <3>1 DEF FlagSet, Flagged
    <3>3. list \in SUBSET Names /\ loaded \in SUBSET Names
        BY PluginsAssumption DEF IInv, TypeOK
    <3> QED BY <3>2, <3>3, NoChanges DEF IInv, ListComesTrue
  <2> QED BY <2>1, <2>2
<1> QED BY <1>1, <1>2 DEF IInv, ListComesTrue, OneWanted

LEMMA RefuseIInv == ASSUME IInv, Refuse PROVE IInv'
<1>1. PICK request \in Requests : Acts(request) /\ Requeue(<<>>)
    BY DEF Refuse
<1>2. UNCHANGED <<acting, list, loaded, branches, failure>> /\ failure = "none"
    BY <1>1 DEF Refuse, Acts
<1>3. list = loaded /\ Flagged(Tail(pending)) = {} /\ Tail(pending) \in Seq(Flags \cup Requests)
    BY <1>1, HeadRequests
<1>4. pending' = Tail(pending)
    BY <1>1, <1>3 DEF Requeue
<1>5. TypeOK' /\ loaded' \subseteq branches'
    BY <1>2, <1>3, <1>4 DEF IInv, TypeOK, ListComesTrue
<1> QED BY <1>2, <1>3, <1>4, <1>5, QuietQueue

LEMMA ChangeListIInv == ASSUME IInv, ChangeList PROVE IInv'
<1>1. PICK request \in Requests :
        /\ Acts(request)
        /\ \E front \in CheckPlugins(loaded, NewList(request)) : Requeue(front)
        /\ list' = NewList(request)
    BY DEF ChangeList
<1>2. PICK front \in CheckPlugins(loaded, list') : pending' = front \o Tail(pending)
    BY <1>1 DEF Requeue
<1>3. UNCHANGED <<acting, loaded, branches, failure>> /\ failure = "none" /\ acting
    BY <1>1 DEF ChangeList, Acts
<1>4. list = loaded /\ Flagged(Tail(pending)) = {} /\ Tail(pending) \in Seq(Actions)
    BY <1>1, HeadRequests DEF Actions
<1>5. list' \in SUBSET Names /\ loaded \in SUBSET Names
    BY <1>1, PluginsAssumption DEF NewList, Requests, IInv, TypeOK
<1>6. /\ front \in Seq(Flags)
      /\ \A i, j \in DOMAIN front : front[i] = front[j] => i = j
      /\ {front[i] : i \in DOMAIN front} = Changes(loaded, list')
    BY <1>5, Checked
<1>7. /\ pending' \in Seq(Actions) /\ FlagsFirst(pending')
      /\ FlagSet(pending') = Changes(loaded, list')
    BY <1>2, <1>4, <1>6, FlagsInFront
<1>8. \A n \in list' \ loaded : list' = loaded \cup {n}
    BY <1>1, <1>4 DEF NewList, Requests
<1>9. TypeOK'
    BY <1>3, <1>5, <1>7 DEF IInv, TypeOK, Actions
<1> QED BY <1>3, <1>7, <1>8, <1>9 DEF IInv, ListComesTrue, OneWanted

\* A name that is taken off leaves the list as it was before the name was added.
LEMMA TakeOffListIInv ==
    ASSUME IInv, NEW name \in Names, Acts(Add(name)), TakeOffList(name),
           acting' = acting, loaded' = loaded,
           branches \subseteq branches', branches' \subseteq FullNames
    PROVE  IInv'
<1>1. /\ name \in list \ loaded /\ list = loaded \cup {name}
      /\ Flagged(Tail(pending)) = {} /\ Tail(pending) \in Seq(Flags \cup Requests)
    BY HeadAdds
<1>2. list \ {name} = loaded /\ loaded \in SUBSET Names
    BY <1>1, PluginsAssumption DEF IInv, TypeOK
<1>3. PICK front \in CheckPlugins(loaded, loaded) : Requeue(front) /\ list' = loaded
    BY <1>1, <1>2 DEF TakeOffList
<1>4. front = <<>>
    BY <1>2, CheckedNothing
<1>5. pending' = Tail(pending)
    BY <1>1, <1>3, <1>4 DEF Requeue
<1>6. failure' = "none"
    BY <1>1 DEF TakeOffList, Acts
<1>7. TypeOK' /\ loaded' \subseteq branches'
    BY <1>1, <1>2, <1>3, <1>5, <1>6 DEF IInv, TypeOK, ListComesTrue, Acts
<1> QED BY <1>1, <1>3, <1>5, <1>6, <1>7, QuietQueue

LEMMA FailuresIInv == ASSUME IInv, LoadFails \/ InitThrows \/ BranchExists PROVE IInv'
<1>1. CASE LoadFails
  <2>1. PICK name \in Names : Acts(Add(name)) /\ TakeOffList(name)
      BY <1>1 DEF LoadFails
  <2>2. UNCHANGED <<acting, loaded, branches>>
      BY <1>1 DEF LoadFails
  <2> QED BY <2>1, <2>2, TakeOffListIInv DEF IInv, TypeOK
<1>2. CASE InitThrows
  <2>1. PICK name \in Names, p \in Unwilling :
          Acts(Add(name)) /\ TakeOffList(name) /\ branches' = branches \cup {p}
      BY <1>2 DEF InitThrows, Found
  <2>2. UNCHANGED <<acting, loaded>> /\ p \in FullNames
      BY <1>2, PluginsAssumption DEF InitThrows
  <2> QED BY <2>1, <2>2, TakeOffListIInv DEF IInv, TypeOK
<1>3. CASE BranchExists
    BY <1>3 DEF BranchExists, IInv, TypeOK, ListComesTrue, OneWanted
<1> QED BY <1>1, <1>2, <1>3

LEMMA LoadNamedIInv == ASSUME IInv, LoadNamed PROVE IInv'
<1>1. PICK p \in FullNames :
        /\ Acts(Add(p)) /\ loaded' = loaded \cup {p} /\ branches' = branches \cup {p}
        /\ Requeue(<<>>)
    BY DEF LoadNamed, Loads, Found
<1>2. UNCHANGED <<acting, list, failure>> /\ failure = "none" /\ p \in Names
    BY <1>1, PluginsAssumption DEF LoadNamed, Loads, Acts
<1>3. /\ list = loaded \cup {p}
      /\ Flagged(Tail(pending)) = {} /\ Tail(pending) \in Seq(Flags \cup Requests)
    BY <1>1, <1>2, HeadAdds
<1>4. pending' = Tail(pending)
    BY <1>1, <1>3 DEF Requeue
<1>5. TypeOK' /\ loaded' \subseteq branches'
    BY <1>1, <1>2, <1>3, <1>4 DEF IInv, TypeOK, ListComesTrue
<1> QED BY <1>1, <1>2, <1>3, <1>4, <1>5, QuietQueue

LEMMA LoadOtherIInv == ASSUME IInv, LoadOther PROVE IInv'
<1>1. PICK name \in Names, p \in FullNames :
        p # name /\ Loads(name, p) /\ CorrectName(name, p)
    BY DEF LoadOther
<1>2. /\ Acts(Add(name)) /\ p \notin branches /\ acting' = acting
      /\ loaded' = loaded \cup {p} /\ branches' = branches \cup {p}
    BY <1>1 DEF Loads, Found
<1>3. /\ name \in list \ loaded /\ list = loaded \cup {name}
      /\ Flagged(Tail(pending)) = {} /\ Tail(pending) \in Seq(Flags \cup Requests)
    BY <1>2, HeadAdds
<1>4. loaded \subseteq branches /\ failure = "none"
    BY <1>2 DEF IInv, ListComesTrue, Acts
<1>5. p \notin loaded /\ list \ {name} = loaded /\ loaded \in SUBSET Names /\ p \in Names
    BY <1>2, <1>3, <1>4, PluginsAssumption DEF IInv, TypeOK
<1>6. PICK first \in CheckPlugins(loaded \cup {p}, loaded) :
        IF name \in list /\ p \notin loaded /\ first # <<>> /\ Head(first) = Remove(p)
        THEN \E second \in CheckPlugins(loaded \cup {p}, loaded \cup {p}) :
               /\ Requeue(second \o Tail(first))
               /\ list' = loaded \cup {p} /\ UNCHANGED failure
        ELSE failure' = "assertion" /\ UNCHANGED <<pending, list>>
    BY <1>1, <1>2, <1>5 DEF CorrectName
<1>7. first = <<Remove(p)>>
    BY <1>5, CheckedOne
<1>8. first # <<>> /\ Head(first) = Remove(p) /\ Tail(first) = <<>>
    BY <1>7
<1>9. PICK second \in CheckPlugins(loaded \cup {p}, loaded \cup {p}) :
        Requeue(second \o Tail(first)) /\ list' = loaded \cup {p} /\ UNCHANGED failure
    BY <1>3, <1>5, <1>6, <1>8
<1>10. second = <<>>
  <2>1. loaded \cup {p} \in SUBSET Names
      BY <1>5
  <2> QED BY <2>1, CheckedNothing
<1>11. pending' = Tail(pending)
  <2>1. second \o Tail(first) = <<>>
      BY <1>8, <1>10
  <2>2. pending' = (second \o Tail(first)) \o Tail(pending)
      BY <1>9 DEF Requeue
  <2>3. <<>> \o Tail(pending) = Tail(pending)
      BY <1>3
  <2> QED BY <2>1, <2>2, <2>3
<1>12. TypeOK' /\ loaded' \subseteq branches'
    BY <1>2, <1>3, <1>4, <1>5, <1>9, <1>11 DEF IInv, TypeOK
<1> QED BY <1>2, <1>3, <1>4, <1>9, <1>11, <1>12, QuietQueue

LEMMA RemovePluginIInv == ASSUME IInv, RemovePlugin PROVE IInv'
<1>1. PICK p \in FullNames :
        /\ Acts(Remove(p)) /\ p \in loaded
        /\ loaded' = loaded \ {p} /\ branches' = branches \ {p}
        /\ failure' = IF p \in branches THEN failure ELSE "assertion"
        /\ Requeue(<<>>)
    BY DEF RemovePlugin
<1>2. /\ UNCHANGED <<acting, list>> /\ failure = "none" /\ acting
      /\ p \in Names /\ Head(pending) = Remove(p) /\ pending # <<>> /\ Remove(p) \in Flags
      /\ list \in SUBSET Names /\ loaded \in SUBSET Names
    BY <1>1, FlagTypes, PluginsAssumption DEF RemovePlugin, Acts, IInv, TypeOK
<1>3. /\ Remove(p) \in Changes(loaded, list)
      /\ FlagsFirst(Tail(pending)) /\ Tail(pending) \in Seq(Flags \cup Requests)
      /\ FlagSet(Tail(pending)) = Changes(loaded, list) \ {Remove(p)}
    BY <1>2, HeadIsFlag
<1>4. p \in loaded \ list
    BY <1>2, <1>3, FlagNames DEF Changes, Removals, Additions
<1>5. pending' = Tail(pending)
    BY <1>1, <1>3 DEF Requeue
<1>6. Changes(loaded \ {p}, list) = Changes(loaded, list) \ {Remove(p)}
  <2>1. Removals(loaded \ {p}, list) = Removals(loaded, list) \ {Remove(p)}
      BY <1>2, FlagNames DEF Removals
  <2>2. Additions(loaded \ {p}, list) = Additions(loaded, list)
      BY <1>4 DEF Additions
  <2>3. Remove(p) \notin Additions(loaded, list)
      BY <1>2, FlagNames DEF Additions
  <2> QED BY <2>1, <2>2, <2>3 DEF Changes
<1>7. p \in branches /\ loaded' \subseteq branches' /\ failure' = "none"
    BY <1>1, <1>2 DEF IInv, ListComesTrue
<1>8. \A n \in list \ loaded' : FALSE
  <2>1. \A n \in list \ loaded : FALSE
      BY <1>2, <1>4 DEF IInv, OneWanted
  <2> QED BY <1>1, <1>4, <2>1
<1>9. TypeOK'
    BY <1>1, <1>2, <1>3, <1>5, <1>7 DEF IInv, TypeOK
<1> QED BY <1>1, <1>2, <1>3, <1>5, <1>6, <1>7, <1>8, <1>9
    DEF IInv, ListComesTrue, OneWanted

LEMMA StutterIInv == ASSUME IInv, UNCHANGED vars PROVE IInv'
<1>1. /\ acting' = acting /\ pending' = pending /\ list' = list /\ loaded' = loaded
      /\ branches' = branches /\ failure' = failure
    BY DEF vars
<1> QED BY <1>1 DEF IInv, TypeOK, ListComesTrue, OneWanted

LEMMA NextIInv == IInv /\ [Next]_vars => IInv'
<1> SUFFICES ASSUME IInv, [Next]_vars PROVE IInv'
    OBVIOUS
<1>1. CASE Submit
    BY <1>1, SubmitIInv
<1>2. CASE StartActing \/ ActionsDone
    BY <1>2, PhaseIInv
<1>3. CASE Refuse
    BY <1>3, RefuseIInv
<1>4. CASE ChangeList
    BY <1>4, ChangeListIInv
<1>5. CASE LoadFails \/ InitThrows \/ BranchExists
    BY <1>5, FailuresIInv
<1>6. CASE LoadNamed
    BY <1>6, LoadNamedIInv
<1>7. CASE LoadOther
    BY <1>7, LoadOtherIInv
<1>8. CASE RemovePlugin
    BY <1>8, RemovePluginIInv
<1>9. CASE Stopped \/ UNCHANGED vars
    BY <1>9, StutterIInv DEF Stopped
<1> QED BY <1>1, <1>2, <1>3, <1>4, <1>5, <1>6, <1>7, <1>8, <1>9 DEF Next

LEMMA IInvHolds == Spec => []IInv
BY InitIInv, NextIInv, PTL DEF Spec

-----------------------------------------------------------------------------
\* Every variable keeps its type; in particular plugins are kept under their full
\* names (AddPluginAction::act).
THEOREM TypeCorrect == Spec => []TypeOK
<1>1. IInv => TypeOK
    BY DEF IInv
<1> QED BY <1>1, IInvHolds, PTL

\* Whatever plugins there are, and by whatever parts of names they are asked for,
\* the plugins come to be those of the list, and no assertion of
\* AddPluginAction::act fails.
THEOREM ListAlwaysComesTrue == Spec => []ListComesTrue
<1>1. IInv => ListComesTrue
    BY DEF IInv
<1> QED BY <1>1, IInvHolds, PTL
=============================================================================
