--------------------------- MODULE SeqFilterProofs ---------------------------
(***************************************************************************)
(* What KeepAt returns.  The standard SelectSeq is recursive and nothing   *)
(* can be proved about it here; KeepAt is defined by counting, and the one *)
(* inductive argument (every rank up to Cardinality(K) is taken) goes      *)
(* through the least element of a set of naturals.                         *)
(***************************************************************************)
EXTENDS SeqFilter, FiniteSetTheorems, WellFoundedInduction, TLAPS

\* Every non-empty set of naturals has a least element.
LEMMA LeastNatural ==
  ASSUME NEW T \in SUBSET Nat, T # {}
  PROVE  \E m \in T : \A n \in T : m <= n
<1>1. IsWellFoundedOn(OpToRel(<, Nat), Nat)
  BY NatLessThanWellFounded
<1>2. PICK m \in T : \A n \in T : ~ (<<n, m>> \in OpToRel(<, Nat))
  BY <1>1, WFMin
<1>3. \A n \in T : ~ (n < m)
  BY <1>2 DEF OpToRel
<1>4. QED
  BY <1>3

\* A set of positions of a sequence is finite, and so is what lies below i.
LEMMA PositionsFinite ==
  ASSUME NEW n \in Nat, NEW K \in SUBSET (1 .. n), NEW i \in Int
  PROVE  /\ IsFiniteSet(K)
         /\ Cardinality(K) \in Nat
         /\ Cardinality(K) <= n
         /\ IsFiniteSet({k \in K : k <= i})
         /\ Rank(i, K) \in Nat
<1>1. IsFiniteSet(1 .. n) /\ Cardinality(1 .. n) = n
  BY FS_Interval
<1>2. IsFiniteSet(K) /\ Cardinality(K) <= n
  BY <1>1, FS_Subset
<1>3. IsFiniteSet({k \in K : k <= i})
  BY <1>2, FS_Subset
<1>4. QED
  BY <1>2, <1>3, FS_CardinalityType DEF Rank

\* Ranks grow with the position.
LEMMA RankMonotone ==
  ASSUME NEW n \in Nat, NEW K \in SUBSET (1 .. n),
         NEW i \in Int, NEW j \in Int, i <= j
  PROVE  Rank(i, K) <= Rank(j, K)
<1> DEFINE A == {k \in K : k <= i}
           B == {k \in K : k <= j}
<1>1. A \in SUBSET B
  <2>1. \A k \in K : k \in Int
    OBVIOUS
  <2>2. ASSUME NEW k \in A PROVE k \in B
    BY <2>1
  <2>3. QED
    BY <2>2
<1>2. IsFiniteSet(B)
  BY PositionsFinite
<1>3. Cardinality(A) <= Cardinality(B)
  <2> HIDE DEF A, B
  <2> QED BY <1>1, <1>2, FS_Subset
<1>4. QED
  BY <1>3 DEF Rank

\* A position of K raises the rank by one over its predecessor; another
\* position does not.
LEMMA RankStep ==
  ASSUME NEW n \in Nat, NEW K \in SUBSET (1 .. n), NEW i \in Int
  PROVE  Rank(i, K) = IF i \in K THEN Rank(i - 1, K) + 1 ELSE Rank(i - 1, K)
<1> DEFINE Below == {k \in K : k <= i - 1}
           UpTo == {k \in K : k <= i}
<1>0. \A k \in K : k \in Int
  OBVIOUS
<1>1. IsFiniteSet(Below)
  <2>1. i - 1 \in Int
    OBVIOUS
  <2>2. QED
    BY <2>1, PositionsFinite
<1>2. CASE i \in K
  <2>1. \A k \in K : k <= i <=> k <= i - 1 \/ k = i
    BY <1>0
  <2>2. i \notin Below
    OBVIOUS
  <2>3. UpTo = Below \cup {i}
    <3>1. i \in UpTo
      BY <1>2
    <3>2. QED
      BY <1>2, <2>1, <3>1, Zenon
  <2>4. Cardinality(UpTo) = Cardinality(Below) + 1
    <3> HIDE DEF UpTo, Below
    <3> QED BY <1>1, <2>2, <2>3, FS_AddElement
  <2>5. QED
    BY <1>2, <2>4 DEF Rank
<1>3. CASE i \notin K
  <2>1. \A k \in K : k <= i <=> k <= i - 1
    BY <1>0, <1>3
  <2>2. UpTo = Below
    BY <2>1, Zenon
  <2>3. QED
    BY <1>3, <2>2 DEF Rank
<1>4. QED
  BY <1>2, <1>3

\* All of K lies at or before n and nothing of it at or before 0.
LEMMA RankOfAll ==
  ASSUME NEW n \in Nat, NEW K \in SUBSET (1 .. n)
  PROVE  Rank(n, K) = Cardinality(K) /\ Rank(0, K) = 0
<1> DEFINE A == {k \in K : k <= n}
           Z == {k \in K : k <= 0}
<1>0. \A k \in K : k \in Int /\ k <= n /\ 1 <= k
  OBVIOUS
<1>1. \A k \in K : k <= n /\ ~ (k <= 0)
  BY <1>0
<1>2. A = K /\ Z = {}
  BY <1>1, Zenon
<1>3. QED
  BY <1>2, FS_EmptySet DEF Rank

\* Every number up to the size of K is the rank of some position of K.
LEMMA RankOnto ==
  ASSUME NEW n \in Nat, NEW K \in SUBSET (1 .. n), NEW j \in 1 .. Cardinality(K)
  PROVE  \E i \in K : Rank(i, K) = j
<1> DEFINE T == {i \in Nat : Rank(i, K) >= j}
<1>0. j \in Nat /\ j >= 1 /\ j <= Cardinality(K) /\ T \in SUBSET Nat
  BY PositionsFinite
<1>1. n \in T
  BY <1>0, RankOfAll
<1>2. PICK m \in T : \A i \in T : m <= i
  <2> HIDE DEF T
  <2> QED BY <1>0, <1>1, LeastNatural
<1>3. m \in Nat /\ Rank(m, K) >= j
  BY <1>2
<1>4. m # 0
  BY <1>0, <1>3, RankOfAll
<1>5. m - 1 \in Nat /\ m - 1 \notin T
  <2>1. m - 1 \in Nat /\ ~ (m <= m - 1)
    BY <1>3, <1>4
  <2>2. QED
    <3> HIDE DEF T
    <3> QED BY <1>2, <2>1
<1>6. Rank(m - 1, K) < j /\ Rank(m - 1, K) \in Nat
  <2>1. ~ (Rank(m - 1, K) >= j)
    BY <1>5
  <2>2. m - 1 \in Int
    BY <1>5
  <2>3. Rank(m - 1, K) \in Nat
    BY <2>2, PositionsFinite
  <2>4. QED
    BY <1>0, <2>1, <2>3
<1>7. Rank(m, K) = IF m \in K THEN Rank(m - 1, K) + 1 ELSE Rank(m - 1, K)
  <2>1. m \in Int
    BY <1>3
  <2>2. QED
    BY <2>1, RankStep
<1>8. m \in K /\ Rank(m, K) = j
  BY <1>0, <1>3, <1>6, <1>7
<1>9. QED
  BY <1>8

\* The position in q of the j-th element kept.
Place(K, j) == CHOOSE i \in K : Rank(i, K) = j

LEMMA PlaceProperties ==
  ASSUME NEW n \in Nat, NEW K \in SUBSET (1 .. n)
  PROVE  /\ \A j \in 1 .. Cardinality(K) : Place(K, j) \in K /\ Rank(Place(K, j), K) = j
         /\ \A j1, j2 \in 1 .. Cardinality(K) : j1 < j2 => Place(K, j1) < Place(K, j2)
         /\ \A i \in K : \E j \in 1 .. Cardinality(K) : Place(K, j) = i
<1>0. /\ \A k \in K : k \in Int /\ k <= n
      /\ n \in Int
      /\ Cardinality(K) \in Nat
  <2>1. (\A k \in K : k \in Int /\ k <= n) /\ n \in Int /\ 0 \in Int
    OBVIOUS
  <2>2. Cardinality(K) \in Nat
    BY <2>1, PositionsFinite
  <2>3. QED
    BY <2>1, <2>2
<1>1. \A j \in 1 .. Cardinality(K) : Place(K, j) \in K /\ Rank(Place(K, j), K) = j
  BY RankOnto DEF Place
\* Between two positions of K the rank grows strictly.
<1>2. ASSUME NEW a \in K, NEW b \in K, a < b
      PROVE  Rank(a, K) < Rank(b, K)
  <2>1. a \in Int /\ b \in Int /\ b - 1 \in Int /\ a <= b - 1
    BY <1>0, <1>2
  <2>2. Rank(a, K) <= Rank(b - 1, K)
    BY <2>1, RankMonotone
  <2>3. Rank(a, K) \in Nat /\ Rank(b - 1, K) \in Nat
    BY <2>1, PositionsFinite
  <2>4. Rank(b, K) = Rank(b - 1, K) + 1
    BY <2>1, RankStep
  <2>5. QED
    BY <2>2, <2>3, <2>4
<1>3. ASSUME NEW j1 \in 1 .. Cardinality(K), NEW j2 \in 1 .. Cardinality(K), j1 < j2
      PROVE  Place(K, j1) < Place(K, j2)
  <2> DEFINE a == Place(K, j1)
             b == Place(K, j2)
  <2>1. a \in K /\ b \in K /\ Rank(a, K) = j1 /\ Rank(b, K) = j2
    BY <1>1
  <2> HIDE DEF a, b
  <2>2. a \in Int /\ b \in Int /\ j1 \in Int /\ j2 \in Int
    BY <1>0, <2>1
  <2>3. a # b
    BY <1>3, <2>1, <2>2
  <2>4. ~ (b < a)
    <3>1. b < a => Rank(b, K) < Rank(a, K)
      BY <1>2, <2>1
    <3>2. QED
      BY <1>3, <2>1, <2>2, <3>1
  <2>5. a < b
    BY <2>2, <2>3, <2>4
  <2>6. QED
    BY <2>5 DEF a, b
<1>4. ASSUME NEW i \in K
      PROVE  \E j \in 1 .. Cardinality(K) : Place(K, j) = i
  <2> DEFINE j == Rank(i, K)
  <2>1. i \in Int /\ i - 1 \in Int /\ i <= n
    BY <1>0
  <2>2. j = Rank(i - 1, K) + 1 /\ Rank(i - 1, K) \in Nat
    BY <2>1, RankStep, PositionsFinite
  <2>3. j <= Rank(n, K)
    BY <1>0, <2>1, RankMonotone
  <2>4. Rank(n, K) = Cardinality(K)
    BY RankOfAll
  <2>5. j \in 1 .. Cardinality(K)
    BY <1>0, <2>2, <2>3, <2>4
  <2>6. Place(K, j) \in K /\ Rank(Place(K, j), K) = j
    BY <1>1, <2>5
  <2>7. Place(K, j) = i
    <3> DEFINE p == Place(K, j)
    <3>0. p \in K /\ Rank(p, K) = Rank(i, K)
      BY <2>6
    <3> HIDE DEF p
    <3>1. p \in K /\ p \in Int /\ Rank(p, K) = Rank(i, K) /\ Rank(i, K) \in Int
      BY <1>0, <2>5, <3>0
    <3>2. p < i => Rank(p, K) < Rank(i, K)
      BY <1>2, <3>1
    <3>3. i < p => Rank(i, K) < Rank(p, K)
      BY <1>2, <3>1
    <3>4. p = i
      BY <2>1, <3>1, <3>2, <3>3
    <3>5. QED
      BY <3>4 DEF p
  <2>8. QED
    BY <2>5, <2>7
<1>5. QED
  BY <1>1, <1>3, <1>4

\* KeepAt(q, K) is a sequence of the elements of q at the positions K, no
\* longer than q, that lists them in the order q does.
THEOREM KeepAtProperties ==
  ASSUME NEW S, NEW q \in Seq(S), NEW K \in SUBSET DOMAIN q
  PROVE  /\ KeepAt(q, K) \in Seq(S)
         /\ Len(KeepAt(q, K)) = Cardinality(K)
         /\ Cardinality(K) \in Nat
         /\ Cardinality(K) <= Len(q)
         /\ Elems(KeepAt(q, K)) = {q[i] : i \in K}
         /\ \A j \in DOMAIN KeepAt(q, K) :
              Place(K, j) \in K /\ KeepAt(q, K)[j] = q[Place(K, j)]
         /\ \A j1, j2 \in DOMAIN KeepAt(q, K) :
              j1 < j2 => Place(K, j1) < Place(K, j2)
<1> DEFINE n == Len(q)
           r == KeepAt(q, K)
<1>1. n \in Nat /\ DOMAIN q = 1 .. n /\ K \in SUBSET (1 .. n)
  OBVIOUS
<1>2. Cardinality(K) \in Nat /\ Cardinality(K) <= n
  <2>1. 0 \in Int
    OBVIOUS
  <2>2. QED
    BY <1>1, <2>1, PositionsFinite
<1>3. r = [j \in 1 .. Cardinality(K) |-> q[Place(K, j)]]
  BY DEF KeepAt, Place
<1>4. \A j \in 1 .. Cardinality(K) : Place(K, j) \in K
  BY <1>1, PlaceProperties
<1>5. r \in Seq(S) /\ Len(r) = Cardinality(K) /\ DOMAIN r = 1 .. Cardinality(K)
  BY <1>1, <1>2, <1>3, <1>4
<1>6. Elems(r) = {q[i] : i \in K}
  BY <1>1, <1>3, <1>4, <1>5, PlaceProperties DEF Elems
<1>7. QED
  BY <1>1, <1>2, <1>3, <1>4, <1>5, <1>6, PlaceProperties

-----------------------------------------------------------------------------
(* The other operations on queues, and their order *)

LEMMA AppendFacts ==
  ASSUME NEW S, NEW q \in Seq(S), NEW x \in S
  PROVE  /\ Append(q, x) \in Seq(S)
         /\ Len(Append(q, x)) = Len(q) + 1
         /\ Elems(Append(q, x)) = Elems(q) \cup {x}
<1>1. /\ Append(q, x) \in Seq(S)
      /\ Len(Append(q, x)) = Len(q) + 1
      /\ DOMAIN Append(q, x) = 1 .. Len(q) + 1
      /\ DOMAIN q = 1 .. Len(q) /\ Len(q) \in Nat
      /\ \A i \in 1 .. Len(q) : Append(q, x)[i] = q[i]
      /\ Append(q, x)[Len(q) + 1] = x
  OBVIOUS
<1>2. \A i \in 1 .. Len(q) + 1 : i \in 1 .. Len(q) \/ i = Len(q) + 1
  BY <1>1
<1>3. Elems(Append(q, x)) \subseteq Elems(q) \cup {x}
  BY <1>1, <1>2 DEF Elems
<1>4. Elems(q) \cup {x} \subseteq Elems(Append(q, x))
  BY <1>1 DEF Elems
<1>5. QED
  BY <1>1, <1>3, <1>4

LEMMA HeadTailFacts ==
  ASSUME NEW S, NEW q \in Seq(S), q # << >>
  PROVE  /\ Head(q) \in S
         /\ Tail(q) \in Seq(S)
         /\ Len(Tail(q)) = Len(q) - 1
         /\ Elems(q) = {Head(q)} \cup Elems(Tail(q))
         /\ \A i \in DOMAIN Tail(q) : i + 1 \in DOMAIN q /\ Tail(q)[i] = q[i + 1]
<1>1. /\ Head(q) \in S /\ Head(q) = q[1] /\ 1 \in DOMAIN q
      /\ Tail(q) \in Seq(S)
      /\ Len(Tail(q)) = Len(q) - 1
      /\ DOMAIN Tail(q) = 1 .. Len(q) - 1
      /\ DOMAIN q = 1 .. Len(q) /\ Len(q) \in Nat
      /\ \A i \in 1 .. Len(q) - 1 : i + 1 \in DOMAIN q /\ Tail(q)[i] = q[i + 1]
  OBVIOUS
<1>2. \A i \in 1 .. Len(q) : i = 1 \/ (i - 1 \in 1 .. Len(q) - 1 /\ Tail(q)[i - 1] = q[i])
  BY <1>1
<1>3. Elems(q) \subseteq {Head(q)} \cup Elems(Tail(q))
  <2>1. ASSUME NEW i \in 1 .. Len(q) PROVE q[i] \in {Head(q)} \cup Elems(Tail(q))
    <3>1. CASE i = 1
      BY <1>1, <3>1
    <3>2. CASE i - 1 \in DOMAIN Tail(q) /\ Tail(q)[i - 1] = q[i]
      BY <3>2 DEF Elems
    <3>3. QED
      BY <1>1, <1>2, <3>1, <3>2
  <2>2. QED
    BY <1>1, <2>1 DEF Elems
<1>4. {Head(q)} \cup Elems(Tail(q)) \subseteq Elems(q)
  BY <1>1 DEF Elems
<1>5. QED
  BY <1>1, <1>3, <1>4

LEMMA ConsFacts ==
  ASSUME NEW S, NEW q \in Seq(S), NEW x \in S
  PROVE  /\ <<x>> \o q \in Seq(S)
         /\ Len(<<x>> \o q) = Len(q) + 1
         /\ Elems(<<x>> \o q) = {x} \cup Elems(q)
         /\ (<<x>> \o q)[1] = x
         /\ \A i \in DOMAIN (<<x>> \o q) :
              i = 1 \/ (i - 1 \in DOMAIN q /\ (<<x>> \o q)[i] = q[i - 1])
<1> DEFINE c == <<x>> \o q
<1>1. /\ c \in Seq(S) /\ Len(c) = Len(q) + 1
      /\ DOMAIN c = 1 .. Len(q) + 1
      /\ DOMAIN q = 1 .. Len(q) /\ Len(q) \in Nat
      /\ c[1] = x
      /\ \A i \in 1 .. Len(q) : c[i + 1] = q[i]
  OBVIOUS
<1> HIDE DEF c
<1>2. \A i \in 1 .. Len(q) + 1 : i = 1 \/ (i - 1 \in 1 .. Len(q) /\ c[i] = q[i - 1])
  BY <1>1
<1>3. Elems(c) \subseteq {x} \cup Elems(q)
  <2>1. ASSUME NEW i \in 1 .. Len(q) + 1 PROVE c[i] \in {x} \cup Elems(q)
    <3>1. CASE i = 1
      BY <1>1, <3>1
    <3>2. CASE i - 1 \in DOMAIN q /\ c[i] = q[i - 1]
      BY <3>2 DEF Elems
    <3>3. QED
      BY <1>1, <1>2, <3>1, <3>2
  <2>2. QED
    BY <1>1, <2>1 DEF Elems
<1>4. {x} \cup Elems(q) \subseteq Elems(c)
  <2>1. \A i \in 1 .. Len(q) : i + 1 \in DOMAIN c
    BY <1>1
  <2>2. 1 \in DOMAIN c
    BY <1>1
  <2>3. QED
    BY <1>1, <2>1, <2>2 DEF Elems
<1>5. QED
  BY <1>1, <1>2, <1>3, <1>4 DEF c

\* A filtered queue keeps its order.
LEMMA KeepAtIncreasing ==
  ASSUME NEW S \in SUBSET Int, NEW q \in Seq(S), NEW K \in SUBSET DOMAIN q, Increasing(q)
  PROVE  Increasing(KeepAt(q, K))
<1> DEFINE r == KeepAt(q, K)
<1>1. SUFFICES ASSUME NEW i \in DOMAIN r, NEW j \in DOMAIN r, i < j
               PROVE  r[i] < r[j]
  BY DEF Increasing
<1>2. /\ Place(K, i) \in K /\ r[i] = q[Place(K, i)]
      /\ Place(K, j) \in K /\ r[j] = q[Place(K, j)]
      /\ Place(K, i) < Place(K, j)
  BY <1>1, KeepAtProperties
<1> DEFINE a == Place(K, i)
           b == Place(K, j)
<1>3. a \in DOMAIN q /\ b \in DOMAIN q /\ a < b
  BY <1>2
<1> HIDE DEF a, b, r
<1>4. q[a] < q[b]
  BY <1>3 DEF Increasing
<1>5. QED
  BY <1>2, <1>4 DEF a, b, r

\* So do a queue that lost its head, whose head was the least element, and
\* one that a greater element joins.
LEMMA TailIncreasing ==
  ASSUME NEW S \in SUBSET Int, NEW q \in Seq(S), q # << >>, Increasing(q)
  PROVE  Increasing(Tail(q)) /\ \A x \in Elems(Tail(q)) : Head(q) < x
<1>1. /\ DOMAIN Tail(q) \subseteq Int
      /\ \A i \in DOMAIN Tail(q) : 1 < i + 1
      /\ 1 \in DOMAIN q /\ Head(q) = q[1]
  OBVIOUS
<1>2. \A i \in DOMAIN Tail(q) : i + 1 \in DOMAIN q /\ Tail(q)[i] = q[i + 1]
  BY HeadTailFacts
<1>3. Increasing(Tail(q))
  <2>1. SUFFICES ASSUME NEW i \in DOMAIN Tail(q), NEW j \in DOMAIN Tail(q), i < j
                 PROVE  Tail(q)[i] < Tail(q)[j]
    BY DEF Increasing
  <2>2. i + 1 < j + 1
    BY <1>1, <2>1
  <2>3. q[i + 1] < q[j + 1]
    BY <1>2, <2>2 DEF Increasing
  <2>4. QED
    BY <1>2, <2>3
<1>4. \A i \in DOMAIN Tail(q) : Head(q) < Tail(q)[i]
  <2>1. TAKE i \in DOMAIN Tail(q)
  <2>2. q[1] < q[i + 1]
    BY <1>1, <1>2 DEF Increasing
  <2>3. QED
    BY <1>1, <1>2, <2>2
<1>5. QED
  BY <1>3, <1>4 DEF Elems

LEMMA AppendIncreasing ==
  ASSUME NEW S \in SUBSET Int, NEW q \in Seq(S), NEW x \in S,
         Increasing(q), \A y \in Elems(q) : y < x
  PROVE  Increasing(Append(q, x))
<1> DEFINE a == Append(q, x)
<1>1. /\ DOMAIN q = 1 .. Len(q) /\ Len(q) \in Nat
      /\ DOMAIN a = 1 .. Len(q) + 1
      /\ \A i \in 1 .. Len(q) : a[i] = q[i]
      /\ a[Len(q) + 1] = x
  OBVIOUS
<1>2. \A i \in 1 .. Len(q) : a[i] < x
  BY <1>1 DEF Elems
<1> HIDE DEF a
<1>3. ASSUME NEW i \in DOMAIN a, NEW j \in DOMAIN a, i < j PROVE a[i] < a[j]
  <2>1. i \in 1 .. Len(q)
    BY <1>1, <1>3
  <2>2. CASE j = Len(q) + 1
    BY <1>1, <1>2, <2>1, <2>2
  <2>3. CASE j \in 1 .. Len(q)
    BY <1>1, <1>3, <2>1, <2>3 DEF Increasing
  <2>4. QED
    BY <1>1, <2>2, <2>3
<1>4. QED
  BY <1>3 DEF Increasing, a

=============================================================================
