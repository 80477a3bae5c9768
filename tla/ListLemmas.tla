----------------------------- MODULE ListLemmas -----------------------------
(***************************************************************************)
(* Facts about naturals that the theorems share: quotients, the rank of an *)
(* element in a finite set, sequences that list a finite set in ascending  *)
(* order, induction below a bound, factors and primes.                     *)
(***************************************************************************)
EXTENDS Integers, Sequences, FiniteSets, FiniteSetTheorems, WellFoundedInduction, TLAPS

-----------------------------------------------------------------------------
(* Quotients *)

\* The quotient of a division by a positive number.
LEMMA DivBounds ==
  ASSUME NEW x \in Int, NEW d \in Nat, d > 0
  PROVE  x \div d \in Int /\ d * (x \div d) <= x /\ x < d * (x \div d) + d
  OBVIOUS

LEMMA DivUnique ==
  ASSUME NEW x \in Int, NEW d \in Nat, d > 0, NEW q \in Int, d * q <= x, x < d * q + d
  PROVE  x \div d = q
<1> DEFINE p == x \div d
<1>1. p \in Int /\ d * p <= x /\ x < d * p + d
  BY DivBounds
<1> HIDE DEF p
<1>2. ASSUME NEW u \in Int, NEW v \in Int, u < v, d * v <= x PROVE ~(x < d * u + d)
  <2>1. d * (u + 1) <= d * v
    BY <1>2
  <2>2. d * (u + 1) = d * u + d
    OBVIOUS
  <2>3. d * u \in Int /\ d * v \in Int
    OBVIOUS
  <2>4. QED BY <1>2, <2>1, <2>2, <2>3
<1>3. p = q
  BY <1>1, <1>2
<1>4. QED BY <1>3 DEF p

LEMMA DivMonotonic ==
  ASSUME NEW x \in Int, NEW y \in Int, NEW d \in Nat, d > 0, x <= y
  PROVE  x \div d <= y \div d
<1> DEFINE p == x \div d
           q == y \div d
<1>1. p \in Int /\ q \in Int /\ d * p <= x /\ y < d * q + d
  BY DivBounds
<1> HIDE DEF p, q
<1>2. SUFFICES ASSUME q < p PROVE FALSE
  BY <1>1 DEF p, q
<1>3. d * (q + 1) <= d * p
  BY <1>1, <1>2
<1>4. d * (q + 1) = d * q + d
  BY <1>1
<1>5. d * q \in Int /\ d * p \in Int
  BY <1>1
<1>6. QED BY <1>1, <1>3, <1>4, <1>5

LEMMA DivShift ==
  ASSUME NEW x \in Int, NEW d \in Nat, d > 0
  PROVE  (x + d) \div d = x \div d + 1
<1> DEFINE p == x \div d
<1>1. p \in Int /\ d * p <= x /\ x < d * p + d
  BY DivBounds
<1> HIDE DEF p
<1>2. d * (p + 1) = d * p + d /\ d * p \in Int
  BY <1>1
<1>3. (x + d) \div d = p + 1
  BY <1>1, <1>2, DivUnique
<1>4. QED BY <1>3 DEF p

-----------------------------------------------------------------------------
(* Ranks *)

\* A set of naturals that is not empty has a least element.
LEMMA LeastElement ==
  ASSUME NEW T \in SUBSET Nat, T # {}
  PROVE  \E x \in T : \A y \in T : x <= y
<1> DEFINE R == OpToRel(<, Nat)
<1>1. IsWellFoundedOn(R, Nat)
  BY NatLessThanWellFounded
<1>2. \A x, y \in Nat : y < x => <<y, x>> \in R
  BY DEF OpToRel
<1> HIDE DEF R
<1>3. PICK x \in T : \A y \in T : ~(<<y, x>> \in R)
  BY <1>1, WFMin
<1>4. ASSUME NEW y \in T PROVE x <= y
  <2>1. x \in Nat /\ y \in Nat
    OBVIOUS
  <2>2. y < x => <<y, x>> \in R
    BY <1>2, <2>1
  <2>3. ~(y < x)
    BY <1>3, <2>2
  <2>4. QED BY <2>1, <2>3
<1>5. QED BY <1>4

\* The elements of S below s, and how they grow from one element to the next.
Below(S, s) == {r \in S : r < s}

LEMMA RankGrows ==
  ASSUME NEW S \in SUBSET Nat, IsFiniteSet(S), NEW s \in S
  PROVE  /\ Cardinality(Below(S, s)) \in Nat
         /\ Cardinality(Below(S, s) \union {s}) = Cardinality(Below(S, s)) + 1
         /\ Cardinality(Below(S, s)) < Cardinality(S)
         /\ \A t \in S : s < t => Cardinality(Below(S, s)) < Cardinality(Below(S, t))
<1>1. IsFiniteSet(Below(S, s)) /\ s \notin Below(S, s)
  BY FS_Subset DEF Below
<1>2. /\ Cardinality(Below(S, s)) \in Nat
      /\ Cardinality(Below(S, s) \union {s}) = Cardinality(Below(S, s)) + 1
  BY <1>1, FS_AddElement, FS_CardinalityType
<1>3. \A T \in SUBSET S : Below(S, s) \union {s} \subseteq T =>
        Cardinality(Below(S, s)) < Cardinality(T)
  <2> TAKE T \in SUBSET S
  <2> HAVE Below(S, s) \union {s} \subseteq T
  <2>1. IsFiniteSet(T) /\ Cardinality(T) \in Nat
    BY FS_Subset, FS_CardinalityType
  <2>2. Cardinality(Below(S, s) \union {s}) <= Cardinality(T)
    BY <2>1, FS_Subset
  <2>3. QED BY <1>2, <2>1, <2>2
<1>4. Below(S, s) \union {s} \subseteq S
  BY DEF Below
<1>5. ASSUME NEW t \in S, s < t PROVE Below(S, s) \union {s} \subseteq Below(S, t)
  <2> SUFFICES ASSUME NEW r \in Below(S, s) \union {s} PROVE r \in S /\ r < t
    BY DEF Below
  <2>1. r \in Nat /\ s \in Nat /\ t \in Nat /\ r \in S /\ r <= s
    BY DEF Below
  <2>2. QED BY <1>5, <2>1
<1>6. \A t \in S : Below(S, t) \subseteq S
  BY DEF Below
<1>7. QED BY <1>2, <1>3, <1>4, <1>5, <1>6

\* Every rank is taken: after the element of one rank, the least one above it has
\* the next.
LEMMA RankTaken ==
  ASSUME NEW S \in SUBSET Nat, IsFiniteSet(S), NEW i \in 1 .. Cardinality(S)
  PROVE  \E s \in S : Cardinality(Below(S, s)) = i - 1
<1>1. Cardinality(S) \in Nat
  BY FS_CardinalityType
<1> DEFINE bad == {k \in Nat : k + 1 \in 1 .. Cardinality(S)
                               /\ \A s \in S : Cardinality(Below(S, s)) # k}
<1>2. bad = {}
  <2> SUFFICES ASSUME bad # {} PROVE FALSE
    OBVIOUS
  <2>1. PICK k \in bad : \A j \in bad : k <= j
    BY LeastElement
  <2>2. k \in Nat /\ k + 1 <= Cardinality(S) /\ \A s \in S : Cardinality(Below(S, s)) # k
    BY <1>1
  <2>3. CASE k = 0
    <3>1. S # {}
      BY <1>1, <2>2, <2>3, FS_EmptySet
    <3>2. PICK m \in S : \A r \in S : m <= r
      BY <3>1, LeastElement
    <3>3. Below(S, m) = {}
      <4> SUFFICES ASSUME NEW r \in S, r < m PROVE FALSE
        BY DEF Below
      <4>1. r \in Nat /\ m \in Nat /\ m <= r
        BY <3>2
      <4>2. QED BY <4>1
    <3>4. QED BY <2>2, <2>3, <3>3, FS_EmptySet
  <2>4. CASE k > 0
    <3>1. k - 1 \in Nat /\ k - 1 \notin bad
      BY <2>1, <2>2, <2>4
    <3>2. PICK s \in S : Cardinality(Below(S, s)) = k - 1
      BY <1>1, <2>2, <3>1
    <3> DEFINE above == {r \in S : r > s}
    <3>3. above # {}
      <4> SUFFICES ASSUME above = {} PROVE FALSE
        OBVIOUS
      <4>1. S = Below(S, s) \union {s}
        <5>1. ASSUME NEW r \in S PROVE r < s \/ r = s
          <6>1. r \in Nat /\ s \in Nat /\ ~(r > s)
            OBVIOUS
          <6>2. QED BY <6>1
        <5>2. QED BY <5>1 DEF Below
      <4>2. QED BY <2>2, <3>2, <4>1, RankGrows
    <3>4. PICK t \in above : \A r \in above : t <= r
      BY <3>3, LeastElement
    <3>5. Below(S, t) = Below(S, s) \union {s}
      <4>1. s \in Nat /\ t \in Nat /\ t \in S /\ s < t
        OBVIOUS
      <4>2. ASSUME NEW r \in S PROVE r < t <=> (r < s \/ r = s)
        <5>1. r \in Nat /\ (r > s => t <= r)
          BY <3>4
        <5>2. QED BY <4>1, <5>1
      <4>3. QED BY <4>2 DEF Below
    <3>6. Cardinality(Below(S, t)) = k
      BY <2>2, <3>2, <3>5, RankGrows
    <3>7. QED BY <2>2, <3>6
  <2>5. QED BY <2>2, <2>3, <2>4
<1>3. i - 1 \in Nat /\ (i - 1) + 1 \in 1 .. Cardinality(S)
  BY <1>1
<1>4. QED BY <1>2, <1>3

-----------------------------------------------------------------------------
(* Ascending lists *)

\* Sequences are equal when their elements are.
LEMMA SeqEqual ==
  ASSUME NEW p \in Seq(Nat), NEW q \in Seq(Nat), Len(p) = Len(q),
         \A i \in 1 .. Len(p) : p[i] = q[i]
  PROVE  p = q
  OBVIOUS

\* q lists the elements of S in ascending order, each once.
Lists(q, S) ==
  /\ S \in SUBSET Nat /\ IsFiniteSet(S)
  /\ q \in Seq(Nat) /\ Len(q) = Cardinality(S)
  /\ \A s \in S : q[Cardinality(Below(S, s)) + 1] = s

\* The empty sequence lists the empty set.
LEMMA ListsNone == Lists(<< >>, {})
<1>1. << >> \in Seq(Nat) /\ Len(<< >>) = 0
  OBVIOUS
<1>2. QED BY <1>1, FS_EmptySet DEF Lists

\* The i-th element is the one of rank i - 1.
LEMMA ListsRank ==
  ASSUME NEW q, NEW S, Lists(q, S), NEW i \in 1 .. Len(q)
  PROVE  q[i] \in S /\ Cardinality(Below(S, q[i])) = i - 1
<1>1. PICK s \in S : Cardinality(Below(S, s)) = i - 1
  BY RankTaken DEF Lists
<1>2. Len(q) \in Nat
  BY DEF Lists
<1>3. (i - 1) + 1 = i
  BY <1>2
<1>4. q[i] = s
  BY <1>1, <1>3 DEF Lists
<1>5. QED BY <1>1, <1>4

\* A list of an initial part of a set is a prefix of the list of the set.
LEMMA ListsPrefix ==
  ASSUME NEW q, NEW S, Lists(q, S), NEW a, NEW T, Lists(a, T),
         S \subseteq T, \A s \in S : \A t \in T \ S : s < t
  PROVE  /\ Len(q) <= Len(a) /\ q = SubSeq(a, 1, Len(q))
         /\ S = T => q = a
<1>1. Len(q) \in Nat /\ Len(a) \in Nat /\ Len(q) <= Len(a)
  BY FS_Subset, FS_CardinalityType DEF Lists
<1>2. ASSUME NEW i \in 1 .. Len(q) PROVE q[i] = a[i]
  <2>1. q[i] \in S /\ Cardinality(Below(S, q[i])) = i - 1
    BY ListsRank
  <2>2. Below(T, q[i]) = Below(S, q[i])
    <3>1. ASSUME NEW t \in T, t < q[i] PROVE t \in S
      <4>1. t \in Nat /\ q[i] \in Nat
        BY <2>1 DEF Lists
      <4>2. t \notin S => q[i] < t
        BY <2>1
      <4>3. QED BY <3>1, <4>1, <4>2
    <3>2. QED BY <3>1 DEF Below
  <2>3. q[i] \in T /\ (i - 1) + 1 = i
    BY <1>1, <2>1
  <2>4. QED BY <2>1, <2>2, <2>3 DEF Lists
<1>3. q \in Seq(Nat) /\ a \in Seq(Nat)
  BY DEF Lists
<1>4. q = SubSeq(a, 1, Len(q))
  <2>1. /\ SubSeq(a, 1, Len(q)) \in Seq(Nat) /\ Len(SubSeq(a, 1, Len(q))) = Len(q)
        /\ \A i \in 1 .. Len(q) : SubSeq(a, 1, Len(q))[i] = a[i]
    BY <1>1, <1>3
  <2>2. QED BY <1>2, <1>3, <2>1, SeqEqual
<1>5. S = T => q = a
  BY <1>2, <1>3, SeqEqual DEF Lists
<1>6. QED BY <1>1, <1>4, <1>5

\* A greater element is appended.
LEMMA ListsAppend ==
  ASSUME NEW q, NEW S, Lists(q, S), NEW x \in Nat, \A s \in S : s < x
  PROVE  Lists(Append(q, x), S \union {x})
<1>1. /\ S \in SUBSET Nat /\ IsFiniteSet(S) /\ q \in Seq(Nat) /\ Len(q) = Cardinality(S)
      /\ x \notin S /\ Len(q) \in Nat
  BY DEF Lists
<1>2. /\ IsFiniteSet(S \union {x}) /\ Cardinality(S \union {x}) = Len(q) + 1
      /\ S \union {x} \in SUBSET Nat
  BY <1>1, FS_AddElement
<1>3. /\ Append(q, x) \in Seq(Nat) /\ Len(Append(q, x)) = Len(q) + 1
      /\ Append(q, x)[Len(q) + 1] = x
      /\ \A i \in 1 .. Len(q) : Append(q, x)[i] = q[i]
  BY <1>1
<1>4. Below(S \union {x}, x) = S
  <2>1. ~(x < x)
    OBVIOUS
  <2>2. QED BY <2>1 DEF Below
<1>5. ASSUME NEW s \in S
      PROVE  Append(q, x)[Cardinality(Below(S \union {x}, s)) + 1] = s
  <2>1. Below(S \union {x}, s) = Below(S, s)
    <3>1. s \in Nat /\ ~(x < s)
      BY <1>1
    <3>2. QED BY <3>1 DEF Below
  <2>2. Cardinality(Below(S, s)) \in Nat /\ Cardinality(Below(S, s)) < Cardinality(S)
    BY <1>1, RankGrows
  <2>3. Cardinality(Below(S, s)) + 1 \in 1 .. Len(q)
    BY <1>1, <2>2
  <2>4. q[Cardinality(Below(S, s)) + 1] = s
    BY DEF Lists
  <2>5. QED BY <1>3, <2>1, <2>3, <2>4
<1>6. QED BY <1>1, <1>2, <1>3, <1>4, <1>5 DEF Lists

\* Lists of sets one above the other are concatenated.
LEMMA ListsConcat ==
  ASSUME NEW p, NEW S, Lists(p, S), NEW q, NEW T, Lists(q, T),
         \A s \in S : \A t \in T : s < t
  PROVE  Lists(p \o q, S \union T)
<1>1. /\ S \in SUBSET Nat /\ IsFiniteSet(S) /\ p \in Seq(Nat) /\ Len(p) = Cardinality(S)
      /\ T \in SUBSET Nat /\ IsFiniteSet(T) /\ q \in Seq(Nat) /\ Len(q) = Cardinality(T)
      /\ Len(p) \in Nat /\ Len(q) \in Nat
  BY DEF Lists
<1>2. S \intersect T = {}
  <2> SUFFICES ASSUME NEW s \in S, s \in T PROVE FALSE
    OBVIOUS
  <2>1. s < s /\ s \in Nat
    BY <1>1
  <2>2. QED BY <2>1
<1>3. /\ IsFiniteSet(S \union T) /\ Cardinality(S \union T) = Len(p) + Len(q)
      /\ S \union T \in SUBSET Nat
  <2>1. /\ IsFiniteSet(S \union T)
        /\ Cardinality(S \union T) = Cardinality(S) + Cardinality(T) - Cardinality(S \intersect T)
    BY <1>1, FS_Union
  <2>2. Cardinality(S \intersect T) = 0
    BY <1>2, FS_EmptySet
  <2>3. QED BY <1>1, <2>1, <2>2
<1>4. /\ p \o q \in Seq(Nat) /\ Len(p \o q) = Len(p) + Len(q)
      /\ \A i \in 1 .. Len(p) : (p \o q)[i] = p[i]
      /\ \A i \in 1 .. Len(q) : (p \o q)[Len(p) + i] = q[i]
  <2>1. /\ p \o q \in Seq(Nat) /\ Len(p \o q) = Len(p) + Len(q)
    BY <1>1
  <2>2. ASSUME NEW i \in 1 .. Len(p) PROVE (p \o q)[i] = p[i]
    <3>1. i \in 1 .. Len(p) + Len(q) /\ i <= Len(p)
      BY <1>1
    <3>2. QED BY <1>1, <3>1
  <2>3. ASSUME NEW i \in 1 .. Len(q) PROVE (p \o q)[Len(p) + i] = q[i]
    <3>1. /\ Len(p) + i \in 1 .. Len(p) + Len(q) /\ ~(Len(p) + i <= Len(p))
          /\ (Len(p) + i) - Len(p) = i
      BY <1>1
    <3>2. QED BY <1>1, <3>1
  <2>4. QED BY <2>1, <2>2, <2>3
<1>5. ASSUME NEW s \in S
      PROVE  (p \o q)[Cardinality(Below(S \union T, s)) + 1] = s
  <2>1. Below(S \union T, s) = Below(S, s)
    <3>1. \A t \in T : ~(t < s)
      <4> TAKE t \in T
      <4>1. s \in Nat /\ t \in Nat /\ s < t
        BY <1>1
      <4>2. QED BY <4>1
    <3>2. QED BY <3>1 DEF Below
  <2>2. Cardinality(Below(S, s)) \in Nat /\ Cardinality(Below(S, s)) < Cardinality(S)
    BY <1>1, RankGrows
  <2>3. Cardinality(Below(S, s)) + 1 \in 1 .. Len(p)
    BY <1>1, <2>2
  <2>4. p[Cardinality(Below(S, s)) + 1] = s
    BY DEF Lists
  <2>5. QED BY <1>4, <2>1, <2>3, <2>4
<1>6. ASSUME NEW t \in T
      PROVE  (p \o q)[Cardinality(Below(S \union T, t)) + 1] = t
  <2>1. Below(S \union T, t) = S \union Below(T, t)
    BY DEF Below
  <2>2. S \intersect Below(T, t) = {} /\ IsFiniteSet(Below(T, t))
    BY <1>1, <1>2, FS_Subset DEF Below
  <2>3. Cardinality(Below(T, t)) \in Nat /\ Cardinality(Below(T, t)) < Cardinality(T)
    BY <1>1, RankGrows
  <2>4. Cardinality(S \union Below(T, t)) = Len(p) + Cardinality(Below(T, t))
    <3>1. Cardinality(S \union Below(T, t))
            = Cardinality(S) + Cardinality(Below(T, t)) - Cardinality(S \intersect Below(T, t))
      BY <1>1, <2>2, FS_Union
    <3>2. Cardinality(S \intersect Below(T, t)) = 0
      BY <2>2, FS_EmptySet
    <3>3. QED BY <1>1, <2>3, <3>1, <3>2
  <2>5. Cardinality(Below(T, t)) + 1 \in 1 .. Len(q)
    BY <1>1, <2>3
  <2>6. q[Cardinality(Below(T, t)) + 1] = t
    BY DEF Lists
  <2>7. Cardinality(Below(S \union T, t)) + 1 = Len(p) + (Cardinality(Below(T, t)) + 1)
    <3>1. Cardinality(Below(S \union T, t)) = Len(p) + Cardinality(Below(T, t))
      BY <2>1, <2>4
    <3>2. QED BY <1>1, <2>3, <3>1
  <2>8. (p \o q)[Len(p) + (Cardinality(Below(T, t)) + 1)] = t
    BY <1>4, <2>5, <2>6
  <2>9. QED BY <2>7, <2>8
<1>7. QED BY <1>1, <1>3, <1>4, <1>5, <1>6 DEF Lists

\* A sequence whose i-th element is the one of rank i - 1 lists the set.
LEMMA ListsByRank ==
  ASSUME NEW S \in SUBSET Nat, IsFiniteSet(S), NEW A,
         A = [i \in 1 .. Cardinality(S) |-> A[i]],
         \A i \in 1 .. Cardinality(S) : A[i] \in S /\ Cardinality(Below(S, A[i])) = i - 1
  PROVE  Lists(A, S)
<1> DEFINE N == Cardinality(S)
<1>1. N \in Nat
  BY FS_CardinalityType
<1>2. \A i \in 1 .. N : A[i] \in S /\ Cardinality(Below(S, A[i])) = i - 1
  OBVIOUS
<1>4. A \in Seq(Nat) /\ Len(A) = N
  <2>1. A \in [1 .. N -> Nat]
    BY <1>2
  <2>2. QED BY <1>1, <2>1
<1>5. ASSUME NEW s \in S PROVE A[Cardinality(Below(S, s)) + 1] = s
  <2> DEFINE k == Cardinality(Below(S, s))
  <2>1. k \in Nat /\ k < N
    BY RankGrows
  <2> HIDE DEF k
  <2>2. k + 1 \in 1 .. N /\ (k + 1) - 1 = k
    BY <1>1, <2>1
  <2>3. A[k + 1] \in S /\ Cardinality(Below(S, A[k + 1])) = k
    BY <1>2, <2>2
  <2>4. /\ A[k + 1] < s => Cardinality(Below(S, A[k + 1])) < k
        /\ s < A[k + 1] => k < Cardinality(Below(S, A[k + 1]))
    BY <2>3, RankGrows DEF k
  <2>5. A[k + 1] \in Nat /\ s \in Nat
    BY <2>3
  <2>6. QED BY <2>1, <2>3, <2>4, <2>5 DEF k
<1>6. QED BY <1>4, <1>5 DEF Lists

\* The odd number with index k from the odd number a on, and their set.
OddFrom(a, S) == {a + 2 * k : k \in S}

\* Indices and numbers are counted alike.
LEMMA OddCardinality ==
  ASSUME NEW a \in Nat, NEW S \in SUBSET Nat, IsFiniteSet(S)
  PROVE  IsFiniteSet(OddFrom(a, S)) /\ Cardinality(OddFrom(a, S)) = Cardinality(S)
<1> DEFINE f == [k \in S |-> a + 2 * k]
<1>1. f \in [S -> OddFrom(a, S)]
  BY DEF OddFrom
<1>2. \A k, l \in S : f[k] = f[l] => k = l
  <2> TAKE k, l \in S
  <2>1. k \in Nat /\ l \in Nat
    OBVIOUS
  <2>2. QED BY <2>1
<1>3. \A t \in OddFrom(a, S) : \E k \in S : f[k] = t
  BY DEF OddFrom
<1> HIDE DEF f
<1>4. f \in Injection(S, OddFrom(a, S)) /\ f \in Surjection(S, OddFrom(a, S))
  BY <1>1, <1>2, <1>3 DEF Injection, IsInjective, Surjection
<1>5. QED BY <1>4, FS_Bijection DEF ExistsBijection, Bijection

\* A list of indices, turned into the odd numbers.
LEMMA ListsOdd ==
  ASSUME NEW a \in Nat, NEW q, NEW S, Lists(q, S)
  PROVE  Lists([i \in DOMAIN q |-> a + 2 * q[i]], OddFrom(a, S))
<1> DEFINE r == [i \in DOMAIN q |-> a + 2 * q[i]]
<1>1. /\ S \in SUBSET Nat /\ IsFiniteSet(S) /\ q \in Seq(Nat) /\ Len(q) = Cardinality(S)
      /\ Len(q) \in Nat
  BY DEF Lists
<1>2. r \in Seq(Nat) /\ Len(r) = Len(q) /\ \A i \in 1 .. Len(q) : r[i] = a + 2 * q[i]
  <2>1. DOMAIN q = 1 .. Len(q) /\ \A i \in 1 .. Len(q) : q[i] \in Nat
    BY <1>1
  <2>2. r \in [1 .. Len(q) -> Nat]
    BY <2>1
  <2> HIDE DEF r
  <2>3. r \in Seq(Nat) /\ Len(r) = Len(q)
    BY <1>1, <2>2
  <2>4. QED BY <2>1, <2>3 DEF r
<1> HIDE DEF r
<1>3. OddFrom(a, S) \in SUBSET Nat
  BY <1>1 DEF OddFrom
<1>4. IsFiniteSet(OddFrom(a, S)) /\ Cardinality(OddFrom(a, S)) = Len(q)
  BY <1>1, OddCardinality
<1>5. ASSUME NEW k \in S
      PROVE  r[Cardinality(Below(OddFrom(a, S), a + 2 * k)) + 1] = a + 2 * k
  <2>1. Below(OddFrom(a, S), a + 2 * k) = OddFrom(a, Below(S, k))
    <3>1. \A l \in S : a + 2 * l < a + 2 * k <=> l < k
      <4> TAKE l \in S
      <4>1. k \in Nat /\ l \in Nat
        BY <1>1
      <4>2. QED BY <4>1
    <3>2. QED BY <3>1 DEF Below, OddFrom
  <2>2. Below(S, k) \in SUBSET Nat /\ IsFiniteSet(Below(S, k))
    BY <1>1, FS_Subset DEF Below
  <2>3. Cardinality(OddFrom(a, Below(S, k))) = Cardinality(Below(S, k))
    BY <2>2, OddCardinality
  <2>4. Cardinality(Below(S, k)) \in Nat /\ Cardinality(Below(S, k)) < Cardinality(S)
    BY <1>1, RankGrows
  <2>5. Cardinality(Below(S, k)) + 1 \in 1 .. Len(q)
    BY <1>1, <2>4
  <2>6. q[Cardinality(Below(S, k)) + 1] = k
    BY DEF Lists
  <2>7. QED BY <1>2, <2>1, <2>3, <2>5, <2>6
<1>6. \A t \in OddFrom(a, S) : r[Cardinality(Below(OddFrom(a, S), t)) + 1] = t
  BY <1>5 DEF OddFrom
<1>7. Lists(r, OddFrom(a, S))
  BY <1>2, <1>3, <1>4, <1>6 DEF Lists
<1>8. QED BY <1>7 DEF r

-----------------------------------------------------------------------------
(* Induction below a bound *)

\* Induction up to n, for the members of a set.
LEMMA UpTo ==
  ASSUME NEW n \in Nat, NEW S, 0 \in S, \A k \in 1 .. n : k - 1 \in S => k \in S
  PROVE  n \in S /\ \A k \in 0 .. n : k \in S
<1> DEFINE Missing == {k \in 0 .. n : k \notin S}
<1>1. SUFFICES ASSUME Missing # {} PROVE FALSE
  <2>1. n \in 0 .. n
    OBVIOUS
  <2>2. QED BY <2>1
<1>2. PICK k \in Missing : \A m \in Missing : k <= m
  <2>1. Missing \in SUBSET Nat
    OBVIOUS
  <2> HIDE DEF Missing
  <2>2. QED BY <1>1, <2>1, LeastElement
<1>3. k \in 1 .. n /\ k \notin S
  OBVIOUS
<1>4. k - 1 \in 0 .. n /\ k - 1 < k
  BY <1>3
<1>5. k - 1 \in S
  BY <1>2, <1>4
<1>6. QED BY <1>3, <1>5

-----------------------------------------------------------------------------
(* Factors *)

\* Products of naturals.
LEMMA Products ==
  ASSUME NEW a \in Nat, NEW b \in Nat, NEW c \in Nat
  PROVE  /\ a * b \in Nat /\ a * b = b * a /\ (a * b) * c = a * (b * c)
         /\ a * (b + c) = a * b + a * c
         /\ a * 1 = a /\ a * 0 = 0
         /\ b < c /\ a > 0 => a * b < a * c
         /\ b <= c => a * b <= a * c
         /\ a * b = a * c /\ a > 0 => b = c
         /\ a * b = 0 => a = 0 \/ b = 0
<1>1. a * b \in Nat /\ a * b = b * a /\ a * (b + c) = a * b + a * c /\ a * 1 = a /\ a * 0 = 0
  OBVIOUS
<1>2. (a * b) * c = a * (b * c)
  OBVIOUS
<1>3. b < c /\ a > 0 => a * b < a * c
  OBVIOUS
<1>4. b <= c => a * b <= a * c
  OBVIOUS
<1>5. a * b = a * c /\ a > 0 => b = c
  OBVIOUS
<1>6. a * b = 0 => a = 0 \/ b = 0
  OBVIOUS
<1>7. QED BY <1>1, <1>2, <1>3, <1>4, <1>5, <1>6

LEMMA Cancel ==
  ASSUME NEW a \in Nat, NEW b \in Nat, NEW c \in Nat, a > 0, a * b = a * c
  PROVE  b = c
  BY Products

IsFactor(d, n) == \E c \in Nat : d * c = n

LEMMA FactorWitness ==
  ASSUME NEW d \in Nat, NEW c \in Nat
  PROVE  IsFactor(d, d * c) /\ IsFactor(c, d * c)
<1>1. d * c = c * d
  BY Products
<1>2. QED BY <1>1, Zenon DEF IsFactor

LEMMA FactorTrans ==
  ASSUME NEW a \in Nat, NEW b \in Nat, NEW c \in Nat, IsFactor(a, b), IsFactor(b, c)
  PROVE  IsFactor(a, c)
<1>1. PICK x \in Nat : a * x = b
  BY DEF IsFactor
<1>2. PICK y \in Nat : b * y = c
  BY DEF IsFactor
<1>3. x * y \in Nat /\ a * (x * y) = c
  BY <1>1, <1>2, Products
<1>4. QED BY <1>3, Zenon DEF IsFactor

\* A factor of both terms divides a sum and a difference.
LEMMA FactorSum ==
  ASSUME NEW d \in Nat, NEW a \in Nat, NEW b \in Nat, IsFactor(d, a)
  PROVE  IsFactor(d, b) <=> IsFactor(d, a + b)
<1>1. PICK x \in Nat : d * x = a
  BY DEF IsFactor
<1>2. ASSUME IsFactor(d, b) PROVE IsFactor(d, a + b)
  <2>1. PICK y \in Nat : d * y = b
    BY <1>2 DEF IsFactor
  <2>2. x + y \in Nat /\ d * (x + y) = a + b
    BY <1>1, <2>1, Products
  <2>3. QED BY <2>2, Zenon DEF IsFactor
<1>3. ASSUME IsFactor(d, a + b) PROVE IsFactor(d, b)
  <2>1. PICK z \in Nat : d * z = a + b
    BY <1>3 DEF IsFactor
  <2>2. CASE x <= z
    <3> DEFINE y == z - x
    <3>1. y \in Nat /\ z = x + y
      BY <2>2
    <3> HIDE DEF y
    <3>2. d * z = d * x + d * y /\ d * y \in Nat
      BY <3>1, Products
    <3> DEFINE w == d * y
    <3>3. w \in Nat /\ a + w = a + b
      BY <1>1, <2>1, <3>2
    <3> HIDE DEF w
    <3>4. w = b
      BY <3>3
    <3>5. QED BY <3>1, <3>4, Zenon DEF IsFactor, w
  <2>3. CASE z < x
    <3>1. d * z <= d * x
      BY <2>3, Products
    <3>2. b = 0
      BY <1>1, <2>1, <3>1
    <3>3. d * 0 = b
      BY <3>2, Products
    <3>4. QED BY <3>3, Zenon DEF IsFactor
  <2>4. QED BY <2>2, <2>3
<1>4. QED BY <1>2, <1>3

LEMMA FactorBounds ==
  ASSUME NEW d \in Nat, NEW n \in Nat, n > 0, IsFactor(d, n)
  PROVE  d > 0 /\ d <= n
<1>1. PICK c \in Nat : d * c = n
  BY DEF IsFactor
<1>2. c > 0 /\ d > 0
  BY <1>1, Products
<1>3. d * 1 <= d * c
  <2>1. 1 <= c /\ 1 \in Nat
    BY <1>2
  <2>2. QED BY <2>1, Products
<1>4. QED BY <1>1, <1>2, <1>3, Products

\* What has no factor in common with one side of a product divides the other.
LEMMA Gauss ==
  ASSUME NEW a \in Nat, NEW b \in Nat, NEW d \in Nat, a > 0, d > 0,
         IsFactor(d, a * b),
         \A g \in Nat : IsFactor(g, d) /\ IsFactor(g, a) => g = 1
  PROVE  IsFactor(d, b)
<1> DEFINE S == {y \in Nat : y > 0 /\ IsFactor(d, a * y)}
<1>1. d \in S
  BY FactorWitness, Products
<1>2. S \in SUBSET Nat /\ S # {}
  BY <1>1
<1>3. PICK m \in S : \A y \in S : m <= y
  BY <1>2, LeastElement
<1>4. m \in Nat /\ m > 0 /\ IsFactor(d, a * m)
  OBVIOUS
<1>5. ASSUME NEW y \in Nat, IsFactor(d, a * y) PROVE IsFactor(m, y)
  <2> DEFINE q == y \div m
             r == y - m * q
  <2>1. q \in Int /\ m * q <= y /\ y < m * q + m
    BY <1>4, DivBounds
  <2>2. q \in Nat
    <3>1. m * (y \div m) <= y /\ y < m * (y \div m) + m /\ y >= 0 /\ m > 0
      BY <1>4, <2>1
    <3>2. SUFFICES ASSUME q <= -1 PROVE FALSE
      BY <2>1
    <3>3. m * q <= m * (-1)
      BY <1>4, <2>1, <3>2
    <3>4. m * (-1) = -m
      BY <1>4
    <3>5. m * q \in Int
      BY <1>4, <2>1
    <3>6. QED BY <1>4, <2>1, <3>3, <3>4, <3>5
  <2> HIDE DEF q
  <2>3. r \in Nat /\ r < m /\ y = m * q + r /\ m * q \in Nat
    BY <1>4, <2>1, <2>2, Products
  <2> HIDE DEF r
  <2>4. a * y = a * (m * q) + a * r /\ a * (m * q) \in Nat /\ a * r \in Nat
    BY <2>3, Products
  <2>5. IsFactor(d, a * (m * q))
    <3>1. (a * m) * q = a * (m * q) /\ a * m \in Nat
      BY <1>4, <2>2, Products
    <3>2. IsFactor(a * m, a * (m * q))
      BY <2>2, <3>1, FactorWitness
    <3>3. QED BY <1>4, <2>4, <3>1, <3>2, FactorTrans
  <2>6. IsFactor(d, a * r)
    BY <1>5, <2>4, <2>5, FactorSum
  <2>7. r = 0
    <3>1. r > 0 => r \in S
      BY <2>3, <2>6
    <3>2. r > 0 => m <= r
      BY <1>3, <3>1
    <3>3. QED BY <1>4, <2>3, <3>2
  <2>8. m * q = y
    BY <2>3, <2>7
  <2>9. QED BY <2>2, <2>8, Zenon DEF IsFactor
<1>6. IsFactor(m, b) /\ IsFactor(m, d)
  BY <1>1, <1>5
<1>7. PICK g \in Nat : m * g = d
  BY <1>6 DEF IsFactor
<1>8. PICK c \in Nat : d * c = a * m
  BY <1>4 DEF IsFactor
<1>9. a = g * c
  <2>1. d * c = m * (g * c) /\ g * c \in Nat
    BY <1>4, <1>7, Products
  <2>2. m * (g * c) = m * a
    BY <1>4, <1>8, <2>1, Products
  <2>3. QED BY <1>4, <2>1, <2>2, Products
<1>10. IsFactor(g, d) /\ IsFactor(g, a)
  BY <1>4, <1>7, <1>9, FactorWitness
<1>11. g = 1
  BY <1>10
<1>12. d = m
  BY <1>4, <1>7, <1>11, Products
<1>13. QED BY <1>6, <1>12

PrimeNumber(p) == p \in Nat /\ p >= 2 /\ \A d \in Nat : IsFactor(d, p) => d = 1 \/ d = p

LEMMA Euclid ==
  ASSUME NEW p, PrimeNumber(p), NEW a \in Nat, NEW b \in Nat, IsFactor(p, a * b)
  PROVE  IsFactor(p, a) \/ IsFactor(p, b)
<1>1. p \in Nat /\ p > 0
  BY DEF PrimeNumber
<1>2. SUFFICES ASSUME ~IsFactor(p, a) PROVE IsFactor(p, b)
  OBVIOUS
<1>3. a > 0
  <2>1. p * 0 = 0
    BY <1>1, Products
  <2>2. IsFactor(p, 0)
    BY <2>1, Zenon DEF IsFactor
  <2>3. QED BY <1>2, <2>2
<1>4. ASSUME NEW g \in Nat, IsFactor(g, p), IsFactor(g, a) PROVE g = 1
  BY <1>2, <1>4 DEF PrimeNumber
<1>5. QED BY <1>1, <1>3, <1>4, Gauss

\* What a prime does not divide has no use for it.
LEMMA WithoutPrime ==
  ASSUME NEW p, PrimeNumber(p), NEW d \in Nat, d > 0, NEW b \in Nat, IsFactor(d, p * b),
         ~IsFactor(p, d)
  PROVE  IsFactor(d, b)
<1>1. p \in Nat /\ p > 0
  BY DEF PrimeNumber
<1>2. ASSUME NEW g \in Nat, IsFactor(g, d), IsFactor(g, p) PROVE g = 1
  BY <1>2 DEF PrimeNumber
<1>3. QED BY <1>1, <1>2, Gauss

\* A number from 2 on has a prime factor, whose square it reaches if it is no
\* prime itself.
LEMMA LeastFactor ==
  ASSUME NEW n \in Nat, n >= 2
  PROVE  \E q \in Nat : /\ PrimeNumber(q) /\ IsFactor(q, n)
                        /\ ~PrimeNumber(n) => q * q <= n
<1> DEFINE S == {d \in Nat : d >= 2 /\ IsFactor(d, n)}
<1>1. n \in S
  <2>1. n * 1 = n
    OBVIOUS
  <2>2. IsFactor(n, n)
    BY <2>1, Zenon DEF IsFactor
  <2>3. QED BY <2>2
<1>2. S \in SUBSET Nat /\ S # {}
  BY <1>1
<1>3. PICK q \in S : \A d \in S : q <= d
  BY <1>2, LeastElement
<1>4. q \in Nat /\ q >= 2 /\ IsFactor(q, n)
  OBVIOUS
<1>5. PrimeNumber(q)
  <2> SUFFICES ASSUME NEW d \in Nat, IsFactor(d, q), d # 1 PROVE d = q
    BY <1>4 DEF PrimeNumber
  <2>1. d > 0 /\ d <= q
    BY <1>4, FactorBounds
  <2>2. IsFactor(d, n)
    BY <1>4, FactorTrans
  <2>3. d \in S
    BY <2>1, <2>2
  <2>4. q <= d
    BY <1>3, <2>3
  <2>5. QED BY <1>4, <2>1, <2>4
<1>6. ASSUME ~PrimeNumber(n) PROVE q * q <= n
  <2>1. q # n
    BY <1>5, <1>6
  <2>2. PICK c \in Nat : q * c = n
    BY <1>4 DEF IsFactor
  <2>3. c # 0 /\ c # 1
    BY <1>4, <2>1, <2>2, Products
  <2>4. IsFactor(c, n)
    BY <1>4, <2>2, FactorWitness
  <2>5. c \in S
    BY <2>3, <2>4
  <2>6. q <= c
    BY <1>3, <2>5
  <2>7. q * q <= q * c
    BY <1>4, <2>6, Products
  <2>8. QED BY <2>2, <2>7
<1>7. QED BY <1>4, <1>5, <1>6

-----------------------------------------------------------------------------
(* Parity *)

LEMMA Parities ==
  ASSUME NEW x \in Nat
  PROVE  /\ x % 2 = 0 => \E u \in Nat : x = 2 * u
         /\ x % 2 = 1 => \E u \in Nat : x = 2 * u + 1
         /\ x % 2 \in {0, 1}
         /\ \A u \in Nat : (2 * u) % 2 = 0 /\ (2 * u + 1) % 2 = 1
<1>1. x = 2 * (x \div 2) + (x % 2) /\ x \div 2 \in Nat /\ x % 2 \in {0, 1}
  OBVIOUS
<1>2. \A u \in Nat : (2 * u) % 2 = 0 /\ (2 * u + 1) % 2 = 1
  OBVIOUS
<1>3. QED BY <1>1, <1>2

\* A product is odd when both of its sides are.
LEMMA OddProducts ==
  ASSUME NEW a \in Nat, NEW b \in Nat
  PROVE  (a * b) % 2 = 1 <=> a % 2 = 1 /\ b % 2 = 1
<1>1. ASSUME NEW u \in Nat, a = 2 * u PROVE (a * b) % 2 = 0
  <2>1. a * b = 2 * (u * b) /\ u * b \in Nat
    BY <1>1, Products
  <2>2. QED BY <2>1, Parities
<1>2. ASSUME NEW u \in Nat, b = 2 * u PROVE (a * b) % 2 = 0
  <2>1. a * b = 2 * (a * u) /\ a * u \in Nat
    <3>1. a * b = b * a /\ (2 * u) * a = 2 * (u * a) /\ a * u = u * a /\ a * u \in Nat
      BY Products
    <3>2. QED BY <1>2, <3>1
  <2>2. QED BY <2>1, Parities
<1>3. ASSUME NEW u \in Nat, NEW v \in Nat, a = 2 * u + 1, b = 2 * v + 1
      PROVE  (a * b) % 2 = 1
  <2>1. a * b = 2 * (u * b + v) + 1 /\ u * b + v \in Nat
    <3>1. a * b = b * a /\ b * (2 * u + 1) = b * (2 * u) + b * 1 /\ b * 1 = b
          /\ b * (2 * u) = (2 * u) * b /\ (2 * u) * b = 2 * (u * b) /\ u * b \in Nat
      BY Products
    <3>2. a * b = 2 * (u * b) + b
      BY <1>3, <3>1
    <3>3. QED BY <1>3, <3>1, <3>2
  <2>2. QED BY <2>1, Parities
<1>4. QED BY <1>1, <1>2, <1>3, Parities

\* An odd factor of twice a number is a factor of the number.
LEMMA OddFactor ==
  ASSUME NEW f \in Nat, NEW x \in Nat, f % 2 = 1, IsFactor(f, 2 * x)
  PROVE  IsFactor(f, x)
<1>1. PICK c \in Nat : f * c = 2 * x
  BY DEF IsFactor
<1>2. (f * c) % 2 = 0
  BY <1>1, Parities
<1>3. c % 2 = 0
  BY <1>2, OddProducts, Parities
<1>4. PICK v \in Nat : c = 2 * v
  BY <1>3, Parities
<1>5. 2 * (f * v) = 2 * x /\ f * v \in Nat
  <2>1. f * c = c * f /\ (2 * v) * f = 2 * (v * f) /\ v * f = f * v /\ f * v \in Nat
    BY Products
  <2>2. QED BY <1>1, <1>4, <2>1
<1>6. f * v = x
  BY <1>5
<1>7. QED BY <1>6, Zenon DEF IsFactor

=============================================================================
