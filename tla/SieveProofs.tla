---------------------------- MODULE SieveProofs ----------------------------
(***************************************************************************)
(* Theorems of SieveKernel and of Wheel.  A launch sieves its slab and      *)
(* loses no write: IInv says where a thread is, what the barriers keep      *)
(* apart, what is in a stage at each point of a phase, and what the bytes   *)
(* that were flushed have left.  And the reciprocal of 30 and the           *)
(* Montgomery steps of the readers are exact for every word.                *)
(***************************************************************************)
EXTENDS Oracles, ListLemmas

-----------------------------------------------------------------------------
(* Geometry *)

LEMMA DivExact ==
  ASSUME NEW a \in Nat, a > 0, NEW q \in Int
  PROVE  (a * q) \div a = q
<1>1. a * q \in Int /\ a * q <= a * q /\ a * q < a * q + a
  OBVIOUS
<1>2. QED BY <1>1, DivUnique

LEMMA Divides ==
  ASSUME NEW x \in Nat, NEW a \in Nat, a > 0, x % a = 0
  PROVE  x = a * (x \div a) /\ x \div a \in Int
<1>1. x = a * (x \div a) + (x % a) /\ x \div a \in Int
  OBVIOUS
<1>2. a * (x \div a) \in Int
  BY <1>1
<1>3. QED BY <1>1, <1>2

LEMMA FactorPositive ==
  ASSUME NEW a \in Nat, a > 0, NEW q \in Int
  PROVE  /\ a * q > 0 => q > 0
         /\ a * q >= 0 => q >= 0
         /\ q >= 0 => a * q >= 0
         /\ q > 0 => a * q > 0
  OBVIOUS

LEMMA Spread ==
  ASSUME NEW a \in Int, NEW x \in Int, NEW y \in Int
  PROVE  /\ a * (x + y) = a * x + a * y /\ a * (x - y) = a * x - a * y
         /\ (x + y) * a = x * a + y * a /\ (x - y) * a = x * a - y * a
         /\ a * x \in Int /\ a * y \in Int /\ a * x = x * a
         /\ (a * x) * y = a * (x * y)
  OBVIOUS

\* A stage is whole words, a block whole stages, a slice its share of one.
LEMMA Geometry ==
  /\ BlockSpan \in Nat /\ BlockSpan > 0 /\ StageBytes \in Nat /\ StageBytes > 0
  /\ StageWords \in Nat /\ StageWords > 0 /\ StageBytes = 4 * StageWords
  /\ Stages \in Nat /\ Stages > 0 /\ BlockSpan = Stages * StageBytes
  /\ ThreadsPerBlock \in Nat /\ ThreadsPerBlock > 0
  /\ SliceBytes \in Nat /\ SliceBytes > 0 /\ StageBytes = ThreadsPerBlock * SliceBytes
  /\ BlocksPerSubBlock \in Nat /\ BlocksPerSubBlock > 0
<1> DEFINE D == BlockSpan
           T == ThreadsPerBlock
<1>1. /\ Stages \in Nat /\ Stages > 0 /\ T \in Nat /\ T > 0
      /\ BlocksPerSubBlock \in Nat /\ BlocksPerSubBlock > 0
      /\ BytesPerThread \in Nat /\ BytesPerThread > 0
  BY GeometryAssumption
<1>2. D \in Nat /\ D > 0
  BY <1>1 DEF BlockSpan
<1>3. D % (4 * Stages) = 0 /\ D % (Stages * T) = 0
  BY GeometryAssumption DEF BlockSpan
<1> HIDE DEF D, T
<1>4. PICK q \in Int : D = (4 * Stages) * q
  <2>1. 4 * Stages \in Nat /\ 4 * Stages > 0
    BY <1>1
  <2>2. QED BY <1>2, <1>3, <2>1, Divides
<1>5. PICK r \in Int : D = (Stages * T) * r
  <2>1. Stages * T \in Nat /\ Stages * T > 0
    BY <1>1, FactorPositive
  <2>2. QED BY <1>2, <1>3, <2>1, Divides
<1>6. D = Stages * (4 * q) /\ 4 * q \in Int
  BY <1>1, <1>4
<1>7. D = Stages * (T * r) /\ T * r \in Int
  BY <1>1, <1>5, Spread
<1>8. StageBytes = 4 * q
  BY <1>1, <1>6, DivExact DEF StageBytes, D
<1>9. StageBytes = T * r
  BY <1>1, <1>7, DivExact DEF StageBytes, D
<1>10. 4 * q > 0
  BY <1>1, <1>2, <1>6, FactorPositive
<1>11. q \in Nat /\ q > 0
  BY <1>10
<1>12. r \in Nat /\ r > 0
  BY <1>1, <1>7, <1>8, <1>9, <1>10, FactorPositive
<1>13. StageWords = q
  BY <1>8 DEF StageWords
<1>14. SliceBytes = r
  BY <1>1, <1>9, DivExact DEF SliceBytes, T
<1>15. QED
  BY <1>1, <1>2, <1>6, <1>8, <1>9, <1>10, <1>11, <1>12, <1>13, <1>14 DEF D, T

\* The blocks follow one another without a gap, sub-blocks or not.
LEMMA BaseIs ==
  ASSUME NEW b \in Nat
  PROVE  BlockBase(b) = BlockSpan * b
<1> DEFINE S == BlocksPerSubBlock
           q == b \div S
           r == b % S
           D == BlockSpan
<1>1. S \in Nat /\ S > 0 /\ D \in Nat
  BY Geometry
<1>2. q \in Int /\ r \in Int /\ b = S * q + r
  BY <1>1
<1>3. BlockBase(b) = q * (D * S) + r * D
  BY DEF BlockBase, SubBlockSize
<1> HIDE DEF S, q, r, D
<1>4. q * (D * S) + r * D = D * (S * q + r)
  <2>1. D * (S * q + r) = D * (S * q) + D * r
    BY <1>1, <1>2, Spread
  <2>2. q * (D * S) = D * (S * q)
    <3>1. q * (D * S) = (D * S) * q
      BY <1>1, <1>2
    <3>2. (D * S) * q = D * (S * q)
      BY <1>1, <1>2, Spread
    <3>3. QED BY <3>1, <3>2
  <2>3. r * D = D * r
    BY <1>1, <1>2
  <2>4. QED BY <2>1, <2>2, <2>3
<1>5. QED BY <1>2, <1>3, <1>4 DEF D

LEMMA SlabFacts ==
  ASSUME NEW s \in Slabs
  PROVE  /\ s.lo \in Nat /\ s.hi \in Nat /\ s.lo % 30 = 0 /\ s.lo < s.hi /\ s.hi <= Span
         /\ BufMin(s) \in Nat /\ BufMin(s) > 0 /\ Span \in Nat
         /\ s.hi <= s.lo + 30 * BufMin(s) /\ s.lo + 30 * BufMin(s) < s.hi + 30
         /\ NumBlocks(s) \in Nat
<1>1. s.lo \in Nat /\ s.hi \in Nat /\ s.lo % 30 = 0 /\ s.lo < s.hi /\ s.hi <= Span /\ Span \in Nat
  BY SlabsAssumption
<1>2. /\ BufMin(s) \in Nat /\ BufMin(s) > 0
      /\ s.hi <= s.lo + 30 * BufMin(s) /\ s.lo + 30 * BufMin(s) < s.hi + 30
  BY <1>1 DEF BufMin
<1>3. NumBlocks(s) \in Nat
  <2> DEFINE S == SubBlockSize
             B == BufMin(s)
             q == (B + S - 1) \div S
  <2>1. S \in Nat /\ S > 0
    BY Geometry, FactorPositive DEF SubBlockSize
  <2> HIDE DEF S
  <2>2. B \in Nat /\ B + S - 1 \in Nat
    BY <1>2, <2>1
  <2> HIDE DEF B
  <2>3. q \in Int /\ S * q <= B + S - 1 /\ B + S - 1 < S * q + S
    BY <2>1, <2>2, DivBounds
  <2> HIDE DEF q
  <2>4. q >= 0
    <3> DEFINE p == q + 1
    <3>1. S * p > 0
      <4>1. S * p = S * q + S /\ S * q \in Int
        BY <2>1, <2>3
      <4>2. QED BY <2>1, <2>2, <2>3, <4>1
    <3>2. p > 0
      BY <2>1, <2>3, <3>1, FactorPositive
    <3>3. QED BY <2>3, <3>2
  <2>5. q \in Nat
    BY <2>3, <2>4
  <2>6. q * BlocksPerSubBlock \in Nat
    BY <2>5, Geometry
  <2>7. QED BY <2>6 DEF NumBlocks, S, q, B
<1>4. QED BY <1>1, <1>2, <1>3

\* A launch has a block for every byte of the slab.
LEMMA BlocksCover ==
  ASSUME NEW s \in Slabs, NEW b \in Nat, BlockSpan * b < BufMin(s)
  PROVE  b < NumBlocks(s)
<1> DEFINE D == BlockSpan
           P == BlocksPerSubBlock
           S == SubBlockSize
           B == BufMin(s)
           q == (B + S - 1) \div S
           n == q * P
<1>1. D \in Nat /\ D > 0 /\ P \in Nat /\ P > 0 /\ S = D * P /\ S \in Nat /\ S > 0
  BY Geometry, FactorPositive DEF SubBlockSize
<1>2. B \in Nat /\ D * b < B
  BY SlabFacts
<1>3. NumBlocks(s) = n
  BY DEF NumBlocks
<1> HIDE DEF D, P, S, B
<1>4. q \in Int /\ B + S - 1 < S * q + S
  BY <1>1, <1>2, DivBounds
<1> HIDE DEF q
<1>5. S * q \in Int /\ S * q >= B
  BY <1>1, <1>2, <1>4
<1>6. S * q = D * n /\ n \in Int
  <2>1. S * q = (D * P) * q
    BY <1>1
  <2>2. (D * P) * q = D * (P * q) /\ P * q = q * P
    BY <1>1, <1>4, Spread
  <2>3. q * P \in Int
    BY <1>1, <1>4
  <2>4. QED BY <2>1, <2>2, <2>3
<1> HIDE DEF n
<1>7. D * (n - b) > 0
  <2>1. D * (n - b) = D * n - D * b /\ D * n \in Int /\ D * b \in Int
    BY <1>1, <1>6, Spread
  <2>2. QED BY <1>2, <1>5, <1>6, <2>1
<1>8. n - b > 0
  BY <1>1, <1>6, <1>7, FactorPositive
<1>9. QED BY <1>3, <1>6, <1>8

\* Where a thread is: the stage of its block and phase among all of the slab,
\* which starts StageBytes times it into the slab.
Region(t) == Stages * Block(t) + ph[t]
Typed ==
  /\ slab \in Slabs /\ aligned \in BOOLEAN
  /\ pc \in [Threads -> {"start", "phase", "zeroed", "cut", "large", "marked",
                         "flush", "flushed", "exit"}]
  /\ ph \in [Threads -> Nat] /\ next \in [Threads -> Nat]
  /\ DOMAIN stage = Blocks

LEMMA ThreadFacts ==
  ASSUME NEW t \in Threads
  PROVE  /\ Block(t) \in Nat /\ Block(t) \in Blocks /\ Lane(t) \in 0 .. ThreadsPerBlock - 1
         /\ t = <<Block(t), Lane(t)>>
<1>1. PICK b \in Blocks, l \in 0 .. ThreadsPerBlock - 1 : t = <<b, l>>
  BY DEF Threads
<1>2. PICK s \in Slabs : b \in 0 .. NumBlocks(s) - 1
  BY DEF Blocks
<1>3. b \in Nat
  BY <1>2, SlabFacts
<1>4. QED BY <1>1, <1>3 DEF Block, Lane

\* Two bytes at the same place are in the same stage of the same block.
LEMMA SamePlace ==
  ASSUME NEW m \in Nat, m > 0, NEW x \in Nat, NEW y \in Nat,
         NEW k \in 0 .. m - 1, NEW j \in 0 .. m - 1, m * x + k = m * y + j
  PROVE  x = y /\ k = j
<1>1. m * x \in Int /\ m * y \in Int
  OBVIOUS
<1> DEFINE v == m * x + k
<1>2. v \in Int /\ m * x <= v /\ v < m * x + m /\ m * y <= v /\ v < m * y + m
  BY <1>1
<1> HIDE DEF v
<1>3. v \div m = x
  BY <1>2, DivUnique
<1>4. v \div m = y
  BY <1>2, DivUnique
<1>5. x = y
  BY <1>3, <1>4
<1>6. QED BY <1>1, <1>5

LEMMA RegionFacts ==
  ASSUME Typed, NEW t \in Threads
  PROVE  /\ Region(t) \in Nat /\ ph[t] \in Nat
         /\ BlockBase(Block(t)) \in Nat /\ BlockBase(Block(t)) = BlockSpan * Block(t)
         /\ BlockBase(Block(t)) + ph[t] * StageBytes = StageBytes * Region(t)
         /\ BlockBase(Block(t)) + BlockSpan = StageBytes * (Stages * (Block(t) + 1))
<1> DEFINE b == Block(t)
           k == ph[t]
           n == Stages
           B == StageBytes
<1>1. b \in Nat /\ k \in Nat /\ n \in Nat /\ B \in Nat /\ BlockSpan = n * B
  BY ThreadFacts, Geometry DEF Typed
<1>2. BlockBase(Block(t)) = BlockSpan * b
  BY <1>1, BaseIs
<1>3. Region(t) = n * b + k
  BY DEF Region
<1> HIDE DEF b, k, n, B
<1>4. n * b \in Nat /\ (n * B) * b = B * (n * b) /\ B * (n * b) \in Nat
  <2>1. n * b \in Nat
    BY <1>1
  <2>2. (n * B) * b = B * (n * b)
    <3>1. n * B = B * n
      BY <1>1
    <3>2. QED BY <1>1, <3>1, Spread
  <2>3. QED BY <1>1, <2>1, <2>2
<1>5. B * (n * b + k) = B * (n * b) + B * k /\ B * k = k * B
  BY <1>1, <1>4, Spread
<1>6. B * (n * (b + 1)) = B * (n * b) + n * B
  <2>1. n * (b + 1) = n * b + n
    BY <1>1, Spread
  <2>2. B * (n * b + n) = B * (n * b) + B * n /\ B * n = n * B
    BY <1>1, <1>4, Spread
  <2>3. QED BY <2>1, <2>2
<1>7. QED BY <1>1, <1>2, <1>3, <1>4, <1>5, <1>6 DEF b, k, n, B

LEMMA RegionUnique ==
  ASSUME Typed, NEW t \in Threads, NEW u \in Threads, ph[t] < Stages, ph[u] < Stages,
         Region(t) = Region(u)
  PROVE  Block(t) = Block(u) /\ ph[t] = ph[u]
<1>1. /\ Block(t) \in Nat /\ Block(u) \in Nat /\ Stages \in Nat /\ Stages > 0
      /\ ph[t] \in 0 .. Stages - 1 /\ ph[u] \in 0 .. Stages - 1
  BY ThreadFacts, Geometry DEF Typed
<1>2. Stages * Block(t) + ph[t] = Stages * Block(u) + ph[u]
  BY DEF Region
<1>3. QED BY <1>1, <1>2, SamePlace

LEMMA GlobalWordIs ==
  ASSUME Typed, NEW t \in Threads
  PROVE  GlobalWord(t) = StageWords * Region(t) + next[t]
<1> DEFINE r == Region(t)
           w == StageWords
<1>1. /\ r \in Nat /\ w \in Nat /\ StageBytes = 4 * w
      /\ BlockBase(Block(t)) + ph[t] * StageBytes = StageBytes * r
  BY RegionFacts, Geometry
<1>2. GlobalWord(t) = (StageBytes * r) \div 4 + next[t]
  BY <1>1 DEF GlobalWord
<1> HIDE DEF r, w
<1>3. StageBytes * r = 4 * (w * r) /\ w * r \in Int
  BY <1>1
<1>4. (4 * (w * r)) \div 4 = w * r
  BY <1>3, DivExact
<1>5. QED BY <1>2, <1>3, <1>4 DEF r, w

-----------------------------------------------------------------------------
(* Primes and their multiples *)

Composite(v) == \E d \in Nat, q \in Nat : d >= 2 /\ q >= 2 /\ v = d * q

LEMMA PrimesAre ==
  ASSUME NEW v \in Nat, Span \in Nat
  PROVE  v \in Primes <=> v \in 2 .. Span /\ ~Composite(v)
<1>1. ASSUME v \in Primes PROVE ~Composite(v)
  <2>1. SUFFICES ASSUME NEW d \in Nat, NEW q \in Nat, d >= 2, q >= 2, v = d * q, d <= q
                 PROVE  FALSE
    <3>1. \A d \in Nat, q \in Nat : d * q = q * d
      OBVIOUS
    <3>2. \A d \in Nat, q \in Nat : d <= q \/ q <= d
      OBVIOUS
    <3>3. QED BY <3>1, <3>2 DEF Composite
  <2>2. v <= Span
    BY <1>1 DEF Primes
  <2>3. d * d <= d * q
    <3>1. q - d >= 0 /\ q - d \in Int /\ d > 0
      BY <2>1
    <3>2. d * (q - d) >= 0
      BY <3>1, FactorPositive
    <3>3. d * (q - d) = d * q - d * d /\ d * q \in Int /\ d * d \in Int
      BY Spread
    <3>4. QED BY <3>2, <3>3
  <2>4. d * d \in Int /\ d <= d * d /\ d * d <= Span
    <3>1. d * (d - 1) >= 0
      BY <2>1, FactorPositive
    <3>2. d * (d - 1) = d * d - d /\ d * d \in Int
      OBVIOUS
    <3>3. QED BY <2>1, <2>2, <2>3, <3>1, <3>2
  <2>5. d \in {e \in 2 .. Span : e * e <= Span}
    BY <2>1, <2>4
  <2>6. q <= Span \div d
    <3> DEFINE r == Span \div d
    <3>1. r \in Int /\ Span < d * r + d
      BY <2>1, DivBounds
    <3> HIDE DEF r
    <3>2. d * (r + 1 - q) > 0
      <4>1. d * (r + 1 - q) = d * r + d - d * q /\ d * r \in Int /\ d * q \in Int
        BY <3>1
      <4>2. QED BY <2>1, <2>2, <3>1, <4>1
    <3>3. r + 1 - q > 0
      <4>1. r + 1 - q \in Int /\ d > 0
        BY <2>1, <3>1
      <4>2. QED BY <3>2, <4>1, FactorPositive
    <3>4. r >= q
      BY <3>1, <3>3
    <3>5. QED BY <3>4 DEF r
  <2>7. Span \div d \in Int
    BY <2>1
  <2>8. q \in 2 .. Span \div d
    BY <2>1, <2>6, <2>7
  <2>9. v \in {d * r : r \in 2 .. Span \div d}
    BY <2>1, <2>8
  <2>10. v \in UNION {{p * r : r \in 2 .. Span \div p} : p \in {e \in 2 .. Span : e * e <= Span}}
    BY <2>5, <2>9
  <2>11. QED BY <1>1, <2>10 DEF Primes
<1>2. ASSUME v \in 2 .. Span, v \notin Primes PROVE Composite(v)
  <2>1. PICK p \in {e \in 2 .. Span : e * e <= Span} : v \in {p * q : q \in 2 .. Span \div p}
    BY <1>2 DEF Primes
  <2>2. PICK q \in 2 .. Span \div p : v = p * q
    BY <2>1
  <2>3. p \in Nat /\ p >= 2
    OBVIOUS
  <2>4. Span \div p \in Int
    BY <2>3
  <2>5. q \in Nat /\ q >= 2
    BY <2>4
  <2>6. QED BY <2>2, <2>3, <2>5 DEF Composite
<1>3. v \in Primes => v \in 2 .. Span
  BY DEF Primes
<1>4. QED BY <1>1, <1>2, <1>3

\* What a marking prime strikes: its multiples from its square on.
Strikes(p, v) == p * p <= v /\ \E q \in Nat : v = p * q

LEMMA MarkingPrime ==
  ASSUME NEW p \in PrimeSet, Span \in Nat
  PROVE  /\ p \in Nat /\ p > 5 /\ p * p \in Nat /\ p * p <= Span - 1 /\ ~Composite(p)
<1>1. p \in Nat /\ p \in Primes /\ p > 5 /\ p * p <= Span - 1
  BY DEF PrimeSet, Primes
<1>2. QED BY <1>1, PrimesAre

LEMMA StruckIsNoPrime ==
  ASSUME NEW p \in PrimeSet, Span \in Nat, NEW v \in Nat, Strikes(p, v)
  PROVE  v \notin Primes
<1>1. p \in Nat /\ p > 5
  BY MarkingPrime
<1>2. PICK q \in Nat : v = p * q /\ p * p <= v
  BY DEF Strikes
<1>3. q >= p
  <2>1. p * (q - p + 1) > 0
    <3>1. p * (q - p + 1) = p * q - p * p + p /\ p * q \in Int /\ p * p \in Int
      BY <1>1
    <3>2. QED BY <1>1, <1>2, <3>1
  <2>2. q - p + 1 > 0
    <3>1. q - p + 1 \in Int /\ p > 0
      BY <1>1
    <3>2. QED BY <1>1, <2>1, <3>1, FactorPositive
  <2>3. QED BY <1>1, <2>2
<1>4. q >= 2 /\ p >= 2
  BY <1>1, <1>3
<1>5. Composite(v)
  BY <1>1, <1>2, <1>4 DEF Composite
<1>6. QED BY <1>5, PrimesAre

\* Every composite number the map has a bit for is struck by a marking prime.
LEMMA CompositeIsStruck ==
  ASSUME Span \in Nat, NEW v \in Nat, v >= 2, v < Span, v % 30 \in Residues, v \notin Primes
  PROVE  \E p \in PrimeSet : Strikes(p, v)
<1> DEFINE S == {d \in Nat : d >= 2 /\ \E q \in Nat : v = d * q}
<1>1. Composite(v)
  BY PrimesAre
<1>2. PICK p \in S : \A d \in S : p <= d
  <2>1. S \in SUBSET Nat
    OBVIOUS
  <2>2. S # {}
    BY <1>1 DEF Composite
  <2> HIDE DEF S
  <2>3. QED BY <2>1, <2>2, LeastElement
<1>3. PICK q \in Nat : v = p * q
  OBVIOUS
<1>4. p \in Nat /\ p >= 2
  OBVIOUS
<1>5. ~Composite(p)
  <2>1. SUFFICES ASSUME NEW d \in Nat, NEW e \in Nat, d >= 2, e >= 2, p = d * e PROVE FALSE
    BY DEF Composite
  <2>2. v = d * (e * q) /\ e * q \in Nat
    <3>1. v = (d * e) * q
      BY <1>3, <2>1
    <3>2. (d * e) * q = d * (e * q)
      BY Spread
    <3>3. QED BY <3>1, <3>2
  <2>3. d \in S
    BY <2>1, <2>2
  <2>4. d < d * e
    <3>1. d * (e - 1) > 0
      <4>1. e - 1 \in Int /\ e - 1 > 0 /\ d > 0
        BY <2>1
      <4>2. QED BY <4>1, FactorPositive
    <3>2. d * (e - 1) = d * e - d /\ d * e \in Int
      OBVIOUS
    <3>3. QED BY <3>1, <3>2
  <2>5. p <= d
    BY <1>2, <2>3
  <2> HIDE DEF S
  <2>6. QED BY <1>4, <2>1, <2>4, <2>5
<1>6. q >= 2
  <2>1. q # 0
    BY <1>3, <1>4
  <2>2. q # 1
    <3>1. q = 1 => v = p
      BY <1>3, <1>4
    <3>2. QED BY <1>1, <1>5, <3>1
  <2>3. QED BY <2>1, <2>2
<1>7. q \in S
  <2>1. v = q * p
    BY <1>3, <1>4
  <2>2. QED BY <1>4, <1>6, <2>1
<1> HIDE DEF S
<1>8. p <= q
  BY <1>2, <1>7
<1>9. p * p <= v /\ p <= v
  <2>1. p * (q - p) >= 0 /\ p * (q - 1) >= 0
    <3>1. q - p \in Int /\ q - p >= 0 /\ q - 1 \in Int /\ q - 1 >= 0 /\ p > 0
      BY <1>4, <1>6, <1>8
    <3>2. QED BY <1>4, <3>1, FactorPositive
  <2>2. p * (q - p) = p * q - p * p /\ p * (q - 1) = p * q - p /\ p * q \in Int /\ p * p \in Int
    BY <1>4
  <2>3. QED BY <1>3, <1>4, <2>1, <2>2
<1>10. p > 5
  <2>1. p # 2 /\ p # 3 /\ p # 5
    <3>1. v % 30 \notin {0, 2, 4, 6, 8, 10, 12, 14, 16, 18, 20, 22, 24, 26, 28,
                         3, 9, 15, 21, 27, 5, 25}
      BY DEF Residues
    <3>2. p = 2 => v % 30 \in {0, 2, 4, 6, 8, 10, 12, 14, 16, 18, 20, 22, 24, 26, 28}
      BY <1>3
    <3>3. p = 3 => v % 30 \in {0, 3, 6, 9, 12, 15, 18, 21, 24, 27}
      BY <1>3
    <3>4. p = 5 => v % 30 \in {0, 5, 10, 15, 20, 25}
      BY <1>3
    <3>5. QED BY <3>1, <3>2, <3>3, <3>4
  <2>2. p # 4
    <3>1. 4 = 2 * 2
      OBVIOUS
    <3>2. QED BY <1>5, <3>1 DEF Composite
  <2>3. QED BY <1>4, <2>1, <2>2
<1>11. p \in 2 .. Span /\ p * p <= Span - 1
  <2>1. p * p \in Int
    BY <1>4
  <2>2. QED BY <1>4, <1>9, <2>1
<1>12. p \in Primes
  BY <1>4, <1>5, <1>11, PrimesAre
<1>13. p \in PrimeSet
  BY <1>10, <1>11, <1>12 DEF PrimeSet
<1>14. QED BY <1>3, <1>9, <1>13 DEF Strikes

\* Modulo 30 every marking prime has an inverse.
LEMMA InverseIs ==
  ASSUME NEW p \in PrimeSet, Span \in Nat
  PROVE  Inverse30(p) \in Residues /\ (p * Inverse30(p)) % 30 = 1
<1> DEFINE r == p % 30
           m == p \div 30
<1>1. p \in Nat /\ p > 5 /\ ~Composite(p)
  BY MarkingPrime
<1>2. r \in 0 .. 29 /\ m \in Nat /\ p = 30 * m + r
  BY <1>1
<1> HIDE DEF r, m
<1>3. r \in Residues
  <2>1. ASSUME NEW d \in {2, 3, 5}, NEW e \in Nat, r = d * e PROVE FALSE
    <3>1. PICK k \in Nat : p = d * k
      <4>1. CASE d = 2
        <5>1. p = 2 * (15 * m + e) /\ 15 * m + e \in Nat
          BY <1>2, <2>1, <4>1
        <5>2. QED BY <4>1, <5>1
      <4>2. CASE d = 3
        <5>1. p = 3 * (10 * m + e) /\ 10 * m + e \in Nat
          BY <1>2, <2>1, <4>2
        <5>2. QED BY <4>2, <5>1
      <4>3. CASE d = 5
        <5>1. p = 5 * (6 * m + e) /\ 6 * m + e \in Nat
          BY <1>2, <2>1, <4>3
        <5>2. QED BY <4>3, <5>1
      <4>4. QED BY <4>1, <4>2, <4>3
    <3>2. k >= 2
      BY <1>1, <3>1
    <3>3. QED BY <1>1, <3>1, <3>2 DEF Composite
  <2>2. ASSUME r \notin Residues PROVE FALSE
    <3>1. r \in {0, 2, 4, 6, 8, 10, 12, 14, 16, 18, 20, 22, 24, 26, 28} \union {3, 9, 15, 21, 27}
                \union {5, 25}
      BY <1>2, <2>2 DEF Residues
    <3>2. CASE r \in {0, 2, 4, 6, 8, 10, 12, 14, 16, 18, 20, 22, 24, 26, 28}
      <4>1. r = 2 * (r \div 2) /\ r \div 2 \in Nat
        BY <3>2
      <4>2. QED BY <2>1, <4>1
    <3>3. CASE r \in {3, 9, 15, 21, 27}
      <4>1. r = 3 * (r \div 3) /\ r \div 3 \in Nat
        BY <3>3
      <4>2. QED BY <2>1, <4>1
    <3>4. CASE r \in {5, 25}
      <4>1. r = 5 * (r \div 5) /\ r \div 5 \in Nat
        BY <3>4
      <4>2. QED BY <2>1, <4>1
    <3>5. QED BY <3>1, <3>2, <3>3, <3>4
  <2>3. QED BY <2>2
<1>4. \E u \in Residues : (p * u) % 30 = 1
  <2>1. ASSUME NEW u \in Residues, NEW c \in Nat, r * u = 30 * c + 1
        PROVE  (p * u) % 30 = 1
    <3>1. u \in Nat
      BY DEF Residues
    <3>2. p * u = 30 * (m * u + c) + 1 /\ m * u + c \in Nat
      <4>1. p * u = 30 * (m * u) + r * u /\ m * u \in Nat
        BY <1>2, <3>1
      <4>2. QED BY <2>1, <4>1
    <3> DEFINE k == m * u + c
    <3> HIDE DEF k
    <3>3. p * u = 30 * k + 1 /\ k \in Nat
      BY <3>2 DEF k
    <3>4. (30 * k + 1) % 30 = 1
      BY <3>3
    <3>5. QED BY <3>3, <3>4
  <2>2. /\ r = 1 => r * 1 = 30 * 0 + 1
        /\ r = 7 => r * 13 = 30 * 3 + 1
        /\ r = 11 => r * 11 = 30 * 4 + 1
        /\ r = 13 => r * 7 = 30 * 3 + 1
        /\ r = 17 => r * 23 = 30 * 13 + 1
        /\ r = 19 => r * 19 = 30 * 12 + 1
        /\ r = 23 => r * 17 = 30 * 13 + 1
        /\ r = 29 => r * 29 = 30 * 28 + 1
    OBVIOUS
  <2>3. QED BY <1>3, <2>1, <2>2 DEF Residues
<1>5. QED BY <1>4 DEF Inverse30

\* The members of a residue class among the multiples of p are those of one of
\* them, modulo 30 * p.
Class(p, r) == p * ((Inverse30(p) * r) % 30)

LEMMA ClassIs ==
  ASSUME NEW p \in PrimeSet, Span \in Nat, NEW r \in Residues
  PROVE  /\ Class(p, r) \in Nat
         /\ \A e \in Nat : /\ Class(p, r) + (30 * p) * e \in Nat
                           /\ (Class(p, r) + (30 * p) * e) % 30 = r
                           /\ \E q \in Nat : Class(p, r) + (30 * p) * e = p * q
         /\ \A v \in Nat : v % 30 = r /\ (\E q \in Nat : v = p * q) =>
              \E e \in Nat : v = Class(p, r) + (30 * p) * e
<1> DEFINE u == Inverse30(p)
           c == (u * r) % 30
           j == (u * r) \div 30
           m == (p * u) \div 30
<1>1. p \in Nat /\ p > 0
  BY MarkingPrime
<1>2. u \in Nat /\ r \in Nat /\ r < 30 /\ (p * u) % 30 = 1
  BY InverseIs DEF Residues
<1> HIDE DEF u
<1>3. c \in 0 .. 29 /\ j \in Int /\ u * r = 30 * j + c
  <2>1. u * r \in Nat
    BY <1>2
  <2>2. QED BY <2>1
<1>4. m \in Int /\ p * u = 30 * m + 1
  <2>1. p * u \in Nat
    BY <1>1, <1>2
  <2>2. QED BY <1>2, <2>1
<1>5. Class(p, r) = p * c
  BY DEF Class, c, u
<1> HIDE DEF c, j, m
<1>6. p * c = 30 * (m * r - p * j) + r /\ m * r - p * j \in Int
  <2>1. p * c = p * (u * r) - p * (30 * j)
    <3>1. c = u * r - 30 * j /\ u * r \in Int /\ 30 * j \in Int
      BY <1>2, <1>3
    <3>2. QED BY <1>1, <3>1, Spread
  <2>2. p * (u * r) = 30 * (m * r) + r
    <3>1. p * (u * r) = (p * u) * r
      BY <1>1, <1>2, Spread
    <3>2. (30 * m + 1) * r = 30 * (m * r) + r
      BY <1>2, <1>4
    <3>3. QED BY <1>4, <3>1, <3>2
  <2>3. p * (30 * j) = 30 * (p * j)
    BY <1>1, <1>3
  <2>4. m * r \in Int /\ p * j \in Int
    BY <1>1, <1>2, <1>3, <1>4
  <2> DEFINE mr == m * r
             pj == p * j
             pur == p * (u * r)
             pj30 == p * (30 * j)
  <2>5. mr \in Int /\ pj \in Int /\ p * c = 30 * mr + r - 30 * pj
    <3>1. mr \in Int /\ pj \in Int /\ p * c = pur - pj30
      BY <2>1, <2>4
    <3>2. pur = 30 * mr + r /\ pj30 = 30 * pj
      BY <2>2, <2>3
    <3> HIDE DEF mr, pj, pur, pj30
    <3>3. QED BY <1>2, <3>1, <3>2
  <2> HIDE DEF mr, pj
  <2>6. p * c = 30 * (mr - pj) + r /\ mr - pj \in Int
    BY <1>2, <2>5
  <2>7. QED BY <2>6 DEF mr, pj
<1> DEFINE a == m * r - p * j
<1>7. Class(p, r) = 30 * a + r /\ a \in Int /\ Class(p, r) = p * c /\ p * c \in Nat
  <2>1. p * c \in Nat
    BY <1>1, <1>3
  <2>2. QED BY <1>5, <1>6, <2>1
<1> HIDE DEF a
<1>8. ASSUME NEW e \in Nat
      PROVE  /\ Class(p, r) + (30 * p) * e \in Nat
             /\ (Class(p, r) + (30 * p) * e) % 30 = r
             /\ \E q \in Nat : Class(p, r) + (30 * p) * e = p * q
  <2> DEFINE b == a + p * e
  <2>1. (30 * p) * e = 30 * (p * e) /\ p * e \in Nat
    BY <1>1
  <2>2. Class(p, r) + (30 * p) * e = 30 * b + r /\ b \in Int
    BY <1>2, <1>7, <2>1
  <2>3. Class(p, r) + (30 * p) * e \in Nat
    BY <1>7, <2>1
  <2> HIDE DEF b
  <2>4. (30 * b + r) % 30 = r
    BY <1>2, <2>2
  <2>5. Class(p, r) + (30 * p) * e = p * (c + 30 * e) /\ c + 30 * e \in Nat
    <3>1. p * (c + 30 * e) = p * c + p * (30 * e) /\ p * (30 * e) = 30 * (p * e)
      BY <1>1, <1>3
    <3>2. c + 30 * e \in Nat
      BY <1>3
    <3>3. QED BY <1>7, <2>1, <3>1, <3>2
  <2>6. QED BY <2>2, <2>3, <2>4, <2>5
<1>9. ASSUME NEW v \in Nat, v % 30 = r, NEW q \in Nat, v = p * q
      PROVE  \E e \in Nat : v = Class(p, r) + (30 * p) * e
  <2> DEFINE w == v \div 30
             x == q - c
             k == w - a
             e == u * k - m * x
  <2>1. w \in Int /\ v = 30 * w + r
    BY <1>9
  <2> HIDE DEF w
  <2>2. x \in Int /\ k \in Int
    BY <1>3, <1>7, <2>1
  <2>3. p * x = 30 * k
    <3>1. p * x = p * q - p * c
      BY <1>1, <1>3, Spread
    <3>2. QED BY <1>2, <1>7, <1>9, <2>1, <3>1
  <2>4. x = 30 * e /\ e \in Int
    <3> HIDE DEF x, k
    <3>1. (p * u) * x = 30 * (u * k)
      <4>1. (p * u) * x = u * (p * x)
        BY <1>1, <1>2, <2>2
      <4>2. u * (30 * k) = 30 * (u * k)
        BY <1>2, <2>2
      <4>3. QED BY <2>3, <4>1, <4>2
    <3>2. (30 * m + 1) * x = 30 * (m * x) + x
      BY <1>4, <2>2
    <3>3. u * k \in Int /\ m * x \in Int
      BY <1>2, <1>4, <2>2
    <3> DEFINE uk == u * k
               mx == m * x
    <3>4. uk \in Int /\ mx \in Int /\ 30 * uk = 30 * mx + x
      BY <1>4, <3>1, <3>2, <3>3
    <3> HIDE DEF uk, mx
    <3>5. x = 30 * (uk - mx) /\ uk - mx \in Int
      BY <2>2, <3>4
    <3>6. QED BY <3>5 DEF uk, mx
  <2> HIDE DEF e
  <2>5. e >= 0
    BY <1>3, <2>4
  <2>6. v = Class(p, r) + (30 * p) * e
    <3>1. q = c + 30 * e
      BY <1>3, <2>4
    <3>2. p * (c + 30 * e) = p * c + p * (30 * e) /\ p * (30 * e) = (30 * p) * e
      BY <1>1, <1>3, <2>4
    <3>3. QED BY <1>7, <1>9, <3>1, <3>2
  <2>7. QED BY <2>4, <2>5, <2>6
<1>10. QED BY <1>7, <1>8, <1>9

\* A walk sets a bit for every multiple of p in its window from p * p on that
\* the layout has a bit for, and no other.
Walked(p, lo, hi) == {v \in lo .. hi - 1 : v % 30 \in Residues /\ Strikes(p, v)}
BitOf(v, base) == <<(v - base) \div 30, v % 30>>

LEMMA MarksAre ==
  ASSUME NEW p \in PrimeSet, Span \in Nat, NEW base \in Nat, NEW lo \in Nat, NEW hi \in Nat
  PROVE  Marks(p, base, lo, hi) = {BitOf(v, base) : v \in Walked(p, lo, hi)}
<1> DEFINE P == 30 * p
           from == IF lo > p * p THEN lo ELSE p * p
           shift(r) == IF from > Class(p, r) THEN (from - Class(p, r) + P - 1) \div P ELSE 0
           start(r) == IF from > Class(p, r)
                       THEN Class(p, r) + P * ((from - Class(p, r) + P - 1) \div P)
                       ELSE Class(p, r)
           steps == 0 .. (hi - lo) \div P
           value(r, i) == start(r) + P * i
<1>1. p \in Nat /\ p > 0 /\ p * p \in Nat /\ P \in Nat /\ P > 0
  BY MarkingPrime
<1>2. from \in Nat /\ from >= lo /\ from >= p * p /\ (from = lo \/ from = p * p)
  BY <1>1
<1>3. Marks(p, base, lo, hi) =
        {<<(value(x[1], x[2]) - base) \div 30, x[1]>> :
           x \in {y \in Residues \X steps : value(y[1], y[2]) < hi}}
  BY DEF Marks, Class
<1> HIDE DEF P, from
<1>4. ASSUME NEW r \in Residues
      PROVE  /\ shift(r) \in Nat /\ start(r) = Class(p, r) + P * shift(r)
             /\ start(r) \in Nat /\ start(r) >= from
             /\ \A e \in Nat : Class(p, r) + P * e >= from => e >= shift(r)
  <2> DEFINE c == Class(p, r)
             x == from - c + P - 1
  <2>1. c \in Nat
    BY ClassIs
  <2> HIDE DEF c
  <2>2. CASE from > c
    <3> DEFINE s == x \div P
    <3>1. x \in Int /\ x >= P
      BY <1>1, <1>2, <2>1, <2>2
    <3>2. s \in Int /\ P * s <= x /\ x < P * s + P
      BY <1>1, <3>1, DivBounds
    <3>3. shift(r) = s /\ start(r) = c + P * s
      BY <2>2 DEF c
    <3> HIDE DEF s, x
    <3>4. s > 0
      <4>1. P * s \in Int /\ P * s > 0
        BY <1>1, <3>1, <3>2
      <4>2. QED BY <1>1, <3>2, <4>1, FactorPositive
    <3>5. P * s \in Int /\ c + P * s >= from
      BY <1>1, <1>2, <2>1, <3>2 DEF x
    <3>6. ASSUME NEW e \in Nat, c + P * e >= from PROVE e >= s
      <4>1. P * (e + 1 - s) > 0
        <5>1. P * (e + 1 - s) = P * e + P - P * s /\ P * e \in Int
          BY <1>1, <3>2
        <5>2. P * s < from - c + P
          BY <1>1, <1>2, <2>1, <3>2, <3>5 DEF x
        <5>3. QED BY <1>1, <1>2, <2>1, <3>5, <3>6, <5>1, <5>2
      <4>2. e + 1 - s \in Int
        BY <3>2
      <4>3. e + 1 - s > 0
        BY <1>1, <4>1, <4>2, FactorPositive
      <4>4. QED BY <3>2, <4>3
    <3>7. s \in Nat /\ c + P * s \in Nat
      BY <2>1, <3>2, <3>4, <3>5, <1>2
    <3> HIDE DEF shift, start
    <3>8. QED BY <3>3, <3>5, <3>6, <3>7 DEF c
  <2>3. CASE ~(from > c)
    <3>1. shift(r) = 0 /\ start(r) = c
      BY <2>3 DEF c
    <3>2. P * 0 = 0
      BY <1>1
    <3>3. c >= from
      BY <1>2, <2>1, <2>3
    <3> HIDE DEF shift, start
    <3>4. QED BY <2>1, <3>1, <3>2, <3>3 DEF c
  <2>4. QED BY <2>2, <2>3
<1> HIDE DEF shift, start
<1>5. ASSUME NEW r \in Residues, NEW i \in steps, value(r, i) < hi
      PROVE  /\ value(r, i) \in Walked(p, lo, hi)
             /\ <<(value(r, i) - base) \div 30, r>> = BitOf(value(r, i), base)
  <2> DEFINE e == shift(r) + i
             v == value(r, i)
  <2>1. i \in Nat /\ e \in Nat /\ shift(r) \in Nat
    <3>1. (hi - lo) \div P \in Int
      BY <1>1
    <3>2. QED BY <1>4, <3>1
  <2>2. v = Class(p, r) + P * e
    <3>1. Class(p, r) \in Nat
      BY ClassIs
    <3>2. P * e = P * shift(r) + P * i /\ P * shift(r) \in Int /\ P * i \in Int
      BY <1>1, <2>1
    <3>3. QED BY <1>4, <3>1, <3>2
  <2>3. v \in Nat /\ v % 30 = r /\ \E q \in Nat : v = p * q
    <3> HIDE DEF e, v
    <3>1. QED BY <2>1, <2>2, ClassIs DEF P
  <2>4. v >= from
    <3>1. start(r) \in Nat /\ start(r) >= from
      BY <1>4
    <3>2. P * i \in Nat
      BY <1>1, <2>1
    <3>3. QED BY <1>2, <3>1, <3>2
  <2>5. v >= lo /\ p * p <= v
    BY <1>1, <1>2, <2>3, <2>4
  <2>6. v \in lo .. hi - 1
    BY <1>5, <2>3, <2>5
  <2> HIDE DEF v
  <2>7. v \in Walked(p, lo, hi) /\ <<(v - base) \div 30, r>> = BitOf(v, base)
    BY <2>3, <2>5, <2>6 DEF Walked, Strikes, BitOf
  <2>8. QED BY <2>7 DEF v
<1>6. ASSUME NEW v \in Walked(p, lo, hi)
      PROVE  \E r \in Residues, i \in steps : v = value(r, i) /\ v < hi /\ v % 30 = r
  <2> DEFINE r == v % 30
  <2>1. v \in Nat /\ lo <= v /\ v < hi /\ r \in Residues /\ p * p <= v /\ \E q \in Nat : v = p * q
    BY DEF Walked, Strikes
  <2>2. PICK e \in Nat : v = Class(p, r) + P * e
    <3> HIDE DEF r
    <3>1. v % 30 = r
      BY DEF r
    <3>2. QED BY <2>1, <3>1, ClassIs DEF P
  <2> HIDE DEF r
  <2>3. e >= shift(r)
    <3>1. v >= from
      BY <1>1, <1>2, <2>1
    <3>2. QED BY <1>4, <2>1, <2>2, <3>1
  <2> DEFINE i == e - shift(r)
  <2>4. i \in Nat /\ shift(r) \in Nat
    BY <1>4, <2>1, <2>3
  <2>5. v = start(r) + P * i
    <3>1. P * i = P * e - P * shift(r) /\ P * e \in Int /\ P * shift(r) \in Int
      BY <1>1, <2>4
    <3>2. Class(p, r) \in Nat /\ start(r) = Class(p, r) + P * shift(r)
      BY <1>4, <2>1, ClassIs
    <3>3. QED BY <2>2, <3>1, <3>2
  <2> HIDE DEF i
  <2>6. i <= (hi - lo) \div P
    <3> DEFINE s == (hi - lo) \div P
    <3>1. s \in Int /\ hi - lo < P * s + P
      BY <1>1, DivBounds
    <3>2. start(r) \in Nat /\ start(r) >= lo
      BY <1>2, <1>4, <2>1
    <3> HIDE DEF s
    <3>3. P * (s + 1 - i) > 0
      <4>1. P * (s + 1 - i) = P * s + P - P * i /\ P * s \in Int /\ P * i \in Int
        BY <1>1, <2>4, <3>1
      <4>2. P * i < hi - lo
        BY <2>1, <2>5, <3>2, <4>1
      <4>3. QED BY <1>1, <3>1, <4>1, <4>2
    <3>4. s + 1 - i \in Int
      BY <2>4, <3>1
    <3>5. s + 1 - i > 0
      BY <1>1, <3>3, <3>4, FactorPositive
    <3>6. i <= s
      BY <2>4, <3>1, <3>5
    <3>7. QED BY <3>6 DEF s
  <2>7. i \in steps
    <3>1. (hi - lo) \div P \in Int
      BY <1>1
    <3>2. QED BY <2>4, <2>6, <3>1
  <2> HIDE DEF steps
  <2>8. QED BY <2>1, <2>5, <2>7 DEF r
<1>7. ASSUME NEW bit \in Marks(p, base, lo, hi)
      PROVE  bit \in {BitOf(v, base) : v \in Walked(p, lo, hi)}
  <2> HIDE DEF steps, value
  <2>1. PICK x \in {y \in Residues \X steps : value(y[1], y[2]) < hi} :
          bit = <<(value(x[1], x[2]) - base) \div 30, x[1]>>
    BY <1>3
  <2>2. x[1] \in Residues /\ x[2] \in steps /\ value(x[1], x[2]) < hi
    BY <2>1
  <2>3. QED BY <1>5, <2>1, <2>2
<1>8. ASSUME NEW v \in Walked(p, lo, hi)
      PROVE  BitOf(v, base) \in Marks(p, base, lo, hi)
  <2> HIDE DEF steps, value
  <2>1. PICK r \in Residues, i \in steps : v = value(r, i) /\ v < hi /\ v % 30 = r
    BY <1>6
  <2>2. <<r, i>> \in {y \in Residues \X steps : value(y[1], y[2]) < hi}
    BY <2>1
  <2>3. BitOf(v, base) = <<(value(r, i) - base) \div 30, r>>
    BY <2>1 DEF BitOf
  <2>4. <<(value(r, i) - base) \div 30, r>> \in Marks(p, base, lo, hi)
    BY <1>3, <2>2
  <2>5. QED BY <2>3, <2>4
<1>9. QED BY <1>7, <1>8

\* The list has every marking prime, in ascending order.
LEMMA ListFacts ==
  ASSUME Span \in Nat
  PROVE  /\ NumList \in Nat /\ SmallCut \in 0 .. NumList
         /\ \A i \in 0 .. NumList - 1 : PrimeList[i] \in PrimeSet
         /\ \A p \in PrimeSet : \E i \in 0 .. NumList - 1 : PrimeList[i] = p
         /\ \A i, j \in 0 .. NumList - 1 : i <= j => PrimeList[i] <= PrimeList[j]
<1>1. PrimeSet \in SUBSET Nat /\ PrimeSet \subseteq 2 .. Span
  BY DEF PrimeSet, Primes
<1>2. IsFiniteSet(PrimeSet)
  <2>1. IsFiniteSet(2 .. Span)
    BY FS_Interval
  <2>2. QED BY <1>1, <2>1, FS_Subset
<1>3. NumList \in Nat /\ SmallCut \in 0 .. NumList
  <2> DEFINE S == {p \in PrimeSet : p < SmallPrimeCut}
  <2>1. S \subseteq PrimeSet
    OBVIOUS
  <2> HIDE DEF S
  <2>2. Cardinality(S) \in Nat /\ Cardinality(S) <= Cardinality(PrimeSet) /\ NumList \in Nat
    BY <1>2, <2>1, FS_Subset, FS_CardinalityType DEF NumList
  <2>3. SmallCut = Cardinality(S)
    BY DEF SmallCut, S
  <2>4. QED BY <2>2, <2>3 DEF NumList
<1>4. ASSUME NEW i \in 0 .. NumList - 1
      PROVE  PrimeList[i] \in PrimeSet /\ Cardinality(Below(PrimeSet, PrimeList[i])) = i
  <2>1. \E p \in PrimeSet : Cardinality(Below(PrimeSet, p)) = i
    <3>1. i + 1 \in 1 .. Cardinality(PrimeSet) /\ (i + 1) - 1 = i
      BY <1>3 DEF NumList
    <3>2. \E p \in PrimeSet : Cardinality(Below(PrimeSet, p)) = (i + 1) - 1
      BY <1>1, <1>2, <3>1, RankTaken
    <3>3. QED BY <3>1, <3>2
  <2>2. PrimeList[i] = CHOOSE p \in PrimeSet : Cardinality(Below(PrimeSet, p)) = i
    BY DEF PrimeList, Below
  <2>3. QED BY <2>1, <2>2
<1>5. ASSUME NEW p \in PrimeSet PROVE \E i \in 0 .. NumList - 1 : PrimeList[i] = p
  <2> DEFINE i == Cardinality(Below(PrimeSet, p))
  <2>1. i \in Nat /\ i < Cardinality(PrimeSet)
    BY <1>1, <1>2, RankGrows
  <2>2. i \in 0 .. NumList - 1
    BY <1>3, <2>1 DEF NumList
  <2>3. PrimeList[i] \in PrimeSet /\ Cardinality(Below(PrimeSet, PrimeList[i])) = i
    BY <1>4, <2>2
  <2> DEFINE q == PrimeList[i]
  <2>4. \A s, t \in PrimeSet :
          s < t => Cardinality(Below(PrimeSet, s)) < Cardinality(Below(PrimeSet, t))
    BY <1>1, <1>2, RankGrows
  <2> HIDE DEF q
  <2>5. q \in PrimeSet /\ Cardinality(Below(PrimeSet, q)) = i
    BY <2>3 DEF q
  <2>6. q \in Nat /\ p \in Nat
    BY <1>1, <2>5
  <2> HIDE DEF i
  <2>7. ~(q < p) /\ ~(p < q)
    BY <2>1, <2>4, <2>5 DEF i
  <2>8. QED BY <2>2, <2>6, <2>7 DEF q
<1>6. ASSUME NEW i \in 0 .. NumList - 1, NEW j \in 0 .. NumList - 1, i <= j
      PROVE  PrimeList[i] <= PrimeList[j]
  <2> DEFINE p == PrimeList[i]
             q == PrimeList[j]
  <2>1. /\ p \in PrimeSet /\ Cardinality(Below(PrimeSet, p)) = i
        /\ q \in PrimeSet /\ Cardinality(Below(PrimeSet, q)) = j
    BY <1>4
  <2> HIDE DEF p, q
  <2>2. p \in Nat /\ q \in Nat /\ i \in Int /\ j \in Int
    BY <1>1, <2>1
  <2>3. q < p => j < i
    BY <1>1, <1>2, <2>1, RankGrows
  <2>4. p <= q
    BY <1>6, <2>2, <2>3
  <2>5. QED BY <2>4 DEF p, q
<1>7. QED BY <1>3, <1>4, <1>5, <1>6

-----------------------------------------------------------------------------
(* The inductive invariant *)

Marking == {"cut", "large", "marked"}
Flushes == {"flush", "flushed"}
Active == {"zeroed"} \union Marking \union Flushes

\* Where a thread can be: none is past the slab but at its exit, and those of the
\* strided loops are at a prime or a word of their own.
Finished(t) ==
  \/ BlockBase(Block(t)) >= BufMin(slab)
  \/ ph[t] >= Stages
  \/ PhaseLo(t) >= BlockHi(Block(t))
Placed(t) ==
  /\ pc[t] \in {"phase"} \union Active => BlockBase(Block(t)) < BufMin(slab)
  /\ pc[t] \in Active => ph[t] < Stages /\ PhaseLo(t) < BlockHi(Block(t))
  /\ pc[t] = "exit" => Finished(t)
  /\ pc[t] = "zeroed" => next[t] = 0
  /\ pc[t] = "cut" => next[t] <= SmallCut
  /\ pc[t] = "large" =>
       next[t] >= SmallCut /\ (next[t] - SmallCut) % ThreadsPerBlock = Lane(t)
  /\ pc[t] = "flush" => next[t] % ThreadsPerBlock = Lane(t)
PlaceInv == \A t \in Threads : Placed(t)

\* What the barriers keep apart.
InStep(t, u) ==
  /\ ph[t] = ph[u]
  /\ pc[t] \in Marking => pc[u] \in Marking
  /\ pc[t] \in Flushes => pc[u] \in Flushes
SyncInv == \A t, u \in Threads : Block(t) = Block(u) => InStep(t, u)

\* The stage: what is zeroed, marked, and flushed.
StageBits == (0 .. StageBytes - 1) \X Residues
Struck(t, bit) ==
  LET v == PhaseLo(t) + 30 * bit[1] + bit[2]
  IN v < PhaseHi(t) /\ \E p \in PrimeSet : Strikes(p, v)
HasWalked(t, i, lo, hi) ==
  \A v \in Walked(PrimeList[i], lo, hi) : BitOf(v, PhaseLo(t)) \in stage[Block(t)]
CutDone(t, n) ==
  \A i \in 0 .. SmallCut - 1 : i < n => HasWalked(t, i, SliceLo(t), SliceHi(t))
LargeDone(t, n) ==
  \A i \in SmallCut .. NumList - 1 :
    i < n /\ (i - SmallCut) % ThreadsPerBlock = Lane(t) =>
      HasWalked(t, i, PhaseLo(t), PhaseHi(t))
StageOf(t) ==
  /\ pc[t] = "zeroed" => \A bit \in stage[Block(t)] : Word(bit) \notin Strided(t)
  /\ pc[t] \in Marking => \A bit \in stage[Block(t)] : Struck(t, bit)
  /\ pc[t] = "cut" => CutDone(t, next[t])
  /\ pc[t] \in {"large", "marked"} => CutDone(t, SmallCut)
  /\ pc[t] = "large" => LargeDone(t, next[t])
  /\ pc[t] = "marked" => LargeDone(t, NumList)
  /\ pc[t] \in Flushes =>
       \A bit \in StageBits : bit \in stage[Block(t)] <=> Struck(t, bit)
StageInv ==
  /\ \A b \in Blocks : stage[b] \subseteq StageBits
  /\ \A t \in Threads : StageOf(t)

\* The map: no prime is ever lost, and of what a thread has flushed nothing that
\* is struck is left.
PlaceOf(t, k) == BlockBase(Block(t)) + k * StageBytes
Passed(t, k, y) ==
  /\ (y \div 4) % ThreadsPerBlock = Lane(t)
  /\ \/ k < ph[t]
     \/ /\ k = ph[t]
        /\ \/ pc[t] = "flushed"
           \/ pc[t] = "flush" /\ y \div 4 < next[t]
ValueOf(byte, r) == slab.lo + 30 * byte + r
Cleared(t, k, y, r) ==
  <<PlaceOf(t, k) + y, r>> \in map =>
    \A p \in PrimeSet : ~Strikes(p, ValueOf(PlaceOf(t, k) + y, r))
MapInv ==
  /\ map \subseteq Primed(slab)
  /\ SlabPrimes \subseteq map
  /\ \A t \in Threads, k \in 0 .. Stages - 1, y \in 0 .. StageBytes - 1, r \in Residues :
       Passed(t, k, y) => Cleared(t, k, y, r)

IInv == Typed /\ PlaceInv /\ SyncInv /\ StageInv /\ MapInv

-----------------------------------------------------------------------------
(* Windows and strides *)

\* Two members of one stride.
LEMMA StrideStep ==
  ASSUME NEW m \in Nat, m > 0, NEW a \in Nat, NEW b \in Nat, a % m = b % m, a < b + m
  PROVE  a < b \/ a = b
<1> DEFINE x == a \div m
           y == b \div m
           r == a % m
<1>1. x \in Int /\ y \in Int /\ r \in 0 .. m - 1 /\ a = m * x + r /\ b = m * y + r
  OBVIOUS
<1> HIDE DEF x, y, r
<1>2. m * (y + 1 - x) > 0 /\ y + 1 - x \in Int
  <2>1. m * (y + 1 - x) = m * y + m - m * x /\ m * y \in Int /\ m * x \in Int
    BY <1>1
  <2>2. QED BY <1>1, <2>1
<1>3. y + 1 - x > 0
  BY <1>2, FactorPositive
<1>4. x <= y
  BY <1>1, <1>3
<1>5. m * (y - x) >= 0
  BY <1>1, <1>4, FactorPositive
<1>6. m * (y - x) = m * y - m * x /\ m * y \in Int /\ m * x \in Int
  BY <1>1
<1>7. QED BY <1>1, <1>5, <1>6

LEMMA StrideNext ==
  ASSUME NEW m \in Nat, m > 0, NEW a \in Nat
  PROVE  (a + m) % m = a % m /\ (a < m => a % m = a)
<1> DEFINE x == a \div m
           r == a % m
<1>1. x \in Int /\ r \in 0 .. m - 1 /\ a = m * x + r
  OBVIOUS
<1>2. (a + m) % m = r
  <2>1. a + m \in Int /\ (a + m) = m * ((a + m) \div m) + ((a + m) % m)
    OBVIOUS
  <2>2. (a + m) \div m = x + 1
    BY DivShift
  <2> HIDE DEF x, r
  <2>3. m * (x + 1) = m * x + m /\ m * x \in Int
    BY <1>1
  <2>4. (a + m) % m \in Int
    OBVIOUS
  <2>5. QED BY <1>1, <2>1, <2>2, <2>3, <2>4
<1>3. a < m => a % m = a
  OBVIOUS
<1>4. QED BY <1>2, <1>3

\* Where the windows of a thread are.
LEMMA WindowFacts ==
  ASSUME Typed, NEW t \in Threads
  PROVE  /\ PlaceOf(t, ph[t]) \in Nat /\ PhaseLo(t) = slab.lo + 30 * PlaceOf(t, ph[t])
         /\ PlaceOf(t, ph[t]) = StageBytes * Region(t)
         /\ PhaseLo(t) \in Nat /\ PhaseLo(t) % 30 = 0
         /\ BlockEnd(Block(t)) \in Nat /\ BlockHi(Block(t)) = slab.lo + 30 * BlockEnd(Block(t))
         /\ BlockEnd(Block(t)) <= BufMin(slab)
         /\ BlockHi(Block(t)) \in Nat /\ PhaseHi(t) \in Nat
         /\ PhaseHi(t) <= BlockHi(Block(t)) /\ PhaseHi(t) <= PhaseLo(t) + 30 * StageBytes
         /\ PhaseHi(t) = BlockHi(Block(t)) \/ PhaseHi(t) = PhaseLo(t) + 30 * StageBytes
         /\ SliceLo(t) = PhaseLo(t) + 30 * (SliceBytes * Lane(t))
         /\ SliceLo(t) \in Nat /\ SliceLo(t) >= PhaseLo(t) /\ SliceHi(t) \in Nat
         /\ SliceHi(t) <= PhaseHi(t)
         /\ SliceHi(t) = PhaseHi(t) \/ SliceHi(t) = SliceLo(t) + 30 * SliceBytes
<1> DEFINE x == PlaceOf(t, ph[t])
           l == SliceBytes * Lane(t)
<1>1. /\ slab.lo \in Nat /\ slab.lo % 30 = 0 /\ BufMin(slab) \in Nat
      /\ BlockBase(Block(t)) \in Nat /\ x \in Nat /\ x = StageBytes * Region(t)
      /\ BlockSpan \in Nat /\ StageBytes \in Nat /\ StageBytes > 0
      /\ SliceBytes \in Nat /\ Lane(t) \in Nat /\ ThreadsPerBlock \in Nat
  <2>1. slab \in Slabs
    BY DEF Typed
  <2>2. Region(t) \in Nat /\ StageBytes \in Nat /\ x = StageBytes * Region(t)
    BY RegionFacts, Geometry DEF PlaceOf
  <2>3. StageBytes * Region(t) \in Nat
    BY <2>2
  <2>4. QED BY <2>1, <2>2, <2>3, SlabFacts, RegionFacts, Geometry, ThreadFacts
<1>2. PhaseLo(t) = slab.lo + 30 * x
  <2>1. PhaseLo(t) = slab.lo + x * 30
    BY DEF PhaseLo, PlaceOf
  <2> HIDE DEF x
  <2>2. QED BY <1>1, <2>1
<1>3. l \in Nat /\ SliceLo(t) = PhaseLo(t) + 30 * l
  <2>1. Lane(t) * SliceBytes = l /\ l \in Nat
    BY <1>1
  <2>2. SliceLo(t) = PhaseLo(t) + (Lane(t) * SliceBytes) * 30
    BY DEF SliceLo
  <2> HIDE DEF l
  <2>3. QED BY <2>1, <2>2
<1> HIDE DEF x, l
<1>4. PhaseLo(t) \in Nat /\ PhaseLo(t) % 30 = 0
  BY <1>1, <1>2
<1>5. /\ BlockEnd(Block(t)) \in Nat /\ BlockEnd(Block(t)) <= BufMin(slab)
      /\ BlockHi(Block(t)) = slab.lo + 30 * BlockEnd(Block(t)) /\ BlockHi(Block(t)) \in Nat
  <2>1. BlockEnd(Block(t)) \in Nat /\ BlockEnd(Block(t)) <= BufMin(slab)
    BY <1>1 DEF BlockEnd
  <2>2. QED BY <1>1, <2>1 DEF BlockHi
<1>6. /\ PhaseHi(t) \in Nat
      /\ PhaseHi(t) <= BlockHi(Block(t)) /\ PhaseHi(t) <= PhaseLo(t) + 30 * StageBytes
      /\ PhaseHi(t) = BlockHi(Block(t)) \/ PhaseHi(t) = PhaseLo(t) + 30 * StageBytes
  BY <1>1, <1>4, <1>5 DEF PhaseHi
<1>7. SliceLo(t) \in Nat /\ SliceLo(t) >= PhaseLo(t)
  BY <1>3, <1>4
<1>8. /\ SliceHi(t) \in Nat /\ SliceHi(t) <= PhaseHi(t)
      /\ SliceHi(t) = PhaseHi(t) \/ SliceHi(t) = SliceLo(t) + 30 * SliceBytes
  BY <1>1, <1>6, <1>7 DEF SliceHi
<1>9. QED BY <1>1, <1>2, <1>3, <1>4, <1>5, <1>6, <1>7, <1>8 DEF x, l

\* A value and its bit.
LEMMA BitPlace ==
  ASSUME NEW base \in Nat, base % 30 = 0
  PROVE  /\ \A v \in Nat : v >= base =>
              \E y \in Nat, r \in 0 .. 29 :
                v = base + 30 * y + r /\ v % 30 = r /\ BitOf(v, base) = <<y, r>>
         /\ \A y \in Nat, r \in Residues :
              /\ BitOf(base + 30 * y + r, base) = <<y, r>>
              /\ (base + 30 * y + r) % 30 = r
<1>1. ASSUME NEW y \in Nat, NEW r \in 0 .. 29
      PROVE  BitOf(base + 30 * y + r, base) = <<y, r>> /\ (base + 30 * y + r) % 30 = r
  <2>1. ((base + 30 * y + r) - base) \div 30 = y
    OBVIOUS
  <2>2. (base + 30 * y + r) % 30 = r
    OBVIOUS
  <2>3. QED BY <2>1, <2>2 DEF BitOf
<1>2. ASSUME NEW v \in Nat, v >= base
      PROVE  \E y \in Nat, r \in 0 .. 29 :
                v = base + 30 * y + r /\ v % 30 = r /\ BitOf(v, base) = <<y, r>>
  <2> DEFINE y == (v - base) \div 30
             r == (v - base) % 30
  <2>1. y \in Nat /\ r \in 0 .. 29 /\ v = base + 30 * y + r
    BY <1>2
  <2> HIDE DEF y, r
  <2>2. QED BY <1>1, <2>1
<1>3. Residues \subseteq 0 .. 29
  BY DEF Residues
<1>4. QED BY <1>1, <1>2, <1>3

\* What one walk adds to a stage.
LEMMA MarksFacts ==
  ASSUME Typed, NEW t \in Threads, NEW i \in 0 .. NumList - 1,
         NEW lo \in Nat, NEW hi \in Nat, lo >= PhaseLo(t), hi <= PhaseHi(t)
  PROVE  /\ Marks(PrimeList[i], PhaseLo(t), lo, hi) =
              {BitOf(v, PhaseLo(t)) : v \in Walked(PrimeList[i], lo, hi)}
         /\ \A bit \in Marks(PrimeList[i], PhaseLo(t), lo, hi) :
              bit \in StageBits /\ Struck(t, bit)
<1> DEFINE p == PrimeList[i]
           base == PhaseLo(t)
<1>1. slab \in Slabs /\ Span \in Nat
  BY SlabsAssumption DEF Typed
<1>2. p \in PrimeSet
  BY <1>1, ListFacts
<1>3. base \in Nat /\ base % 30 = 0
  BY WindowFacts
<1>4. Marks(p, base, lo, hi) = {BitOf(v, base) : v \in Walked(p, lo, hi)}
  <2> HIDE DEF p, base
  <2>1. QED BY <1>1, <1>2, <1>3, MarksAre
<1>5. ASSUME NEW v \in Walked(p, lo, hi)
      PROVE  BitOf(v, base) \in StageBits /\ Struck(t, BitOf(v, base))
  <2>1. v \in Nat /\ v >= base /\ v < PhaseHi(t) /\ v % 30 \in Residues /\ Strikes(p, v)
    <3>1. PhaseHi(t) \in Nat
      BY WindowFacts
    <3>2. QED BY <3>1, <1>3 DEF Walked
  <2>2. PICK y \in Nat, r \in 0 .. 29 :
          v = base + 30 * y + r /\ v % 30 = r /\ BitOf(v, base) = <<y, r>>
    BY <1>3, <2>1, BitPlace
  <2>3. y < StageBytes
    <3>1. PhaseHi(t) <= base + 30 * StageBytes /\ StageBytes \in Nat /\ PhaseHi(t) \in Nat
      BY WindowFacts, Geometry
    <3>2. QED BY <1>3, <2>1, <2>2, <3>1
  <2>4. <<y, r>> \in StageBits
    BY <2>1, <2>2, <2>3, Geometry DEF StageBits
  <2>5. Struck(t, <<y, r>>)
    <3>1. base + 30 * <<y, r>>[1] + <<y, r>>[2] = v
      BY <2>2
    <3>2. QED BY <1>2, <2>1, <3>1 DEF Struck
  <2>6. QED BY <2>2, <2>4, <2>5
<1> HIDE DEF p, base
<1>6. QED BY <1>4, <1>5 DEF p, base

-----------------------------------------------------------------------------
(* What a step leaves alone *)

LEMMA Goes ==
  ASSUME Typed, NEW t \in Threads, NEW step, NEW n, Goto(t, step, n)
  PROVE  /\ pc'[t] = step /\ next'[t] = n
         /\ \A u \in Threads : u # t => pc'[u] = pc[u] /\ next'[u] = next[u]
         /\ DOMAIN pc' = Threads /\ DOMAIN next' = Threads
         /\ n \in Nat => next' \in [Threads -> Nat]
  BY DEF Typed, Goto

LEMMA Frame ==
  ASSUME slab' = slab, NEW t \in Threads, ph'[t] = ph[t]
  PROVE  /\ PhaseLo(t)' = PhaseLo(t) /\ PhaseHi(t)' = PhaseHi(t)
         /\ SliceLo(t)' = SliceLo(t) /\ SliceHi(t)' = SliceHi(t)
         /\ BlockHi(Block(t))' = BlockHi(Block(t)) /\ BufMin(slab)' = BufMin(slab)
         /\ \A bit : Struck(t, bit)' <=> Struck(t, bit)
<1>1. BufMin(slab)' = BufMin(slab) /\ slab' = slab /\ ph'[t] = ph[t]
  BY DEF BufMin
<1>2. BlockEnd(Block(t))' = BlockEnd(Block(t))
  BY <1>1 DEF BlockEnd
<1>3. BlockHi(Block(t))' = BlockHi(Block(t))
  BY <1>1, <1>2 DEF BlockHi
<1>4. PhaseLo(t)' = PhaseLo(t)
  BY <1>1 DEF PhaseLo
<1>5. PhaseHi(t)' = PhaseHi(t)
  BY <1>3, <1>4 DEF PhaseHi
<1>6. SliceLo(t)' = SliceLo(t)
  BY <1>4 DEF SliceLo
<1>7. SliceHi(t)' = SliceHi(t)
  BY <1>5, <1>6 DEF SliceHi
<1>8. \A bit : Struck(t, bit)' <=> Struck(t, bit)
  BY <1>4, <1>5 DEF Struck
<1>9. QED BY <1>1, <1>3, <1>4, <1>5, <1>6, <1>7, <1>8

LEMMA PlacedStays ==
  ASSUME slab' = slab, NEW t \in Threads, ph'[t] = ph[t],
         pc'[t] = pc[t], next'[t] = next[t], Placed(t)
  PROVE  Placed(t)'
<1>1. Finished(t)' <=> Finished(t)
  BY Frame DEF Finished
<1>2. QED BY <1>1, Frame DEF Placed

\* Walks that were done stay done while the stage only grows.
LEMMA WalksStay ==
  ASSUME slab' = slab, NEW t \in Threads, ph'[t] = ph[t], stage[Block(t)] \subseteq stage'[Block(t)]
  PROVE  /\ \A i, lo, hi : HasWalked(t, i, lo, hi) => HasWalked(t, i, lo, hi)'
         /\ \A n : CutDone(t, n) => CutDone(t, n)'
         /\ \A n : LargeDone(t, n) => LargeDone(t, n)'
<1>1. ASSUME NEW i, NEW lo, NEW hi, HasWalked(t, i, lo, hi) PROVE HasWalked(t, i, lo, hi)'
  BY <1>1, Frame DEF HasWalked
<1>2. ASSUME NEW n, CutDone(t, n) PROVE CutDone(t, n)'
  <2>1. \A i \in 0 .. SmallCut - 1 : i < n => HasWalked(t, i, SliceLo(t), SliceHi(t))'
    <3>1. \A i \in 0 .. SmallCut - 1 :
            i < n => \A v \in Walked(PrimeList[i], SliceLo(t), SliceHi(t)) :
                       BitOf(v, PhaseLo(t)) \in stage[Block(t)]
      BY <1>2 DEF CutDone, HasWalked
    <3>2. QED BY <3>1, Frame DEF HasWalked
  <2>2. QED BY <2>1 DEF CutDone
<1>3. ASSUME NEW n, LargeDone(t, n) PROVE LargeDone(t, n)'
  <2>1. \A i \in SmallCut .. NumList - 1 :
          i < n /\ (i - SmallCut) % ThreadsPerBlock = Lane(t) =>
            HasWalked(t, i, PhaseLo(t), PhaseHi(t))'
    <3>1. \A i \in SmallCut .. NumList - 1 :
            i < n /\ (i - SmallCut) % ThreadsPerBlock = Lane(t) =>
              \A v \in Walked(PrimeList[i], PhaseLo(t), PhaseHi(t)) :
                BitOf(v, PhaseLo(t)) \in stage[Block(t)]
      BY <1>3 DEF LargeDone, HasWalked
    <3>2. QED BY <3>1, Frame DEF HasWalked
  <2>2. QED BY <2>1 DEF LargeDone
<1>4. QED BY <1>1, <1>2, <1>3

LEMMA StageStays ==
  ASSUME slab' = slab, NEW t \in Threads, ph'[t] = ph[t],
         pc'[t] = pc[t], next'[t] = next[t], stage'[Block(t)] = stage[Block(t)], StageOf(t)
  PROVE  StageOf(t)'
<1>1. /\ \A n : CutDone(t, n) => CutDone(t, n)'
      /\ \A n : LargeDone(t, n) => LargeDone(t, n)'
  BY WalksStay
<1>2. CutDone(t, next[t]) => CutDone(t, next[t])'
  BY WalksStay
<1>3. QED BY <1>1, Frame DEF StageOf

LEMMA MapStays ==
  ASSUME MapInv, UNCHANGED <<slab, map>>,
         \A t \in Threads, k \in 0 .. Stages - 1, y \in 0 .. StageBytes - 1 :
           Passed(t, k, y)' => Passed(t, k, y)
  PROVE  MapInv'
<1>1. Primed(slab)' = Primed(slab) /\ SlabPrimes' = SlabPrimes
  BY DEF Primed, Padded, BufMin, SlabPrimes
<1>2. ASSUME NEW t \in Threads, NEW k \in 0 .. Stages - 1, NEW y \in 0 .. StageBytes - 1,
             NEW r \in Residues, Passed(t, k, y)'
      PROVE  Cleared(t, k, y, r)'
  <2>1. Cleared(t, k, y, r)
    BY <1>2 DEF MapInv
  <2>2. QED BY <2>1 DEF Cleared, ValueOf, PlaceOf
<1>3. QED BY <1>1, <1>2 DEF MapInv

\* A step of one thread that passes nothing and whose stage is as it was.
LEMMA StepAlone ==
  ASSUME IInv, NEW t \in Threads, UNCHANGED <<slab, ph, map, aligned>>,
         NEW step, NEW n \in Nat, Goto(t, step, n), DOMAIN stage' = Blocks,
         step \in {"start", "phase", "zeroed", "cut", "large", "marked", "flush", "flushed", "exit"},
         Placed(t)', \A b \in Blocks : stage'[b] \subseteq StageBits,
         \A u \in Threads : StageOf(u)',
         \/ {pc[t], step} \subseteq Marking
         \/ {pc[t], step} \cap (Marking \union Flushes) = {},
         step \notin Flushes
  PROVE  IInv'
<1>1. Typed' /\ Typed
  BY Goes DEF IInv, Typed, Goto
<1>2. PlaceInv'
  <2>1. ASSUME NEW u \in Threads, u # t PROVE Placed(u)'
    BY <1>1, <2>1, Goes, PlacedStays DEF IInv, PlaceInv
  <2>2. QED BY <2>1 DEF PlaceInv
<1>3. SyncInv'
  <2>1. SUFFICES ASSUME NEW u \in Threads, NEW v \in Threads, Block(u) = Block(v)
                 PROVE  InStep(u, v)'
    BY DEF SyncInv
  <2>2. InStep(u, v) /\ InStep(v, u) /\ InStep(u, u) /\ InStep(v, v)
    BY <2>1 DEF IInv, SyncInv
  <2>3. pc'[t] = step /\ \A w \in Threads : w # t => pc'[w] = pc[w]
    BY <1>1, Goes
  <2>4. ph'[u] = ph'[v]
    BY <2>2 DEF InStep
  <2>5. ASSUME pc'[u] \in Marking PROVE pc'[v] \in Marking
    BY <2>2, <2>3, <2>5 DEF InStep, Marking, Flushes
  <2>6. ASSUME pc'[u] \in Flushes PROVE pc'[v] \in Flushes
    BY <2>2, <2>3, <2>6 DEF InStep, Marking, Flushes
  <2>7. Marking' = Marking /\ Flushes' = Flushes
    BY DEF Marking, Flushes
  <2>8. QED BY <2>4, <2>5, <2>6, <2>7 DEF InStep
<1>4. StageInv'
  <2>1. StageBits' = StageBits
    BY DEF StageBits
  <2>2. QED BY <2>1 DEF StageInv
<1>5. MapInv'
  <2>1. pc'[t] = step /\ \A w \in Threads : w # t => pc'[w] = pc[w] /\ next'[w] = next[w]
    BY <1>1, Goes
  <2>2. ASSUME NEW u \in Threads, NEW k \in 0 .. Stages - 1, NEW y \in 0 .. StageBytes - 1,
               Passed(u, k, y)'
        PROVE  Passed(u, k, y)
    BY <2>1, <2>2 DEF Passed, Flushes
  <2>3. QED BY <2>2, MapStays DEF IInv
<1>6. QED BY <1>1, <1>2, <1>3, <1>4, <1>5 DEF IInv

LEMMA StartStep ==
  ASSUME IInv, NEW t \in Threads, Start(t)
  PROVE  IInv'
<1> DEFINE step == IF BlockBase(Block(t)) >= BufMin(slab) THEN "exit" ELSE "phase"
<1>1. /\ Typed /\ pc[t] = "start" /\ Goto(t, step, 0) /\ UNCHANGED <<slab, ph, map, aligned>>
      /\ stage' = stage
  BY DEF IInv, Start
<1> HIDE DEF step
<1>2. pc'[t] = step /\ \A u \in Threads : u # t => pc'[u] = pc[u] /\ next'[u] = next[u]
  BY <1>1, Goes
<1>3. step \in {"exit", "phase"}
  BY DEF step
<1>4. Placed(t)'
  <2>1. slab \in Slabs /\ BlockBase(Block(t)) \in Nat /\ BufMin(slab) \in Nat
    BY <1>1, RegionFacts, SlabFacts DEF Typed
  <2>2. BufMin(slab)' = BufMin(slab) /\ BlockBase(Block(t))' = BlockBase(Block(t))
    BY <1>1, Frame
  <2>3. step = "exit" => Finished(t)'
    BY <2>2 DEF step, Finished
  <2>4. step = "phase" => BlockBase(Block(t)) < BufMin(slab)
    BY <2>1 DEF step
  <2>5. QED BY <1>2, <1>3, <2>2, <2>3, <2>4 DEF Placed, Active, Marking, Flushes
<1>5. ASSUME NEW u \in Threads PROVE StageOf(u)'
  <2>1. CASE u = t
    BY <1>2, <1>3, <2>1 DEF StageOf, Marking, Flushes
  <2>2. CASE u # t
    <3>1. StageOf(u)
      BY DEF IInv, StageInv
    <3>2. QED BY <1>1, <1>2, <2>2, <3>1, StageStays
  <2>3. QED BY <2>1, <2>2
<1>6. \A b \in Blocks : stage'[b] \subseteq StageBits
  BY <1>1 DEF IInv, StageInv
<1>7. DOMAIN stage' = Blocks
  BY <1>1 DEF Typed
<1>8. QED BY <1>1, <1>3, <1>4, <1>5, <1>6, <1>7, StepAlone DEF Marking, Flushes

LEMMA PhaseStep ==
  ASSUME IInv, NEW t \in Threads, Phase(t)
  PROVE  IInv'
<1> DEFINE on == ph[t] < Stages /\ PhaseLo(t) < BlockHi(Block(t))
           step == IF on THEN "zeroed" ELSE "exit"
<1>1. /\ Typed /\ pc[t] = "phase" /\ Goto(t, step, 0) /\ UNCHANGED <<slab, ph, map, aligned>>
      /\ IF on THEN stage' = [stage EXCEPT ![Block(t)] = {bit \in @ : Word(bit) \notin Strided(t)}]
         ELSE stage' = stage
  BY DEF IInv, Phase
<1> HIDE DEF on, step
<1>2. /\ pc'[t] = step /\ next'[t] = 0
      /\ \A u \in Threads : u # t => pc'[u] = pc[u] /\ next'[u] = next[u]
  BY <1>1, Goes
<1>3. step \in {"exit", "zeroed"} /\ (step = "zeroed" <=> on)
  BY DEF step
<1>4. Block(t) \in Blocks /\ DOMAIN stage = Blocks
  BY <1>1, ThreadFacts DEF Typed
<1>5. /\ DOMAIN stage' = Blocks
      /\ \A b \in Blocks : stage'[b] \subseteq stage[b] /\ (b # Block(t) => stage'[b] = stage[b])
      /\ on => \A bit \in stage'[Block(t)] : Word(bit) \notin Strided(t)
  BY <1>1, <1>4
<1>6. Placed(t)'
  <2>1. /\ PhaseLo(t) \in Nat /\ BlockHi(Block(t)) \in Nat /\ Stages \in Nat /\ ph[t] \in Nat
    BY <1>1, WindowFacts, Geometry DEF Typed
  <2>2. /\ BufMin(slab)' = BufMin(slab) /\ BlockBase(Block(t))' = BlockBase(Block(t))
        /\ PhaseLo(t)' = PhaseLo(t) /\ BlockHi(Block(t))' = BlockHi(Block(t)) /\ ph' = ph
    BY <1>1, Frame
  <2>3. step = "exit" => Finished(t)'
    BY <1>3, <2>1, <2>2 DEF on, Finished
  <2>4. BlockBase(Block(t)) < BufMin(slab)
    BY <1>1 DEF IInv, PlaceInv, Placed
  <2>5. step = "zeroed" => ph[t] < Stages /\ PhaseLo(t) < BlockHi(Block(t))
    BY <1>3 DEF on
  <2>6. QED BY <1>2, <1>3, <2>2, <2>3, <2>4, <2>5 DEF Placed, Active, Marking, Flushes
<1>7. ASSUME NEW u \in Threads PROVE StageOf(u)'
  <2>1. StageOf(u) /\ Block(u) \in Blocks
    BY ThreadFacts DEF IInv, StageInv
  <2>2. CASE u = t
    <3>1. Strided(t)' = Strided(t) /\ \A bit : Word(bit)' = Word(bit)
      BY DEF Strided, Word
    <3>2. step = "zeroed" => \A bit \in stage'[Block(t)] : Word(bit) \notin Strided(t)
      BY <1>3, <1>5
    <3>3. QED BY <1>2, <1>3, <2>2, <3>1, <3>2 DEF StageOf, Marking, Flushes
  <2>3. CASE u # t /\ Block(u) # Block(t)
    BY <1>1, <1>2, <1>5, <2>1, <2>3, StageStays
  <2>4. CASE u # t /\ Block(u) = Block(t)
    <3>1. pc[u] \notin Marking /\ pc[u] \notin Flushes
      <4>1. InStep(u, t)
        BY <2>4 DEF IInv, SyncInv
      <4>2. QED BY <1>1, <4>1 DEF InStep, Marking, Flushes
    <3>2. Strided(u)' = Strided(u) /\ \A bit : Word(bit)' = Word(bit)
      BY DEF Strided, Word
    <3>3. pc'[u] = pc[u]
      BY <1>2, <2>4
    <3>4. pc[u] = "zeroed" => \A bit \in stage'[Block(u)] : Word(bit) \notin Strided(u)
      BY <1>5, <2>1 DEF StageOf
    <3>5. QED BY <3>1, <3>2, <3>3, <3>4 DEF StageOf, Marking, Flushes
  <2>5. QED BY <2>2, <2>3, <2>4
<1>8. \A b \in Blocks : stage'[b] \subseteq StageBits
  BY <1>5 DEF IInv, StageInv
<1>9. QED BY <1>1, <1>3, <1>5, <1>6, <1>7, <1>8, StepAlone DEF Marking, Flushes

\* A step of a thread that marks, M the bits it sets.
LEMMA MarkStep ==
  ASSUME IInv, NEW t \in Threads, pc[t] \in Marking, UNCHANGED <<slab, ph, map, aligned>>,
         NEW step \in Marking, NEW n \in Nat, Goto(t, step, n),
         NEW M, \A bit \in M : bit \in StageBits /\ Struck(t, bit),
         DOMAIN stage' = Blocks,
         \A b \in Blocks : stage'[b] = IF b = Block(t) THEN stage[b] \union M ELSE stage[b],
         step = "cut" => n <= SmallCut /\ CutDone(t, n)',
         step \in {"large", "marked"} => CutDone(t, SmallCut)',
         step = "large" => /\ n >= SmallCut /\ (n - SmallCut) % ThreadsPerBlock = Lane(t)
                           /\ LargeDone(t, n)',
         step = "marked" => LargeDone(t, NumList)'
  PROVE  IInv'
<1>1. Typed /\ Placed(t) /\ Block(t) \in Blocks /\ ph' = ph
  BY ThreadFacts DEF IInv, PlaceInv
<1>2. /\ pc'[t] = step /\ next'[t] = n
      /\ \A u \in Threads : u # t => pc'[u] = pc[u] /\ next'[u] = next[u]
  BY <1>1, Goes
<1>3. Placed(t)'
  BY <1>1, <1>2, Frame DEF Placed, Active, Marking, Flushes
<1>4. ASSUME NEW u \in Threads PROVE StageOf(u)'
  <2>1. StageOf(u) /\ Block(u) \in Blocks /\ Marking' = Marking /\ Flushes' = Flushes
    BY ThreadFacts DEF IInv, StageInv, Marking, Flushes
  <2>2. CASE Block(u) # Block(t)
    BY <1>2, <2>1, <2>2, StageStays
  <2>3. CASE Block(u) = Block(t)
    <3>1. pc[u] \in Marking /\ ph[u] = ph[t]
      BY <2>3 DEF IInv, SyncInv, InStep
    <3>2. \A bit : Struck(u, bit) <=> Struck(t, bit)
      <4>1. PhaseLo(u) = PhaseLo(t)
        BY <2>3, <3>1 DEF PhaseLo
      <4>2. PhaseHi(u) = PhaseHi(t)
        BY <2>3, <4>1 DEF PhaseHi
      <4>3. QED BY <4>1, <4>2 DEF Struck
    <3>3. \A bit \in stage[Block(u)] : Struck(u, bit)
      BY <2>1, <3>1 DEF StageOf
    <3>4. \A bit \in stage'[Block(u)] : Struck(u, bit)'
      BY <1>1, <2>1, <2>3, <3>2, <3>3, Frame
    <3>5. stage[Block(u)] \subseteq stage'[Block(u)]
      BY <2>1, <2>3
    <3>6. /\ \A m : CutDone(u, m) => CutDone(u, m)'
          /\ \A m : LargeDone(u, m) => LargeDone(u, m)'
      BY <3>5, WalksStay
    <3>7. CASE u = t
      BY <1>2, <3>4, <3>7 DEF StageOf, Marking, Flushes
    <3>8. CASE u # t
      <4>1. pc'[u] = pc[u] /\ next'[u] = next[u]
        BY <1>2, <3>8
      <4>2. CutDone(u, next[u]) => CutDone(u, next[u])'
        BY <3>5, <4>1, <3>6
      <4>3. LargeDone(u, next[u]) => LargeDone(u, next[u])'
        BY <3>5, <4>1, <3>6
      <4>4. QED BY <2>1, <3>1, <3>4, <3>6, <4>1, <4>2, <4>3 DEF StageOf, Marking, Flushes
    <3>9. QED BY <3>7, <3>8
  <2>4. QED BY <2>2, <2>3
<1>5. \A b \in Blocks : stage'[b] \subseteq StageBits
  BY DEF IInv, StageInv
<1>6. step \in {"start", "phase", "zeroed", "cut", "large", "marked", "flush", "flushed", "exit"}
      /\ step \notin Flushes /\ {pc[t], step} \subseteq Marking
  BY DEF Marking, Flushes
<1>7. QED BY <1>3, <1>4, <1>5, <1>6, StepAlone

\* A prime out of a block's reach marks nothing in it, nor does one after it.
LEMMA OutOfReachMarksNothing ==
  ASSUME Typed, NEW t \in Threads, NEW i \in 0 .. NumList - 1,
         PrimeList[i] * PrimeList[i] >= BlockHi(Block(t)),
         NEW j \in 0 .. NumList - 1, i <= j, NEW lo \in Nat, NEW hi \in Nat, hi <= PhaseHi(t)
  PROVE  Walked(PrimeList[j], lo, hi) = {}
<1> DEFINE p == PrimeList[i]
           q == PrimeList[j]
<1>1. Span \in Nat
  BY SlabsAssumption
<1>2. p \in PrimeSet /\ q \in PrimeSet /\ p <= q
  BY <1>1, ListFacts
<1> HIDE DEF p, q
<1>3. p \in Nat /\ q \in Nat /\ p > 0
  BY <1>1, <1>2, MarkingPrime
<1>4. p * p <= q * q /\ p * p \in Int /\ q * q \in Int
  <2>1. (q - p) * (q + p) >= 0
    <3>1. q - p \in Int /\ q - p >= 0 /\ q + p \in Nat /\ q + p > 0
      BY <1>2, <1>3
    <3>2. (q + p) * (q - p) >= 0
      BY <3>1, FactorPositive
    <3>3. (q + p) * (q - p) = (q - p) * (q + p)
      BY <3>1
    <3>4. QED BY <3>2, <3>3
  <2>2. (q - p) * (q + p) = q * q - p * p /\ p * p \in Int /\ q * q \in Int
    BY <1>3
  <2>3. QED BY <2>1, <2>2
<1>5. PhaseHi(t) \in Nat /\ BlockHi(Block(t)) \in Nat /\ PhaseHi(t) <= BlockHi(Block(t))
  BY WindowFacts
<1>6. p * p >= BlockHi(Block(t))
  BY DEF p
<1>7. SUFFICES ASSUME NEW v \in Walked(q, lo, hi) PROVE FALSE
  BY DEF q
<1>8. v \in Int /\ v < hi /\ q * q <= v
  BY DEF Walked, Strikes
<1>9. QED BY <1>4, <1>5, <1>6, <1>8

\* A prime that was walked adds to what is done.
LEMMA CutPrimeStep ==
  ASSUME IInv, NEW t \in Threads, CutPrime(t)
  PROVE  IInv'
<1>1. /\ Typed /\ pc[t] = "cut" /\ UNCHANGED <<slab, ph, map, aligned>>
      /\ Placed(t) /\ StageOf(t) /\ Block(t) \in Blocks /\ DOMAIN stage = Blocks
  BY ThreadFacts DEF IInv, PlaceInv, StageInv, CutPrime, Typed
<1>2. Span \in Nat /\ NumList \in Nat /\ SmallCut \in 0 .. NumList
  BY SlabsAssumption, ListFacts
<1>3. PICK i \in Nat : i = next[t] /\ i <= SmallCut /\ CutDone(t, i)
  BY <1>1 DEF Typed, Placed, StageOf, Marking
<1>4. /\ PhaseLo(t) \in Nat /\ PhaseHi(t) \in Nat /\ SliceLo(t) \in Nat /\ SliceHi(t) \in Nat
      /\ SliceHi(t) <= PhaseHi(t) /\ PhaseHi(t) <= BlockHi(Block(t)) /\ SliceLo(t) >= PhaseLo(t)
      /\ BlockHi(Block(t)) \in Nat
      /\ Lane(t) \in 0 .. ThreadsPerBlock - 1 /\ ThreadsPerBlock \in Nat /\ ThreadsPerBlock > 0
  BY <1>1, WindowFacts, ThreadFacts, Geometry
<1> DEFINE over == SliceLo(t) >= PhaseHi(t) \/ next[t] >= SmallCut \/ OutOfReach(t)
<1>5. CASE over
  <2>1. Goto(t, "large", SmallCut + Lane(t)) /\ stage' = stage
    BY <1>1, <1>5 DEF CutPrime
  <2>2. CutDone(t, SmallCut)
    <3>1. SUFFICES ASSUME NEW j \in 0 .. SmallCut - 1, j >= i, NEW v \in Walked(PrimeList[j], SliceLo(t), SliceHi(t))
                   PROVE  FALSE
      BY <1>2, <1>3 DEF CutDone, HasWalked
    <3>2. ~(SliceLo(t) >= PhaseHi(t))
      BY <1>4, <3>1 DEF Walked
    <3>3. OutOfReach(t) /\ i \in 0 .. NumList - 1 /\ j \in 0 .. NumList - 1
      BY <1>2, <1>3, <1>5, <3>1, <3>2
    <3>4. PrimeList[i] * PrimeList[i] >= BlockHi(Block(t))
      BY <1>3, <3>3 DEF OutOfReach, Prime
    <3>5. Walked(PrimeList[j], SliceLo(t), SliceHi(t)) = {}
      BY <1>1, <1>4, <3>1, <3>3, <3>4, OutOfReachMarksNothing
    <3>6. QED BY <3>1, <3>5
  <2>3. CutDone(t, SmallCut)'
    BY <1>1, <2>1, <2>2, WalksStay
  <2>4. LargeDone(t, SmallCut + Lane(t))'
    <3>1. ASSUME NEW j \in SmallCut .. NumList - 1, j < SmallCut + Lane(t)
          PROVE  (j - SmallCut) % ThreadsPerBlock # Lane(t)
      <4>1. j - SmallCut \in Nat /\ j - SmallCut < Lane(t) /\ j - SmallCut < ThreadsPerBlock
        BY <1>2, <1>4, <3>1
      <4>2. QED BY <1>4, <4>1, StrideNext
    <3>2. QED BY <3>1 DEF LargeDone
  <2>5. SmallCut + Lane(t) \in Nat /\ SmallCut + Lane(t) >= SmallCut
        /\ ((SmallCut + Lane(t)) - SmallCut) % ThreadsPerBlock = Lane(t)
    <3>1. (SmallCut + Lane(t)) - SmallCut = Lane(t)
      BY <1>2, <1>4
    <3>2. Lane(t) % ThreadsPerBlock = Lane(t)
      BY <1>4, StrideNext
    <3>3. QED BY <1>2, <1>4, <3>1, <3>2
  <2> DEFINE n == SmallCut + Lane(t)
  <2>6. /\ n \in Nat /\ n >= SmallCut /\ (n - SmallCut) % ThreadsPerBlock = Lane(t)
        /\ LargeDone(t, n)' /\ Goto(t, "large", n)
    <3>1. n \in Nat /\ n >= SmallCut /\ (n - SmallCut) % ThreadsPerBlock = Lane(t)
      BY <2>5
    <3>2. LargeDone(t, n)'
      BY <2>4
    <3>3. Goto(t, "large", n)
      BY <2>1
    <3>4. QED BY <3>1, <3>2, <3>3
  <2> HIDE DEF n
  <2> DEFINE M == {}
  <2>7. \A b \in Blocks : stage'[b] = IF b = Block(t) THEN stage[b] \union M ELSE stage[b]
    BY <2>1
  <2>8. \A bit \in M : bit \in StageBits /\ Struck(t, bit)
    OBVIOUS
  <2>9. "large" \in Marking /\ pc[t] \in Marking /\ DOMAIN stage' = Blocks
    BY <1>1, <2>1 DEF Marking
  <2> HIDE DEF M
  <2>10. QED BY <1>1, <2>3, <2>6, <2>7, <2>8, <2>9, MarkStep
<1>6. CASE ~over
  <2>1. Goto(t, "cut", i + 1) /\ Mark(t, SliceLo(t), SliceHi(t))
    BY <1>1, <1>3, <1>6 DEF CutPrime
  <2> DEFINE M == Marks(PrimeList[i], PhaseLo(t), SliceLo(t), SliceHi(t))
  <2>2. i \in 0 .. NumList - 1 /\ i < SmallCut /\ i + 1 \in Nat /\ i + 1 <= SmallCut
    BY <1>2, <1>3, <1>6
  <2>3. /\ M = {BitOf(v, PhaseLo(t)) : v \in Walked(PrimeList[i], SliceLo(t), SliceHi(t))}
        /\ \A bit \in M : bit \in StageBits /\ Struck(t, bit)
    BY <1>1, <1>4, <2>2, MarksFacts
  <2>4. stage' = [stage EXCEPT ![Block(t)] = @ \union M]
    BY <1>3, <2>1 DEF Mark, Prime
  <2> HIDE DEF M
  <2>5. DOMAIN stage' = Blocks
        /\ \A b \in Blocks : stage'[b] = IF b = Block(t) THEN stage[b] \union M ELSE stage[b]
    BY <1>1, <2>4
  <2>6. CutDone(t, i + 1)'
    <3>1. CutDone(t, i)'
      <4>1. stage[Block(t)] \subseteq stage'[Block(t)]
        BY <1>1, <2>5
      <4>2. QED BY <1>1, <1>3, <4>1, WalksStay
    <3>2. HasWalked(t, i, SliceLo(t), SliceHi(t))'
      <4>1. M \subseteq stage'[Block(t)]
        BY <1>1, <2>5
      <4>2. \A v \in Walked(PrimeList[i], SliceLo(t), SliceHi(t)) : BitOf(v, PhaseLo(t)) \in stage'[Block(t)]
        BY <2>3, <4>1
      <4>3. QED BY <1>1, <4>2, Frame DEF HasWalked
    <3>3. \A j \in 0 .. SmallCut - 1 : j < i + 1 => j < i \/ j = i
      BY <1>2, <1>3
    <3>4. QED BY <3>1, <3>2, <3>3 DEF CutDone
  <2>7. "cut" \in Marking /\ pc[t] \in Marking
    BY <1>1 DEF Marking
  <2>8. QED BY <1>1, <2>1, <2>2, <2>3, <2>5, <2>6, <2>7, MarkStep
<1>7. QED BY <1>5, <1>6

LEMMA LargePrimeStep ==
  ASSUME IInv, NEW t \in Threads, LargePrime(t)
  PROVE  IInv'
<1>1. /\ Typed /\ pc[t] = "large" /\ UNCHANGED <<slab, ph, map, aligned>>
      /\ Placed(t) /\ StageOf(t) /\ Block(t) \in Blocks /\ DOMAIN stage = Blocks
  BY ThreadFacts DEF IInv, PlaceInv, StageInv, LargePrime, Typed
<1>2. Span \in Nat /\ NumList \in Nat /\ SmallCut \in 0 .. NumList
  BY SlabsAssumption, ListFacts
<1>3. PICK i \in Nat : /\ i = next[t] /\ i >= SmallCut
                       /\ (i - SmallCut) % ThreadsPerBlock = Lane(t)
                       /\ LargeDone(t, i) /\ CutDone(t, SmallCut)
  BY <1>1 DEF Typed, Placed, StageOf, Marking
<1>4. /\ PhaseLo(t) \in Nat /\ PhaseHi(t) \in Nat /\ PhaseHi(t) <= BlockHi(Block(t))
      /\ BlockHi(Block(t)) \in Nat /\ ThreadsPerBlock \in Nat /\ ThreadsPerBlock > 0
  BY <1>1, WindowFacts, Geometry
<1> DEFINE over == next[t] >= NumList \/ OutOfReach(t)
<1>5. CASE over
  <2>1. Goto(t, "marked", 0) /\ stage' = stage
    BY <1>1, <1>5 DEF LargePrime
  <2>2. LargeDone(t, NumList)
    <3>1. ASSUME NEW j \in SmallCut .. NumList - 1, j >= i
          PROVE  HasWalked(t, j, PhaseLo(t), PhaseHi(t))
      <4>1. OutOfReach(t) /\ i \in 0 .. NumList - 1 /\ j \in 0 .. NumList - 1
        BY <1>2, <1>3, <1>5, <3>1
      <4>2. PrimeList[i] * PrimeList[i] >= BlockHi(Block(t))
        BY <1>3, <4>1 DEF OutOfReach, Prime
      <4>3. i <= j /\ PhaseHi(t) <= PhaseHi(t)
        BY <1>2, <1>4, <3>1
      <4>4. Walked(PrimeList[j], PhaseLo(t), PhaseHi(t)) = {}
        <5> HIDE DEF over
        <5>1. QED BY <1>1, <1>4, <4>1, <4>2, <4>3, OutOfReachMarksNothing
      <4>5. QED BY <4>4 DEF HasWalked
    <3> HIDE DEF over
    <3>2. ASSUME NEW j \in SmallCut .. NumList - 1, (j - SmallCut) % ThreadsPerBlock = Lane(t)
          PROVE  HasWalked(t, j, PhaseLo(t), PhaseHi(t))
      <4>1. j \in Int /\ (j < i \/ j >= i)
        BY <1>2, <1>3
      <4>2. CASE j < i
        BY <1>3, <3>2, <4>2 DEF LargeDone
      <4>3. QED BY <3>1, <4>1, <4>2
    <3>3. QED BY <3>2 DEF LargeDone
  <2>3. CutDone(t, SmallCut)' /\ LargeDone(t, NumList)'
    BY <1>1, <1>3, <2>1, <2>2, WalksStay
  <2> DEFINE M == {}
  <2>4. \A b \in Blocks : stage'[b] = IF b = Block(t) THEN stage[b] \union M ELSE stage[b]
    BY <2>1
  <2>5. \A bit \in M : bit \in StageBits /\ Struck(t, bit)
    OBVIOUS
  <2>6. "marked" \in Marking /\ pc[t] \in Marking /\ DOMAIN stage' = Blocks
    BY <1>1, <2>1 DEF Marking
  <2> HIDE DEF M
  <2>7. QED BY <1>1, <2>1, <2>3, <2>4, <2>5, <2>6, MarkStep
<1>6. CASE ~over
  <2> DEFINE n == i + ThreadsPerBlock
             M == Marks(PrimeList[i], PhaseLo(t), PhaseLo(t), PhaseHi(t))
  <2>1. Goto(t, "large", n) /\ Mark(t, PhaseLo(t), PhaseHi(t))
    BY <1>1, <1>3, <1>6 DEF LargePrime
  <2>2. i \in 0 .. NumList - 1
    BY <1>2, <1>3, <1>6
  <2>3. /\ M = {BitOf(v, PhaseLo(t)) : v \in Walked(PrimeList[i], PhaseLo(t), PhaseHi(t))}
        /\ \A bit \in M : bit \in StageBits /\ Struck(t, bit)
    BY <1>1, <1>4, <2>2, MarksFacts
  <2>4. stage' = [stage EXCEPT ![Block(t)] = @ \union M]
    BY <1>3, <2>1 DEF Mark, Prime
  <2> HIDE DEF M
  <2>5. DOMAIN stage' = Blocks
        /\ \A b \in Blocks : stage'[b] = IF b = Block(t) THEN stage[b] \union M ELSE stage[b]
    BY <1>1, <2>4
  <2>6. /\ n \in Nat /\ n >= SmallCut /\ (n - SmallCut) % ThreadsPerBlock = Lane(t)
    <3>1. n - SmallCut = (i - SmallCut) + ThreadsPerBlock /\ i - SmallCut \in Nat
      BY <1>2, <1>3, <1>4
    <3>2. QED BY <1>2, <1>3, <1>4, <3>1, StrideNext
  <2> HIDE DEF n
  <2>7. stage[Block(t)] \subseteq stage'[Block(t)] /\ M \subseteq stage'[Block(t)]
    BY <1>1, <2>5
  <2>8. LargeDone(t, n)'
    <3>1. LargeDone(t, i)'
      BY <1>1, <1>3, <2>7, WalksStay
    <3>2. HasWalked(t, i, PhaseLo(t), PhaseHi(t))'
      <4>1. \A v \in Walked(PrimeList[i], PhaseLo(t), PhaseHi(t)) : BitOf(v, PhaseLo(t)) \in stage'[Block(t)]
        BY <2>3, <2>7
      <4>2. QED BY <1>1, <4>1, Frame DEF HasWalked
    <3>3. ASSUME NEW j \in SmallCut .. NumList - 1, j < n,
                 (j - SmallCut) % ThreadsPerBlock = Lane(t)
          PROVE  j < i \/ j = i
      <4>1. /\ j - SmallCut \in Nat /\ i - SmallCut \in Nat
            /\ j - SmallCut < (i - SmallCut) + ThreadsPerBlock
        <5>1. j \in Int /\ j >= SmallCut /\ SmallCut \in Int /\ i \in Int /\ i >= SmallCut
          BY <1>2, <1>3
        <5>2. j < i + ThreadsPerBlock /\ ThreadsPerBlock \in Int
          BY <1>4, <3>3 DEF n
        <5>3. QED BY <5>1, <5>2
      <4>2. j - SmallCut < i - SmallCut \/ j - SmallCut = i - SmallCut
        BY <1>3, <1>4, <3>3, <4>1, StrideStep
      <4>3. QED BY <1>2, <1>3, <4>2
    <3>4. QED BY <3>1, <3>2, <3>3 DEF LargeDone
  <2>9. CutDone(t, SmallCut)'
    BY <1>1, <1>3, <2>7, WalksStay
  <2>10. "large" \in Marking /\ pc[t] \in Marking
    BY <1>1 DEF Marking
  <2>11. QED BY <1>1, <2>1, <2>3, <2>5, <2>6, <2>8, <2>9, <2>10, MarkStep
<1>7. QED BY <1>5, <1>6

\* The bytes of a phase are in its block.
LEMMA InBlock ==
  ASSUME Typed, NEW t \in Threads, NEW k \in 0 .. Stages - 1, NEW y \in 0 .. StageBytes - 1
  PROVE  /\ PlaceOf(t, k) \in Nat /\ PlaceOf(t, k) + y \in Nat
         /\ PlaceOf(t, k) + y < BlockBase(Block(t)) + BlockSpan
<1> DEFINE B == StageBytes
           n == Stages
<1>1. BlockBase(Block(t)) \in Nat /\ BlockSpan = n * B /\ B \in Nat /\ B > 0 /\ n \in Nat
  BY RegionFacts, Geometry
<1>2. PlaceOf(t, k) = BlockBase(Block(t)) + k * B
  BY DEF PlaceOf
<1>3. k \in Nat /\ n - 1 - k >= 0 /\ y < B /\ y \in Nat
  BY <1>1
<1> HIDE DEF B, n
<1>4. B * (n - 1 - k) >= 0 /\ k * B \in Nat
  BY <1>1, <1>3, FactorPositive
<1>5. B * (n - 1 - k) = n * B - B - k * B /\ n * B \in Int
  BY <1>1, <1>3
<1>6. QED BY <1>1, <1>2, <1>3, <1>4, <1>5

\* A flush clears struck bits only, and those of its word all.
LEMMA FlushedBits ==
  ASSUME IInv, NEW t \in Threads, pc[t] = "flush"
  PROVE  /\ Flushed(t) \subseteq map
         /\ \A bit \in map \ Flushed(t) : \E p \in PrimeSet : Strikes(p, ValueOf(bit[1], bit[2]))
         /\ \A y \in 0 .. StageBytes - 1, r \in Residues :
              y \div 4 = next[t] /\ <<PlaceOf(t, ph[t]) + y, r>> \in Flushed(t) =>
                \A p \in PrimeSet : ~Strikes(p, ValueOf(PlaceOf(t, ph[t]) + y, r))
<1> DEFINE place == PlaceOf(t, ph[t])
           base == 4 * (GlobalWord(t) - next[t])
           own == {x \in stage[Block(t)] : Word(x) = next[t]}
           marks == {<<base + x[1], x[2]>> : x \in own}
<1>1. /\ Typed /\ map \subseteq Primed(slab) /\ Block(t) \in Blocks
      /\ stage[Block(t)] \subseteq StageBits
      /\ \A bit \in StageBits : bit \in stage[Block(t)] <=> Struck(t, bit)
      /\ ph[t] < Stages
  BY ThreadFacts DEF IInv, PlaceInv, Placed, StageInv, StageOf, MapInv, Flushes, Active
<1>2. /\ place \in Nat /\ PhaseLo(t) = slab.lo + 30 * place /\ PhaseLo(t) \in Nat
      /\ place = StageBytes * Region(t)
  BY <1>1, WindowFacts
<1>3. base = place
  <2> DEFINE r == Region(t)
             w == StageWords
  <2>1. GlobalWord(t) = w * r + next[t] /\ next[t] \in Nat /\ r \in Nat /\ w \in Nat /\ StageBytes = 4 * w
    BY <1>1, GlobalWordIs, RegionFacts, Geometry DEF Typed
  <2> HIDE DEF r, w, place
  <2>2. w * r \in Int /\ (4 * w) * r = 4 * (w * r)
    BY <2>1, Spread
  <2>3. place = (4 * w) * r
    BY <1>2, <2>1 DEF r
  <2>4. QED BY <2>1, <2>2, <2>3
<1>4. slab.lo \in Nat /\ slab.hi \in Nat /\ BufMin(slab) \in Nat
  BY <1>1, SlabFacts DEF Typed
<1>5. Flushed(t) = IF aligned /\ GlobalWord(t) < FullWords THEN map \ marks
                   ELSE map \ {bit \in marks : bit[1] < BufMin(slab)}
  BY DEF Flushed
<1> HIDE DEF base, marks, place
<1>6. Flushed(t) \subseteq map /\ map \ Flushed(t) \subseteq marks
  BY <1>5
<1>7. ASSUME NEW bit \in marks
      PROVE  \E p \in PrimeSet : Strikes(p, ValueOf(bit[1], bit[2]))
  <2>1. PICK x \in own : bit = <<place + x[1], x[2]>>
    BY <1>3 DEF marks
  <2>2. x \in StageBits /\ Struck(t, x)
    BY <1>1, <2>1
  <2>3. PICK y \in 0 .. StageBytes - 1, r \in Residues : x = <<y, r>>
    BY <2>2 DEF StageBits
  <2>4. y \in Nat /\ r \in Nat
    BY Geometry DEF Residues
  <2>5. bit[1] = place + y /\ bit[2] = r
    BY <2>1, <2>3
  <2>6. ValueOf(bit[1], bit[2]) = PhaseLo(t) + 30 * y + r
    BY <1>2, <1>4, <2>4, <2>5 DEF ValueOf
  <2>7. \E p \in PrimeSet : Strikes(p, PhaseLo(t) + 30 * y + r)
    BY <2>2, <2>3 DEF Struck
  <2>8. QED BY <2>6, <2>7
<1>8. ASSUME NEW y \in 0 .. StageBytes - 1, NEW r \in Residues,
             y \div 4 = next[t], <<place + y, r>> \in Flushed(t),
             NEW p \in PrimeSet, Strikes(p, ValueOf(place + y, r))
      PROVE  FALSE
  <2> DEFINE v == PhaseLo(t) + 30 * y + r
  <2>1. y \in Nat /\ r \in Nat /\ r < 30 /\ y < StageBytes /\ StageBytes \in Nat
    BY Geometry DEF Residues
  <2>2. ValueOf(place + y, r) = v
    BY <1>2, <1>4, <2>1 DEF ValueOf
  <2>3. place + y < BufMin(slab)
    <3>1. <<place + y, r>> \in Primed(slab)
      BY <1>1, <1>6, <1>8
    <3>2. <<place + y, r>> \in (0 .. BufMin(slab) - 1) \X Residues
      BY <3>1 DEF Primed
    <3>3. QED BY <1>4, <3>2
  <2>4. place + y < BlockBase(Block(t)) + BlockSpan
    <3>1. ph[t] \in 0 .. Stages - 1
      BY <1>1, Geometry DEF Typed
    <3>2. QED BY <1>1, <3>1, InBlock DEF place
  <2>5. BlockBase(Block(t)) \in Nat /\ BlockSpan \in Nat
    BY <1>1, RegionFacts, Geometry
  <2>6. place + y < BlockEnd(Block(t)) /\ BlockEnd(Block(t)) \in Nat
    BY <1>1, <1>4, <2>3, <2>4, <2>5, WindowFacts DEF BlockEnd
  <2>7. v < PhaseHi(t)
    <3>1. /\ PhaseHi(t) = BlockHi(Block(t)) \/ PhaseHi(t) = PhaseLo(t) + 30 * StageBytes
          /\ BlockHi(Block(t)) = slab.lo + 30 * BlockEnd(Block(t))
      BY <1>1, WindowFacts
    <3>2. v < PhaseLo(t) + 30 * StageBytes
      BY <1>2, <2>1
    <3>3. v < slab.lo + 30 * BlockEnd(Block(t))
      BY <1>2, <1>4, <2>1, <2>6
    <3>4. QED BY <3>1, <3>2, <3>3
  <2> DEFINE x == <<y, r>>
  <2>8. x \in StageBits /\ x[1] = y /\ x[2] = r
    BY DEF StageBits
  <2>9. Struck(t, x)
    BY <1>8, <2>2, <2>7, <2>8 DEF Struck
  <2>10. x \in own
    BY <1>1, <1>8, <2>8, <2>9 DEF Word
  <2>11. <<place + y, r>> \in marks
    <3>1. <<base + x[1], x[2]>> \in marks
      <4> HIDE DEF own, x
      <4>1. QED BY <2>10 DEF marks
    <3>2. QED BY <1>3, <2>8, <3>1
  <2>12. <<place + y, r>>[1] < BufMin(slab)
    BY <2>3
  <2>13. QED BY <1>5, <1>8, <2>11, <2>12
<1>9. QED BY <1>6, <1>7, <1>8 DEF place

LEMMA FlushStep ==
  ASSUME IInv, NEW t \in Threads, Flush(t)
  PROVE  IInv'
<1>1. /\ Typed /\ pc[t] = "flush" /\ UNCHANGED <<slab, ph, stage, aligned>>
      /\ Placed(t) /\ StageOf(t)
  BY DEF IInv, PlaceInv, StageInv, Flush
<1>2. /\ ThreadsPerBlock \in Nat /\ ThreadsPerBlock > 0 /\ StageWords \in Nat
      /\ StageBytes = 4 * StageWords /\ next[t] \in Nat /\ next[t] % ThreadsPerBlock = Lane(t)
  BY <1>1, Geometry DEF Typed, Placed
<1>3. PICK step \in Flushes, n \in Nat :
        /\ Goto(t, step, n)
        /\ \/ step = "flushed" /\ next[t] >= StageWords /\ map' = map
           \/ step = "flush" /\ n = next[t] + ThreadsPerBlock /\ map' = Flushed(t)
  <2>1. CASE next[t] >= StageWords
    BY <2>1 DEF Flush, Flushes
  <2>2. CASE ~(next[t] >= StageWords)
    <3>1. Goto(t, "flush", next[t] + ThreadsPerBlock) /\ map' = Flushed(t)
      BY <2>2 DEF Flush
    <3>2. next[t] + ThreadsPerBlock \in Nat
      BY <1>2
    <3>3. QED BY <3>1, <3>2 DEF Flushes
  <2>3. QED BY <2>1, <2>2
<1>4. /\ pc'[t] = step /\ next'[t] = n
      /\ \A u \in Threads : u # t => pc'[u] = pc[u] /\ next'[u] = next[u]
  BY <1>1, <1>3, Goes
<1>5. Typed'
  <2>1. step \in {"start", "phase", "zeroed", "cut", "large", "marked", "flush", "flushed", "exit"}
    BY DEF Flushes
  <2>2. pc' = [pc EXCEPT ![t] = step] /\ next' = [next EXCEPT ![t] = n]
    BY <1>3 DEF Goto
  <2>3. QED BY <1>1, <2>1, <2>2 DEF Typed
<1>6. PlaceInv'
  <2>1. ASSUME NEW u \in Threads, u # t PROVE Placed(u)'
    BY <1>1, <1>4, <2>1, PlacedStays DEF IInv, PlaceInv
  <2>2. step = "flush" => n % ThreadsPerBlock = Lane(t)
    BY <1>2, <1>3, StrideNext
  <2>3. Placed(t)'
    BY <1>1, <1>4, <2>2, Frame DEF Placed, Active, Marking, Flushes
  <2>4. QED BY <2>1, <2>3 DEF PlaceInv
<1>7. SyncInv'
  <2>1. SUFFICES ASSUME NEW u \in Threads, NEW v \in Threads, Block(u) = Block(v)
                 PROVE  InStep(u, v)'
    BY DEF SyncInv
  <2>2. InStep(u, v)
    BY <2>1 DEF IInv, SyncInv
  <2>3. \A w \in Threads : /\ pc'[w] \in Marking <=> pc[w] \in Marking
                           /\ pc'[w] \in Flushes <=> pc[w] \in Flushes
    BY <1>1, <1>4 DEF Marking, Flushes
  <2>4. Marking' = Marking /\ Flushes' = Flushes
    BY DEF Marking, Flushes
  <2>5. QED BY <1>1, <2>2, <2>3, <2>4 DEF InStep
<1>8. StageInv'
  <2>1. ASSUME NEW u \in Threads, u # t PROVE StageOf(u)'
    BY <1>1, <1>4, <2>1, StageStays DEF IInv, StageInv
  <2>2. StageOf(t)'
    <3>1. \A bit \in StageBits : bit \in stage[Block(t)] <=> Struck(t, bit)
      BY <1>1 DEF StageOf, Flushes
    <3>2. \A bit \in StageBits : bit \in stage'[Block(t)] <=> Struck(t, bit)'
      BY <1>1, <3>1, Frame
    <3>3. StageBits' = StageBits
      BY DEF StageBits
    <3>4. QED BY <1>4, <3>2, <3>3 DEF StageOf, Marking, Flushes
  <2>3. \A b \in Blocks : stage'[b] \subseteq StageBits
    BY <1>1 DEF IInv, StageInv
  <2>4. StageBits' = StageBits
    BY DEF StageBits
  <2>5. QED BY <2>1, <2>2, <2>3, <2>4 DEF StageInv
<1>9. MapInv'
  <2>1. /\ map' \subseteq map
        /\ \A bit \in map \ map' : \E p \in PrimeSet : Strikes(p, ValueOf(bit[1], bit[2]))
    BY <1>1, <1>3, FlushedBits
  <2>2. Primed(slab)' = Primed(slab) /\ SlabPrimes' = SlabPrimes
    BY <1>1 DEF Primed, Padded, BufMin, SlabPrimes
  <2>3. ASSUME NEW bit \in SlabPrimes PROVE bit \in map'
    <3>1. SUFFICES ASSUME bit \notin map' PROVE FALSE
      OBVIOUS
    <3>2. slab.lo \in Nat /\ BufMin(slab) \in Nat /\ Span \in Nat
      BY <1>1, SlabFacts DEF Typed
    <3>3. PICK p \in PrimeSet : Strikes(p, ValueOf(bit[1], bit[2]))
      BY <2>1, <3>1 DEF IInv, MapInv
    <3>4. bit[1] \in Nat /\ bit[2] \in Nat /\ ValueOf(bit[1], bit[2]) \in Primes
      BY <3>2 DEF SlabPrimes, Residues, ValueOf
    <3>5. ValueOf(bit[1], bit[2]) \in Nat
      BY <3>2, <3>4 DEF ValueOf
    <3>6. QED BY <3>2, <3>3, <3>4, <3>5, StruckIsNoPrime
  <2>4. ASSUME NEW u \in Threads, NEW k \in 0 .. Stages - 1, NEW y \in 0 .. StageBytes - 1,
               NEW r \in Residues, Passed(u, k, y)'
        PROVE  Cleared(u, k, y, r)'
    <3>1. CASE Passed(u, k, y)
      <4>1. Cleared(u, k, y, r)
        BY <3>1 DEF IInv, MapInv
      <4>2. QED BY <1>1, <2>1, <4>1 DEF Cleared, ValueOf, PlaceOf
    <3>2. CASE ~Passed(u, k, y)
      <4>1. u = t /\ k = ph[t] /\ (y \div 4) % ThreadsPerBlock = Lane(t)
        BY <1>1, <1>4, <2>4, <3>2 DEF Passed
      <4>2. y \div 4 \in Nat /\ y \div 4 < StageWords
        BY <1>2
      <4>3. ~(y \div 4 < next[t])
        BY <1>1, <3>2, <4>1 DEF Passed
      <4>4. step = "flush" /\ n = next[t] + ThreadsPerBlock /\ map' = Flushed(t)
        BY <1>2, <1>3, <4>2, <4>3
      <4>5. y \div 4 < n
        BY <1>1, <1>4, <2>4, <4>1, <4>4 DEF Passed
      <4>6. y \div 4 = next[t]
        BY <1>2, <4>1, <4>2, <4>3, <4>4, <4>5, StrideStep
      <4>7. <<PlaceOf(t, ph[t]) + y, r>> \in map' =>
              \A p \in PrimeSet : ~Strikes(p, ValueOf(PlaceOf(t, ph[t]) + y, r))
        BY <1>1, <4>4, <4>6, FlushedBits
      <4>8. QED BY <1>1, <4>1, <4>7 DEF Cleared, ValueOf, PlaceOf
    <3>3. QED BY <3>1, <3>2
  <2>5. QED BY <2>1, <2>2, <2>3, <2>4 DEF IInv, MapInv
<1>10. QED BY <1>5, <1>6, <1>7, <1>8, <1>9 DEF IInv

-----------------------------------------------------------------------------
(* The barriers *)

LEMMA Passes ==
  ASSUME Typed, NEW b \in Blocks, NEW at, NEW to, Pass(b, at, to)
  PROVE  /\ \A t \in Threads : Block(t) = b => pc[t] = at /\ pc'[t] = to
         /\ \A t \in Threads : Block(t) # b => pc'[t] = pc[t]
         /\ DOMAIN pc' = Threads
         /\ \A t \in Threads : t \in Lanes(b) <=> Block(t) = b
  BY DEF Pass, Lanes

LEMMA BarrierSync ==
  ASSUME IInv, NEW b \in Blocks, NEW at, NEW to, Pass(b, at, to),
         \A t, u \in Threads : Block(t) = Block(u) => ph'[t] = ph'[u]
  PROVE  SyncInv'
<1>1. SUFFICES ASSUME NEW u \in Threads, NEW v \in Threads, Block(u) = Block(v)
               PROVE  InStep(u, v)'
  BY DEF SyncInv
<1>2. InStep(u, v)
  BY <1>1 DEF IInv, SyncInv
<1>3. Marking' = Marking /\ Flushes' = Flushes
  BY DEF Marking, Flushes
<1>4. CASE Block(u) = b
  <2>1. pc'[u] = to /\ pc'[v] = to
    <3>1. \A t \in Threads : Block(t) = b => pc[t] = at /\ pc'[t] = to
      BY Passes DEF IInv
    <3>2. QED BY <1>1, <1>4, <3>1
  <2>2. QED BY <1>1, <1>3, <2>1 DEF InStep
<1>5. CASE Block(u) # b
  <2>1. pc'[u] = pc[u] /\ pc'[v] = pc[v]
    BY <1>1, <1>5, Passes DEF IInv
  <2>2. QED BY <1>1, <1>2, <1>3, <2>1 DEF InStep
<1>6. QED BY <1>4, <1>5

\* A block of threads of every lane.
LEMMA LaneTaken ==
  ASSUME NEW b \in Blocks, NEW n \in Nat
  PROVE  \E t \in Threads : Block(t) = b /\ Lane(t) = n % ThreadsPerBlock
<1>1. n % ThreadsPerBlock \in 0 .. ThreadsPerBlock - 1
  BY Geometry
<1>2. <<b, n % ThreadsPerBlock>> \in Threads
  BY <1>1 DEF Threads
<1>3. QED BY <1>2 DEF Block, Lane

\* All lanes have zeroed: the stage is empty.
LEMMA ZeroedStep ==
  ASSUME IInv, NEW b \in Blocks, Pass(b, "zeroed", "cut"),
         UNCHANGED <<ph, next, slab, aligned, stage, map>>
  PROVE  IInv'
<1>1. /\ Typed
      /\ \A t \in Threads : Block(t) = b => pc[t] = "zeroed" /\ pc'[t] = "cut"
      /\ \A t \in Threads : Block(t) # b => pc'[t] = pc[t]
  BY Passes DEF IInv
<1>2. Typed'
  <2>1. pc' \in [Threads -> {"start", "phase", "zeroed", "cut", "large", "marked",
                             "flush", "flushed", "exit"}]
    BY <1>1 DEF Typed, Pass
  <2>2. QED BY <1>1, <2>1 DEF Typed
<1>3. PlaceInv'
  <2>1. ASSUME NEW t \in Threads PROVE Placed(t)'
    <3>1. Placed(t)
      BY DEF IInv, PlaceInv
    <3>2. CASE Block(t) = b
      <4>1. next[t] = 0 /\ SmallCut >= 0
        <5>1. SmallCut \in 0 .. NumList /\ NumList \in Nat
          BY SlabsAssumption, ListFacts
        <5>2. QED BY <1>1, <3>1, <3>2, <5>1 DEF Placed
      <4>2. QED BY <1>1, <3>1, <3>2, <4>1, Frame DEF Placed, Active, Marking, Flushes
    <3>3. CASE Block(t) # b
      BY <1>1, <3>1, <3>3, PlacedStays
    <3>4. QED BY <3>2, <3>3
  <2>2. QED BY <2>1 DEF PlaceInv
<1>4. SyncInv'
  <2>1. \A t, u \in Threads : Block(t) = Block(u) => ph'[t] = ph'[u]
    BY DEF IInv, SyncInv, InStep
  <2>2. QED BY <2>1, BarrierSync
<1>5. StageInv'
  <2>1. stage[b] = {}
    <3>1. SUFFICES ASSUME NEW bit \in stage[b] PROVE FALSE
      OBVIOUS
    <3>2. bit \in StageBits
      BY DEF IInv, StageInv
    <3>3. bit[1] \in 0 .. StageBytes - 1 /\ StageBytes = 4 * StageWords /\ StageWords \in Nat
      BY <3>2, Geometry DEF StageBits
    <3>4. Word(bit) \in 0 .. StageWords - 1 /\ Word(bit) \in Nat
      BY <3>3 DEF Word
    <3>5. PICK t \in Threads : Block(t) = b /\ Lane(t) = Word(bit) % ThreadsPerBlock
      BY <3>4, LaneTaken
    <3>6. Word(bit) \in Strided(t)
      BY <3>4, <3>5 DEF Strided
    <3>7. StageOf(t) /\ pc[t] = "zeroed"
      BY <1>1, <3>5 DEF IInv, StageInv
    <3>8. QED BY <3>1, <3>5, <3>6, <3>7 DEF StageOf
  <2>2. ASSUME NEW t \in Threads PROVE StageOf(t)'
    <3>1. CASE Block(t) = b
      <4>1. next[t] = 0 /\ pc'[t] = "cut"
        BY <1>1, <3>1 DEF IInv, PlaceInv, Placed
      <4>2. CutDone(t, 0)'
        BY DEF CutDone
      <4>3. CutDone(t, next[t])'
        BY <4>1, <4>2
      <4>4. QED BY <2>1, <3>1, <4>1, <4>3 DEF StageOf, Marking, Flushes
    <3>2. CASE Block(t) # b
      BY <1>1, <3>2, StageStays DEF IInv, StageInv
    <3>3. QED BY <3>1, <3>2
  <2>3. StageBits' = StageBits
    BY DEF StageBits
  <2>4. QED BY <2>2, <2>3 DEF IInv, StageInv
<1>6. MapInv'
  <2>1. ASSUME NEW t \in Threads, NEW k, NEW y, Passed(t, k, y)' PROVE Passed(t, k, y)
    <3>1. CASE Block(t) = b
      BY <1>1, <2>1, <3>1 DEF Passed
    <3>2. CASE Block(t) # b
      BY <1>1, <2>1, <3>2 DEF Passed
    <3>3. QED BY <3>1, <3>2
  <2>2. QED BY <2>1, MapStays DEF IInv
<1>7. QED BY <1>2, <1>3, <1>4, <1>5, <1>6 DEF IInv

\* All lanes have marked: the stage has every bit that is struck.
LEMMA StageIsStruck ==
  ASSUME IInv, NEW t \in Threads,
         \A u \in Threads : Block(u) = Block(t) => pc[u] = "marked",
         NEW bit \in StageBits
  PROVE  bit \in stage[Block(t)] <=> Struck(t, bit)
<1>1. Typed /\ StageOf(t) /\ pc[t] = "marked" /\ Block(t) \in Blocks
  BY ThreadFacts DEF IInv, StageInv
<1>2. bit \in stage[Block(t)] => Struck(t, bit)
  BY <1>1 DEF StageOf, Marking
<1>3. SUFFICES ASSUME Struck(t, bit) PROVE bit \in stage[Block(t)]
  BY <1>2
<1>4. PICK y \in 0 .. StageBytes - 1, r \in Residues : bit = <<y, r>>
  BY DEF StageBits
<1> DEFINE v == PhaseLo(t) + 30 * y + r
<1>5. v < PhaseHi(t) /\ \E p \in PrimeSet : Strikes(p, v)
  BY <1>3, <1>4 DEF Struck
<1>6. PICK p \in PrimeSet : Strikes(p, v)
  BY <1>5
<1>7. Span \in Nat /\ NumList \in Nat /\ SmallCut \in 0 .. NumList
  BY SlabsAssumption, ListFacts
<1>8. PICK i \in 0 .. NumList - 1 : PrimeList[i] = p
  BY <1>7, ListFacts
<1>9. /\ PhaseLo(t) \in Nat /\ PhaseLo(t) % 30 = 0 /\ PhaseHi(t) \in Nat
      /\ y \in Nat /\ r \in Nat /\ r < 30 /\ StageBytes \in Nat
  BY <1>1, WindowFacts, Geometry DEF Residues
<1>10. v \in Nat /\ v % 30 = r /\ BitOf(v, PhaseLo(t)) = bit
  <2>1. v \in Nat
    BY <1>9
  <2>2. QED BY <1>4, <1>9, <2>1, BitPlace
<1> HIDE DEF v
<1>11. CASE i < SmallCut
  <2> DEFINE l == y \div SliceBytes
  <2>1. /\ SliceBytes \in Nat /\ SliceBytes > 0 /\ ThreadsPerBlock \in Nat /\ ThreadsPerBlock > 0
        /\ StageBytes = ThreadsPerBlock * SliceBytes
    BY Geometry
  <2>2. l \in Int /\ SliceBytes * l <= y /\ y < SliceBytes * l + SliceBytes
    BY <1>9, <2>1, DivBounds
  <2> HIDE DEF l
  <2>3. l \in 0 .. ThreadsPerBlock - 1 /\ SliceBytes * l \in Nat
    <3>1. SliceBytes * (l + 1) > 0 /\ SliceBytes * (l + 1) = SliceBytes * l + SliceBytes
          /\ SliceBytes * l \in Int
      <4>1. SliceBytes * (l + 1) = SliceBytes * l + SliceBytes /\ SliceBytes * l \in Int
        BY <2>1, <2>2
      <4>2. QED BY <1>9, <2>1, <2>2, <4>1
    <3>2. l + 1 \in Int /\ l + 1 > 0
      BY <2>1, <2>2, <3>1, FactorPositive
    <3>3. SliceBytes * (ThreadsPerBlock - l) > 0
      <4>1. SliceBytes * (ThreadsPerBlock - l) = SliceBytes * ThreadsPerBlock - SliceBytes * l
            /\ SliceBytes * ThreadsPerBlock = ThreadsPerBlock * SliceBytes
        BY <2>1, <2>2
      <4>2. y < StageBytes
        BY <1>9
      <4>3. QED BY <1>9, <2>1, <2>2, <3>1, <4>1, <4>2
    <3>4. ThreadsPerBlock - l \in Int /\ ThreadsPerBlock - l > 0
      BY <2>1, <2>2, <3>3, FactorPositive
    <3>5. l \in Nat
      BY <2>2, <3>2
    <3>6. SliceBytes * l >= 0
      BY <2>1, <3>5, FactorPositive
    <3>7. QED BY <2>1, <3>1, <3>4, <3>5, <3>6
  <2>4. PICK u \in Threads : Block(u) = Block(t) /\ Lane(u) = l
    <3>1. <<Block(t), l>> \in Threads
      BY <1>1, <2>3 DEF Threads
    <3>2. QED BY <3>1 DEF Block, Lane
  <2>5. ph[u] = ph[t] /\ pc[u] = "marked" /\ StageOf(u)
    BY <2>4 DEF IInv, SyncInv, InStep, StageInv
  <2>6. PhaseLo(u) = PhaseLo(t) /\ PhaseHi(u) = PhaseHi(t)
    <3>1. PhaseLo(u) = PhaseLo(t)
      BY <2>4, <2>5 DEF PhaseLo
    <3>2. QED BY <2>4, <3>1 DEF PhaseHi
  <2>7. /\ SliceLo(u) = PhaseLo(t) + 30 * (SliceBytes * l) /\ SliceHi(u) \in Nat
        /\ SliceHi(u) = PhaseHi(t) \/ SliceHi(u) = SliceLo(u) + 30 * SliceBytes
    BY <1>1, <2>4, <2>6, WindowFacts
  <2>8. v >= SliceLo(u) /\ v < SliceHi(u) /\ SliceLo(u) \in Nat
    BY <1>5, <1>9, <2>1, <2>2, <2>3, <2>7 DEF v
  <2>9. v \in SliceLo(u) .. SliceHi(u) - 1
    BY <1>10, <2>7, <2>8
  <2>10. v \in Walked(PrimeList[i], SliceLo(u), SliceHi(u))
    BY <1>6, <1>8, <1>10, <2>9 DEF Walked
  <2>11. HasWalked(u, i, SliceLo(u), SliceHi(u))
    BY <1>7, <1>11, <2>5 DEF StageOf, CutDone
  <2>12. QED BY <1>10, <2>4, <2>6, <2>10, <2>11 DEF HasWalked
<1>12. CASE ~(i < SmallCut)
  <2>1. i - SmallCut \in Nat /\ i \in SmallCut .. NumList - 1 /\ i < NumList
    BY <1>7, <1>12
  <2>2. PICK u \in Threads : Block(u) = Block(t) /\ Lane(u) = (i - SmallCut) % ThreadsPerBlock
    BY <1>1, <2>1, LaneTaken
  <2>3. ph[u] = ph[t] /\ pc[u] = "marked" /\ StageOf(u)
    BY <2>2 DEF IInv, SyncInv, InStep, StageInv
  <2>4. PhaseLo(u) = PhaseLo(t) /\ PhaseHi(u) = PhaseHi(t)
    <3>1. PhaseLo(u) = PhaseLo(t)
      BY <2>2, <2>3 DEF PhaseLo
    <3>2. QED BY <2>2, <3>1 DEF PhaseHi
  <2>5. v >= PhaseLo(t)
    BY <1>9 DEF v
  <2>6. v \in PhaseLo(u) .. PhaseHi(u) - 1
    BY <1>5, <1>9, <1>10, <2>4, <2>5
  <2>7. v \in Walked(PrimeList[i], PhaseLo(u), PhaseHi(u))
    BY <1>6, <1>8, <1>10, <2>6 DEF Walked
  <2>8. HasWalked(u, i, PhaseLo(u), PhaseHi(u))
    BY <2>1, <2>2, <2>3 DEF StageOf, LargeDone
  <2>9. QED BY <1>10, <2>2, <2>4, <2>7, <2>8 DEF HasWalked
<1>13. QED BY <1>11, <1>12

LEMMA MarkedStep ==
  ASSUME IInv, NEW b \in Blocks, Pass(b, "marked", "flush"),
         next' = [t \in Threads |-> IF t \in Lanes(b) THEN Lane(t) ELSE next[t]],
         UNCHANGED <<ph, slab, aligned, stage, map>>
  PROVE  IInv'
<1>1. /\ Typed
      /\ \A t \in Threads : Block(t) = b =>
           pc[t] = "marked" /\ pc'[t] = "flush" /\ next'[t] = Lane(t)
      /\ \A t \in Threads : Block(t) # b => pc'[t] = pc[t] /\ next'[t] = next[t]
  BY Passes DEF IInv
<1>2. ThreadsPerBlock \in Nat /\ ThreadsPerBlock > 0
      /\ \A t \in Threads : /\ Lane(t) \in 0 .. ThreadsPerBlock - 1
                            /\ Lane(t) % ThreadsPerBlock = Lane(t)
  <2>1. ThreadsPerBlock \in Nat /\ ThreadsPerBlock > 0
    BY Geometry
  <2>2. ASSUME NEW t \in Threads
        PROVE  Lane(t) \in 0 .. ThreadsPerBlock - 1 /\ Lane(t) % ThreadsPerBlock = Lane(t)
    <3>1. Lane(t) \in 0 .. ThreadsPerBlock - 1
      BY ThreadFacts
    <3>2. QED BY <2>1, <3>1, StrideNext
  <2>3. QED BY <2>1, <2>2
<1>3. Typed'
  <2>1. pc' \in [Threads -> {"start", "phase", "zeroed", "cut", "large", "marked",
                             "flush", "flushed", "exit"}]
    BY <1>1 DEF Typed, Pass
  <2>2. next' \in [Threads -> Nat]
    BY <1>1, <1>2 DEF Typed
  <2>3. QED BY <1>1, <2>1, <2>2 DEF Typed
<1>4. PlaceInv'
  <2>1. ASSUME NEW t \in Threads PROVE Placed(t)'
    <3>1. Placed(t)
      BY DEF IInv, PlaceInv
    <3>2. CASE Block(t) = b
      BY <1>1, <1>2, <3>1, <3>2, Frame DEF Placed, Active, Marking, Flushes
    <3>3. CASE Block(t) # b
      BY <1>1, <3>1, <3>3, PlacedStays
    <3>4. QED BY <3>2, <3>3
  <2>2. QED BY <2>1 DEF PlaceInv
<1>5. SyncInv'
  <2>1. \A t, u \in Threads : Block(t) = Block(u) => ph'[t] = ph'[u]
    BY DEF IInv, SyncInv, InStep
  <2>2. QED BY <2>1, BarrierSync
<1>6. StageInv'
  <2>1. ASSUME NEW t \in Threads PROVE StageOf(t)'
    <3>1. CASE Block(t) = b
      <4>1. \A bit \in StageBits : bit \in stage[Block(t)] <=> Struck(t, bit)
        BY <1>1, <3>1, StageIsStruck
      <4>2. \A bit \in StageBits : bit \in stage'[Block(t)] <=> Struck(t, bit)'
        BY <4>1, Frame
      <4>3. StageBits' = StageBits /\ pc'[t] = "flush"
        BY <1>1, <3>1 DEF StageBits
      <4>4. QED BY <4>2, <4>3 DEF StageOf, Marking, Flushes
    <3>2. CASE Block(t) # b
      BY <1>1, <3>2, StageStays DEF IInv, StageInv
    <3>3. QED BY <3>1, <3>2
  <2>2. StageBits' = StageBits
    BY DEF StageBits
  <2>3. QED BY <2>1, <2>2 DEF IInv, StageInv
<1>7. MapInv'
  <2>1. ASSUME NEW t \in Threads, NEW k \in 0 .. Stages - 1, NEW y \in 0 .. StageBytes - 1,
               Passed(t, k, y)'
        PROVE  Passed(t, k, y)
    <3>1. CASE Block(t) = b
      <4>1. ~(y \div 4 < Lane(t))
        <5>1. y \div 4 \in Nat /\ (y \div 4) % ThreadsPerBlock = Lane(t)
          BY <2>1, Geometry DEF Passed
        <5>2. y \div 4 < ThreadsPerBlock => y \div 4 = Lane(t)
          BY <1>2, <5>1, StrideNext
        <5>3. QED BY <1>2, <5>1, <5>2
      <4>2. pc'[t] = "flush" /\ next'[t] = Lane(t)
        BY <1>1, <3>1
      <4>3. QED BY <2>1, <4>1, <4>2 DEF Passed
    <3>2. CASE Block(t) # b
      BY <1>1, <2>1, <3>2 DEF Passed
    <3>3. QED BY <3>1, <3>2
  <2>2. QED BY <2>1, MapStays DEF IInv
<1>8. QED BY <1>3, <1>4, <1>5, <1>6, <1>7 DEF IInv

LEMMA FlushedStep ==
  ASSUME IInv, NEW b \in Blocks, Pass(b, "flushed", "phase"),
         ph' = [t \in Threads |-> IF t \in Lanes(b) THEN ph[t] + 1 ELSE ph[t]],
         UNCHANGED <<next, slab, aligned, stage, map>>
  PROVE  IInv'
<1>1. /\ Typed
      /\ \A t \in Threads : Block(t) = b =>
           pc[t] = "flushed" /\ pc'[t] = "phase" /\ ph'[t] = ph[t] + 1
      /\ \A t \in Threads : Block(t) # b => pc'[t] = pc[t] /\ ph'[t] = ph[t]
  BY Passes DEF IInv
<1>2. \A t \in Threads : ph[t] \in Nat
  BY <1>1 DEF Typed
<1>3. Typed'
  <2>1. pc' \in [Threads -> {"start", "phase", "zeroed", "cut", "large", "marked",
                             "flush", "flushed", "exit"}]
    BY <1>1 DEF Typed, Pass
  <2>2. ph' \in [Threads -> Nat]
    BY <1>2
  <2>3. QED BY <1>1, <2>1, <2>2 DEF Typed
<1>4. PlaceInv'
  <2>1. ASSUME NEW t \in Threads PROVE Placed(t)'
    <3>1. Placed(t)
      BY DEF IInv, PlaceInv
    <3>2. CASE Block(t) = b
      <4>1. BlockBase(Block(t)) < BufMin(slab)
        BY <1>1, <3>1, <3>2 DEF Placed, Active, Flushes
      <4>2. (BlockBase(Block(t)) < BufMin(slab))'
        BY <4>1 DEF BufMin
      <4>3. QED BY <1>1, <3>2, <4>2 DEF Placed, Active, Marking, Flushes
    <3>3. CASE Block(t) # b
      BY <1>1, <3>1, <3>3, PlacedStays
    <3>4. QED BY <3>2, <3>3
  <2>2. QED BY <2>1 DEF PlaceInv
<1>5. SyncInv'
  <2>1. ASSUME NEW t \in Threads, NEW u \in Threads, Block(t) = Block(u)
        PROVE  ph'[t] = ph'[u]
    <3>1. ph[t] = ph[u]
      BY <2>1 DEF IInv, SyncInv, InStep
    <3>2. QED BY <1>1, <2>1, <3>1
  <2>2. QED BY <2>1, BarrierSync
<1>6. StageInv'
  <2>1. ASSUME NEW t \in Threads PROVE StageOf(t)'
    <3>1. CASE Block(t) = b
      BY <1>1, <3>1 DEF StageOf, Marking, Flushes
    <3>2. CASE Block(t) # b
      BY <1>1, <3>2, StageStays DEF IInv, StageInv
    <3>3. QED BY <3>1, <3>2
  <2>2. StageBits' = StageBits
    BY DEF StageBits
  <2>3. QED BY <2>1, <2>2 DEF IInv, StageInv
<1>7. MapInv'
  <2>1. ASSUME NEW t \in Threads, NEW k \in 0 .. Stages - 1, NEW y \in 0 .. StageBytes - 1,
               Passed(t, k, y)'
        PROVE  Passed(t, k, y)
    <3>1. CASE Block(t) = b
      <4>1. k < ph[t] + 1 /\ k \in Int /\ (y \div 4) % ThreadsPerBlock = Lane(t)
        BY <1>1, <2>1, <3>1 DEF Passed
      <4>2. k < ph[t] \/ k = ph[t]
        BY <1>2, <4>1
      <4>3. QED BY <1>1, <3>1, <4>1, <4>2 DEF Passed
    <3>2. CASE Block(t) # b
      BY <1>1, <2>1, <3>2 DEF Passed
    <3>3. QED BY <3>1, <3>2
  <2>2. QED BY <2>1, MapStays DEF IInv
<1>8. QED BY <1>3, <1>4, <1>5, <1>6, <1>7 DEF IInv

-----------------------------------------------------------------------------
(* The invariant *)

LEMMA InitInv == Init => IInv
<1> SUFFICES ASSUME Init PROVE IInv
  OBVIOUS
<1>1. /\ slab \in Slabs /\ aligned \in BOOLEAN /\ map = Primed(slab)
      /\ pc = [t \in Threads |-> IF Block(t) < NumBlocks(slab) THEN "start" ELSE "exit"]
      /\ ph = [t \in Threads |-> 0] /\ next = [t \in Threads |-> 0]
  BY DEF Init
<1>2. PICK garbage \in {{}, {<<0, 7>>}} : stage = [b \in Blocks |-> garbage]
  BY DEF Init
<1>3. Typed
  BY <1>1, <1>2 DEF Typed
<1>4. \A t \in Threads : pc[t] \in {"start", "exit"} /\ ph[t] = 0
  BY <1>1
<1>5. PlaceInv
  <2>1. ASSUME NEW t \in Threads, pc[t] = "exit" PROVE Finished(t)
    <3>1. /\ Block(t) \in Nat /\ NumBlocks(slab) \in Nat /\ BufMin(slab) \in Nat
          /\ BlockBase(Block(t)) = BlockSpan * Block(t) /\ BlockBase(Block(t)) \in Nat
      BY <1>1, <1>3, ThreadFacts, SlabFacts, RegionFacts
    <3>2. ~(Block(t) < NumBlocks(slab))
      BY <1>1, <2>1
    <3>3. ~(BlockSpan * Block(t) < BufMin(slab))
      BY <1>1, <3>1, <3>2, BlocksCover
    <3>4. BlockBase(Block(t)) >= BufMin(slab)
      BY <3>1, <3>3
    <3>5. QED BY <3>4 DEF Finished
  <2>2. QED BY <1>4, <2>1 DEF PlaceInv, Placed, Active, Marking, Flushes
<1>6. SyncInv
  BY <1>4 DEF SyncInv, InStep, Marking, Flushes
<1>7. StageInv
  <2>1. {<<0, 7>>} \subseteq StageBits
    BY Geometry DEF StageBits, Residues
  <2>2. \A b \in Blocks : stage[b] \subseteq StageBits
    BY <1>2, <2>1
  <2>3. QED BY <1>4, <2>2 DEF StageInv, StageOf, Marking, Flushes
<1>8. MapInv
  <2>1. SlabPrimes \subseteq map
    <3>1. ASSUME NEW bit \in SlabPrimes PROVE bit \in Primed(slab)
      <4>1. /\ bit \in (0 .. BufMin(slab) - 1) \X Residues
            /\ slab.lo + 30 * bit[1] + bit[2] < slab.hi
            /\ slab.lo + 30 * bit[1] + bit[2] \in Primes
        BY DEF SlabPrimes
      <4>2. slab.lo = 0 => bit # <<0, 1>>
        <5>1. SUFFICES ASSUME slab.lo = 0, bit = <<0, 1>> PROVE FALSE
          OBVIOUS
        <5>2. slab.lo + 30 * bit[1] + bit[2] = 1
          BY <5>1
        <5>3. 1 \in Primes
          BY <4>1, <5>2
        <5>4. QED BY <5>3 DEF Primes
      <4>3. QED BY <4>1, <4>2 DEF Primed
    <3>2. QED BY <1>1, <3>1
  <2>2. ASSUME NEW t \in Threads, NEW k \in 0 .. Stages - 1, NEW y PROVE ~Passed(t, k, y)
    BY <1>4 DEF Passed
  <2>3. QED BY <1>1, <2>1, <2>2 DEF MapInv
<1>9. QED BY <1>3, <1>5, <1>6, <1>7, <1>8 DEF IInv

LEMMA StutterStep ==
  ASSUME IInv, UNCHANGED vars
  PROVE  IInv'
<1>1. /\ slab' = slab /\ aligned' = aligned /\ pc' = pc /\ ph' = ph /\ next' = next
      /\ stage' = stage /\ map' = map
  BY DEF vars
<1>2. Typed'
  BY <1>1 DEF IInv, Typed
<1>3. PlaceInv'
  BY <1>1, PlacedStays DEF IInv, PlaceInv
<1>4. SyncInv'
  BY <1>1 DEF IInv, SyncInv, InStep, Marking, Flushes
<1>5. StageInv'
  <2>1. StageBits' = StageBits
    BY DEF StageBits
  <2>2. \A t \in Threads : StageOf(t)'
    BY <1>1, StageStays DEF IInv, StageInv
  <2>3. QED BY <1>1, <2>1, <2>2 DEF IInv, StageInv
<1>6. MapInv'
  <2>1. \A t \in Threads, k \in 0 .. Stages - 1, y \in 0 .. StageBytes - 1 :
          Passed(t, k, y)' => Passed(t, k, y)
    BY <1>1 DEF Passed
  <2>2. QED BY <1>1, <2>1, MapStays DEF IInv
<1>7. QED BY <1>2, <1>3, <1>4, <1>5, <1>6 DEF IInv

LEMMA NextInv == IInv /\ [Next]_vars => IInv'
<1> SUFFICES ASSUME IInv, [Next]_vars PROVE IInv'
  OBVIOUS
<1>1. ASSUME NEW t \in Threads, Thread(t) PROVE IInv'
  BY <1>1, StartStep, PhaseStep, CutPrimeStep, LargePrimeStep, FlushStep DEF Thread
<1>2. ASSUME NEW b \in Blocks, Barrier(b) PROVE IInv'
  BY <1>2, ZeroedStep, MarkedStep, FlushedStep DEF Barrier
<1>3. CASE Done \/ UNCHANGED vars
  BY <1>3, StutterStep DEF Done
<1>4. QED BY <1>1, <1>2, <1>3 DEF Next

LEMMA Invariance == Spec => []IInv
BY InitInv, NextInv, PTL DEF Spec

-----------------------------------------------------------------------------
(* The theorems *)

LEMMA OwnersDiffer ==
  ASSUME IInv
  PROVE  WordsHaveOneOwner
<1> SUFFICES ASSUME NEW t \in Flushing, NEW u \in Flushing, GlobalWord(t) = GlobalWord(u)
             PROVE  t = u
  BY DEF WordsHaveOneOwner
<1>1. /\ Typed /\ t \in Threads /\ u \in Threads
      /\ next[t] < StageWords /\ next[u] < StageWords
      /\ next[t] % ThreadsPerBlock = Lane(t) /\ next[u] % ThreadsPerBlock = Lane(u)
      /\ ph[t] < Stages /\ ph[u] < Stages
  BY DEF IInv, PlaceInv, Placed, Flushing, Active, Flushes
<1>2. /\ Region(t) \in Nat /\ Region(u) \in Nat /\ StageWords \in Nat /\ StageWords > 0
      /\ next[t] \in 0 .. StageWords - 1 /\ next[u] \in 0 .. StageWords - 1
  BY <1>1, RegionFacts, Geometry DEF Typed
<1>3. StageWords * Region(t) + next[t] = StageWords * Region(u) + next[u]
  BY <1>1, GlobalWordIs
<1>4. Region(t) = Region(u) /\ next[t] = next[u]
  BY <1>2, <1>3, SamePlace
<1>5. Block(t) = Block(u) /\ Lane(t) = Lane(u)
  BY <1>1, <1>4, RegionUnique
<1>6. QED BY <1>1, <1>5, ThreadFacts

\* Two threads that flush at the same time are never at the same word.
THEOREM WordsAreOwned == Spec => []WordsHaveOneOwner
BY Invariance, OwnersDiffer, PTL

\* No slab is a map of one byte, whose padding brings the value 1 back.
NoOneByteMap == \A s \in Slabs : s.lo = 0 => s.hi >= 30

\* Every byte of the slab is one some thread passed before it left.
LEMMA EveryBytePassed ==
  ASSUME IInv, \A t \in Threads : pc[t] = "exit", NEW x \in 0 .. BufMin(slab) - 1
  PROVE  \E t \in Threads, k \in 0 .. Stages - 1, y \in 0 .. StageBytes - 1 :
           Passed(t, k, y) /\ x = PlaceOf(t, k) + y
<1> DEFINE D == BlockSpan
           B == StageBytes
           b == x \div D
           z == x % D
           k == z \div B
           y == z % B
<1>1. /\ D \in Nat /\ D > 0 /\ B \in Nat /\ B > 0 /\ Stages \in Nat /\ Stages > 0
      /\ D = Stages * B /\ B = 4 * StageWords /\ StageWords \in Nat
  BY Geometry
<1>2. /\ Typed /\ slab \in Slabs /\ slab.lo \in Nat /\ BufMin(slab) \in Nat
      /\ x \in Nat /\ x < BufMin(slab)
  BY SlabFacts DEF IInv, Typed
<1> HIDE DEF D, B
<1>3. b \in Int /\ z \in Nat /\ z < D /\ x = D * b + z /\ D * b \in Int
  BY <1>1, <1>2
<1> HIDE DEF b, z
<1>4. b \in Nat
  <2>1. D * (b + 1) > 0
    <3>1. D * (b + 1) = D * b + D
      BY <1>1, <1>3
    <3>2. QED BY <1>1, <1>2, <1>3, <3>1
  <2>2. b + 1 > 0
    <3>1. b + 1 \in Int
      BY <1>3
    <3>2. QED BY <1>1, <2>1, <3>1, FactorPositive
  <2>3. QED BY <1>3, <2>2
<1>5. k \in Int /\ y \in Nat /\ y < B /\ z = B * k + y /\ B * k \in Int
  BY <1>1, <1>3
<1> HIDE DEF k, y
<1>6. k \in 0 .. Stages - 1
  <2>1. B * (k + 1) > 0 /\ B * (Stages - k) > 0
    <3>1. B * (k + 1) = B * k + B /\ B * (Stages - k) = B * Stages - B * k
          /\ B * Stages = Stages * B
      BY <1>1, <1>5
    <3>2. QED BY <1>1, <1>3, <1>5, <3>1
  <2>2. k + 1 > 0 /\ Stages - k > 0
    <3>1. k + 1 \in Int /\ Stages - k \in Int
      BY <1>1, <1>5
    <3>2. QED BY <1>1, <2>1, <3>1, FactorPositive
  <2>3. QED BY <1>1, <1>5, <2>2
<1>7. b \in Blocks
  <2>1. D * b < BufMin(slab)
    BY <1>2, <1>3
  <2>2. b < NumBlocks(slab) /\ NumBlocks(slab) \in Nat
    BY <1>2, <1>4, <2>1, BlocksCover, SlabFacts DEF D
  <2>3. b \in 0 .. NumBlocks(slab) - 1
    BY <1>4, <2>2
  <2>4. QED BY <1>2, <2>3 DEF Blocks
<1>8. y \div 4 \in Nat
  BY <1>5
<1>9. PICK t \in Threads : Block(t) = b /\ Lane(t) = (y \div 4) % ThreadsPerBlock
  BY <1>7, <1>8, LaneTaken
<1>10. y \in 0 .. StageBytes - 1 /\ x = PlaceOf(t, k) + y
  <2>1. BlockBase(Block(t)) = D * b
    BY <1>4, <1>9, BaseIs DEF D
  <2>2. PlaceOf(t, k) = D * b + k * B /\ k * B = B * k
    BY <1>1, <1>5, <2>1 DEF PlaceOf, B
  <2>3. x = PlaceOf(t, k) + y
    BY <1>3, <1>5, <2>2
  <2>4. QED BY <1>1, <1>5, <2>3 DEF B
<1>11. k < ph[t]
  <2>1. Finished(t) /\ ph[t] \in Nat
    BY <1>2 DEF IInv, PlaceInv, Placed, Typed
  <2>2. BlockBase(Block(t)) \in Nat /\ BlockBase(Block(t)) = D * b
    BY <1>2, <1>9, RegionFacts DEF D
  <2>3. ~(BlockBase(Block(t)) >= BufMin(slab))
    BY <1>2, <1>3, <2>2
  <2>4. CASE ph[t] >= Stages
    BY <1>1, <1>6, <2>1, <2>4
  <2>5. CASE PhaseLo(t) >= BlockHi(Block(t))
    <3>1. SUFFICES ASSUME ph[t] <= k PROVE FALSE
      BY <1>6, <2>1
    <3>2. /\ PhaseLo(t) = slab.lo + 30 * PlaceOf(t, ph[t]) /\ PlaceOf(t, ph[t]) \in Nat
          /\ BlockHi(Block(t)) = slab.lo + 30 * BlockEnd(Block(t)) /\ BlockEnd(Block(t)) \in Nat
      BY <1>2, WindowFacts
    <3>3. PlaceOf(t, ph[t]) <= x
      <4>1. PlaceOf(t, ph[t]) = D * b + ph[t] * B
        BY <2>2 DEF PlaceOf, B
      <4>2. B * (k - ph[t]) >= 0
        <5>1. k - ph[t] \in Int /\ k - ph[t] >= 0
          BY <1>6, <2>1, <3>1
        <5>2. QED BY <1>1, <5>1, FactorPositive
      <4>3. B * (k - ph[t]) = B * k - ph[t] * B /\ ph[t] * B \in Int
        BY <1>1, <1>5, <2>1
      <4>4. QED BY <1>3, <1>5, <4>1, <4>2, <4>3
    <3>4. x < BlockEnd(Block(t))
      BY <1>1, <1>2, <1>3, <2>2 DEF BlockEnd, D
    <3>5. QED BY <1>2, <2>5, <3>2, <3>3, <3>4
  <2>6. QED BY <2>1, <2>3, <2>4, <2>5 DEF Finished
<1>12. Passed(t, k, y)
  BY <1>9, <1>11 DEF Passed
<1>13. QED BY <1>6, <1>10, <1>12

LEMMA OnlyPrimesAreLeft ==
  ASSUME IInv, NoOneByteMap, \A t \in Threads : pc[t] = "exit"
  PROVE  map \subseteq SlabPrimes
<1> SUFFICES ASSUME NEW bit \in map PROVE bit \in SlabPrimes
  OBVIOUS
<1>1. /\ Typed /\ slab \in Slabs /\ slab.lo \in Nat /\ slab.hi \in Nat /\ slab.lo % 30 = 0
      /\ slab.hi <= Span /\ Span \in Nat /\ BufMin(slab) \in Nat
  BY SlabFacts DEF IInv, Typed
<1>2. bit \in Primed(slab)
  BY DEF IInv, MapInv
<1>3. PICK x \in 0 .. BufMin(slab) - 1, r \in Residues : bit = <<x, r>>
  BY <1>2 DEF Primed
<1> DEFINE v == slab.lo + 30 * x + r
<1>4. /\ v < slab.hi
      /\ slab.lo = 0 /\ ~(BufMin(slab) = 1 /\ Padded(slab)) => ~(x = 0 /\ r = 1)
  BY <1>2, <1>3 DEF Primed
<1>5. x \in Nat /\ r \in Nat /\ r >= 1 /\ r < 30 /\ v \in Nat /\ v >= 1
  BY <1>1 DEF Residues
<1>6. v % 30 = r
  BY <1>1, <1>5
<1>7. v # 1
  <2>1. SUFFICES ASSUME v = 1 PROVE FALSE
    OBVIOUS
  <2>2. slab.lo = 0 /\ x = 0 /\ r = 1
    BY <1>1, <1>5, <2>1
  <2>3. BufMin(slab) = 1 /\ Padded(slab)
    BY <1>4, <2>2
  <2>4. 29 >= slab.hi
    BY <1>1, <2>2, <2>3 DEF Padded
  <2>5. slab.hi >= 30
    BY <1>1, <2>2 DEF NoOneByteMap
  <2>6. QED BY <1>1, <2>4, <2>5
<1>8. \A p \in PrimeSet : ~Strikes(p, v)
  <2>1. PICK t \in Threads, k \in 0 .. Stages - 1, y \in 0 .. StageBytes - 1 :
          Passed(t, k, y) /\ x = PlaceOf(t, k) + y
    BY EveryBytePassed
  <2>2. Cleared(t, k, y, r)
    BY <2>1 DEF IInv, MapInv
  <2>3. ValueOf(PlaceOf(t, k) + y, r) = v
    BY <2>1 DEF ValueOf
  <2>4. <<PlaceOf(t, k) + y, r>> \in map
    BY <1>3, <2>1
  <2>5. QED BY <2>2, <2>3, <2>4 DEF Cleared
<1> HIDE DEF v
<1>9. v >= 2 /\ v < Span
  BY <1>1, <1>4, <1>5, <1>7
<1>10. v \in Primes
  BY <1>1, <1>5, <1>6, <1>8, <1>9, CompositeIsStruck
<1>11. QED BY <1>3, <1>4, <1>10 DEF SlabPrimes, v

\* When the launch is over the slab's bits are exactly those of its primes.
THEOREM SlabsAreSieved ==
  ASSUME NoOneByteMap
  PROVE  Spec => []SlabIsSieved
<1>1. IInv => SlabIsSieved
  <2> SUFFICES ASSUME IInv PROVE SlabIsSieved
    OBVIOUS
  <2>1. SlabPrimes \subseteq map
    BY DEF IInv, MapInv
  <2>2. ASSUME \A t \in Threads : pc[t] = "exit" PROVE map \subseteq SlabPrimes
    BY <2>2, OnlyPrimesAreLeft
  <2>3. QED BY <2>1, <2>2 DEF SlabIsSieved
<1>2. QED BY <1>1, Invariance, PTL

-----------------------------------------------------------------------------
(* The codecs: the reciprocal of 30 and Montgomery's steps *)

LEMMA DivIsQuotient ==
  ASSUME NEW x \in Int, NEW d \in Nat, d > 0, NEW q \in Int, NEW e \in Int,
         x = q * d + e, 0 <= e, e < d
  PROVE  x \div d = q
<1>1. q * d = d * q /\ d * q \in Int
  OBVIOUS
<1>2. d * q <= x /\ x < d * q + d
  BY <1>1
<1>3. QED BY <1>2, DivUnique

\* For every word n the two shifts of its product with the reciprocal give
\* n / 30, so that a value finds its own byte of the map and, by what is left of
\* it, its own bit (wheel_verdict.h:43, gpu_search_kernel.h:318).
THEOREM QuotientIsExact ==
  ASSUME NEW n \in 0 .. R - 1
  PROVE  Quotient(n) = n \div 30 /\ Rest(n) \in 0 .. 29
  <1>. DEFINE q == n \div 30
              r == n % 30
              e == 14 * q + r * Magic
              f == e \div R
  <1>1. /\ R \in Nat /\ R > 0 /\ Magic \in Nat /\ 30 * Magic = 16 * R + 14
        /\ n \in Nat /\ n < R
    BY WordAssumption
  <1>2. q \in Nat /\ r \in 0 .. 29 /\ n = 30 * q + r
    BY <1>1
  <1>3. e \in Nat /\ n * Magic = q * (16 * R) + e
    <2>1. r * Magic \in Nat /\ q * R \in Nat
      BY <1>1, <1>2
    <2>2. n * Magic = q * (30 * Magic) + r * Magic
      BY <1>1, <1>2
    <2>3. q * (16 * R + 14) = q * (16 * R) + 14 * q
      BY <1>1, <1>2
    <2>. QED BY <1>1, <1>2, <2>1, <2>2, <2>3
  <1>4. e < 16 * R
    <2>1. r * Magic \in Nat /\ r * R \in Nat /\ r * R <= 29 * R
      BY <1>1, <1>2
    <2>2. 30 * (r * Magic) = 16 * (r * R) + 14 * r
      <3>1. 30 * (r * Magic) = r * (30 * Magic)
        BY <1>1, <1>2
      <3>2. r * (16 * R + 14) = 16 * (r * R) + 14 * r
        BY <1>1, <1>2
      <3>. QED BY <1>1, <3>1, <3>2
    <2>3. 30 * e = 14 * n + 16 * (r * R)
      BY <1>2, <2>1, <2>2
    <2>. QED BY <1>1, <1>3, <2>1, <2>3
  <1>5. f \in 0 .. 15 /\ e = f * R + (e % R) /\ e % R \in 0 .. R - 1
    <2>1. f \in Int /\ e % R \in 0 .. R - 1 /\ e = R * f + (e % R)
      BY <1>1, <1>3
    <2>2. f >= 0
      <3>1. ASSUME f <= -1 PROVE FALSE
        <4>1. R * (-1 - f) >= 0
          BY <1>1, <2>1, <3>1
        <4>. QED BY <1>1, <1>3, <2>1, <4>1
      <3>. QED BY <2>1, <3>1
    <2>3. f <= 15
      <3>1. ASSUME f >= 16 PROVE FALSE
        <4>1. R * (f - 16) >= 0
          BY <1>1, <2>1, <3>1
        <4>. QED BY <1>1, <1>4, <2>1, <4>1
      <3>. QED BY <2>1, <3>1
    <2>. QED BY <1>1, <2>1, <2>2, <2>3
  <1>6. n * Magic = (16 * q + f) * R + (e % R)
    <2>1. (16 * q + f) * R = q * (16 * R) + f * R
      BY <1>1, <1>2, <1>5
    <2>. QED BY <1>1, <1>2, <1>3, <1>5, <2>1
  <1>7. (n * Magic) \div R = 16 * q + f
    <2>1. n * Magic \in Int /\ 16 * q + f \in Int /\ e % R \in Int
      BY <1>1, <1>2, <1>5
    <2>2. 0 <= e % R /\ e % R < R
      BY <1>1, <1>5
    <2>. HIDE DEF e, f, q, r
    <2>. QED BY <1>1, <1>6, <2>1, <2>2, DivIsQuotient
  <1>8. (16 * q + f) \div 16 = q
    BY <1>2, <1>5
  <1>. QED BY <1>1, <1>2, <1>7, <1>8 DEF Quotient, Rest

\* In the packed map, whose slabs begin where their canonical bytes will, no two
\* bytes of the internal map share a place and their order is kept: the slabs do
\* not run into each other (wheel_verdict.h:8-13, 50-52).
THEOREM PlacementSeparates ==
  ASSUME NEW slabBytes \in Nat \ {0}, slabBytes % 8 = 0,
         NEW p \in Nat, NEW q \in Nat, p < q
  PROVE  Placement(p, slabBytes) < Placement(q, slabBytes)
  <1>. DEFINE w == slabBytes \div 8
              s(x) == x \div slabBytes
              off(x) == x - s(x) * slabBytes
  <1>1. w \in Nat /\ w > 0 /\ slabBytes = 8 * w
    OBVIOUS
  <1>2. ASSUME NEW x \in Nat
        PROVE  /\ s(x) \in Nat /\ off(x) \in 0 .. slabBytes - 1
               /\ Placement(x, slabBytes) = 15 * (s(x) * w) + off(x)
    <2>1. /\ s(x) \in Int /\ x % slabBytes \in 0 .. slabBytes - 1
          /\ x = slabBytes * s(x) + (x % slabBytes)
      OBVIOUS
    <2>2. s(x) >= 0
      <3>1. ASSUME s(x) <= -1 PROVE FALSE
        <4>1. slabBytes * (-1 - s(x)) >= 0
          BY <2>1, <3>1
        <4>. QED BY <2>1, <4>1
      <3>. QED BY <2>1, <3>1
    <2>3. s(x) * slabBytes = 8 * (s(x) * w) /\ s(x) * w \in Nat
      BY <1>1, <2>1, <2>2
    <2>4. (s(x) * slabBytes) \div 8 = s(x) * w
      BY <2>3
    <2>. QED BY <2>1, <2>2, <2>3, <2>4 DEF Placement
  <1>3. s(p) <= s(q)
    <2>1. ASSUME s(p) >= s(q) + 1 PROVE FALSE
      <3>1. (s(p) - s(q) - 1) * slabBytes >= 0
        BY <1>2, <2>1
      <3>2. (s(p) - s(q) - 1) * slabBytes
              = s(p) * slabBytes - s(q) * slabBytes - slabBytes
        BY <1>2
      <3>3. s(p) * slabBytes \in Nat /\ s(q) * slabBytes \in Nat
        BY <1>2
      <3>. QED BY <1>2, <3>1, <3>2, <3>3
    <2>. QED BY <1>2, <2>1
  <1>4. CASE s(p) = s(q)
    <2>1. off(p) < off(q)
      BY <1>2, <1>4
    <2>. QED BY <1>1, <1>2, <1>4, <2>1
  <1>5. CASE s(p) < s(q)
    <2>1. /\ s(p) \in Nat /\ off(p) \in 0 .. slabBytes - 1
          /\ s(q) \in Nat /\ off(q) \in 0 .. slabBytes - 1
          /\ Placement(p, slabBytes) = 15 * (s(p) * w) + off(p)
          /\ Placement(q, slabBytes) = 15 * (s(q) * w) + off(q)
      BY <1>2
    <2>. HIDE DEF s, off, w
    <2>2. s(p) * w \in Nat /\ s(q) * w \in Nat
      BY <1>1, <2>1
    <2>3. s(q) * w >= s(p) * w + w
      <3>1. (s(q) - s(p) - 1) * w >= 0
        BY <1>1, <1>5, <2>1
      <3>2. (s(q) - s(p) - 1) * w = s(q) * w - s(p) * w - w
        BY <1>1, <2>1
      <3>. QED BY <1>1, <2>2, <3>1, <3>2
    <2>. QED BY <1>1, <2>1, <2>2, <2>3
  <1>. QED BY <1>2, <1>3, <1>4, <1>5

\* The overflow-safe sum modulo m is the sum modulo m, whether it wraps past the
\* word or not (gpu_search_kernel.h:168-175).
THEOREM SumIsExact ==
  ASSUME NEW m \in 1 .. R - 1, NEW a \in 0 .. m - 1, NEW b \in 0 .. m - 1
  PROVE  DevMontAddMod(a, b, m) = IF a + b < m THEN a + b ELSE a + b - m
  <1>1. R \in Nat /\ R > 0 /\ m \in Nat /\ a \in Nat /\ b \in Nat
    BY WordAssumption
  <1>2. CASE a + b < R
    <2>1. (a + b) % R = a + b
      BY <1>1, <1>2
    <2>2. a + b >= m => (a + b - m) % R = a + b - m
      BY <1>1, <1>2
    <2>. QED BY <1>1, <2>1, <2>2 DEF DevMontAddMod
  <1>3. CASE a + b >= R
    <2>1. (a + b) % R = a + b - R
      <3>1. a + b = 1 * R + (a + b - R)
        BY <1>1
      <3>2. (a + b) \div R = 1
        BY <1>1, <1>3, DivIsQuotient
      <3>. QED BY <1>1, <3>2
    <2>2. (a + b - R - m) % R = a + b - m
      <3>1. (a + b - R - m) \div R = -1
        BY <1>1, <1>3, DivIsQuotient
      <3>. QED BY <1>1, <3>1
    <2>3. a + b - R < a
      BY <1>1
    <2>. QED BY <1>1, <1>3, <2>1, <2>2, <2>3 DEF DevMontAddMod
  <1>. QED BY <1>1, <1>2, <1>3

\* A Montgomery product times R is the plain product modulo m, reduced below m,
\* for every modulus of one word, with the two carries where the three sums of
\* words overflow (gpu_search_kernel.h:184-200).
THEOREM ProductIsExact ==
  ASSUME NEW m \in 1 .. R - 1, NEW a \in 0 .. m - 1, NEW b \in 0 .. m - 1,
         NEW minv \in 0 .. R - 1, (minv * m) % R = R - 1
  PROVE  /\ DevMontMul(a, b, m, minv) \in 0 .. m - 1
         /\ \E k \in Int : DevMontMul(a, b, m, minv) * R = a * b + k * m
  <1>. DEFINE lo == (a * b) % R
              hi == (a * b) \div R
              u == (lo * minv) % R
              ul == (u * m) % R
              uh == (u * m) \div R
              c0 == IF lo + ul >= R THEN 1 ELSE 0
              sum == hi + uh + c0
  <1>1. R \in Nat /\ R > 0 /\ m \in Nat /\ a \in Nat /\ b \in Nat /\ minv \in Nat
    BY WordAssumption
  <1>2. lo \in 0 .. R - 1 /\ hi \in Int /\ a * b = R * hi + lo /\ a * b \in Nat
    BY <1>1
  <1>3. u \in 0 .. R - 1 /\ \E i \in Int : u = lo * minv - R * i
    <2>1. lo * minv \in Int
      BY <1>1, <1>2
    <2>. DEFINE x == lo * minv
    <2>2. x \div R \in Int /\ x % R \in 0 .. R - 1 /\ x = R * (x \div R) + (x % R)
      <3>. HIDE DEF x
      <3>1. x \in Int
        BY <2>1 DEF x
      <3>. QED BY <1>1, <3>1
    <2>3. u = x - R * (x \div R)
      <3>1. u = x % R
        OBVIOUS
      <3>. HIDE DEF x, u
      <3>2. x \in Int
        BY <2>1 DEF x
      <3>. QED BY <1>1, <2>2, <3>1, <3>2
    <2>. QED BY <2>2, <2>3
  <1>4. ul \in 0 .. R - 1 /\ uh \in Int /\ u * m = R * uh + ul /\ u * m \in Nat
    BY <1>1, <1>3
  <1>5. lo + ul = R * c0
    <2>1. PICK i \in Int : u = lo * minv - R * i
      BY <1>3
    <2>2. \E j \in Int : minv * m = R * j - 1
      <3>1. minv * m = R * ((minv * m) \div R) + (R - 1)
        BY <1>1
      <3>2. minv * m = R * ((minv * m) \div R + 1) - 1
        BY <1>1, <3>1
      <3>3. (minv * m) \div R + 1 \in Int
        BY <1>1
      <3>. QED BY <3>2, <3>3
    <2>3. PICK j \in Int : minv * m = R * j - 1
      BY <2>2
    <2>. DEFINE k == lo * j - i * m - uh
    <2>. HIDE DEF lo, u, ul, uh
    <2>4. k \in Int /\ lo + ul = R * k
      <3>1. u * m = lo * (minv * m) - R * (i * m)
        BY <1>1, <1>2, <2>1
      <3>2. lo * (R * j - 1) = R * (lo * j) - lo
        BY <1>1, <1>2
      <3>3. R * k = R * (lo * j) - R * (i * m) - R * uh
        BY <1>1, <1>2, <1>4
      <3>. QED BY <1>1, <1>2, <1>4, <2>3, <3>1, <3>2, <3>3
    <2>5. k >= 0
      <3>1. ASSUME k <= -1 PROVE FALSE
        <4>1. R * (-1 - k) >= 0
          BY <1>1, <2>4, <3>1
        <4>. QED BY <1>1, <1>2, <1>4, <2>4, <4>1
      <3>. QED BY <2>4, <3>1
    <2>6. k <= 1
      <3>1. ASSUME k >= 2 PROVE FALSE
        <4>1. R * (k - 2) >= 0
          BY <1>1, <2>4, <3>1
        <4>. QED BY <1>1, <1>2, <1>4, <2>4, <4>1
      <3>. QED BY <2>4, <3>1
    <2>. HIDE DEF k
    <2>. QED BY <1>1, <1>2, <1>4, <2>4, <2>5, <2>6
  <1>6. sum \in Int /\ R * sum = a * b + u * m
    <2>. HIDE DEF lo, hi, u, ul, uh
    <2>1. c0 \in 0 .. 1
      OBVIOUS
    <2>. HIDE DEF c0
    <2>2. R * sum = R * hi + R * uh + R * c0
      BY <1>1, <1>2, <1>4, <2>1
    <2>. QED BY <1>1, <1>2, <1>4, <1>5, <2>1, <2>2
  <1>7. 0 <= sum /\ sum < 2 * m
    <2>. HIDE DEF sum, u
    <2>1. a * b <= m * m /\ m * m <= R * m
      <3>1. (m - a) * m >= 0 /\ (m - b) * a >= 0 /\ (R - m) * m >= 0
        BY <1>1
      <3>2. (m - a) * m = m * m - a * m /\ (m - b) * a = a * m - a * b
        BY <1>1
      <3>3. (R - m) * m = R * m - m * m
        BY <1>1
      <3>. QED BY <1>1, <3>1, <3>2, <3>3
    <2>2. u * m <= R * m - m
      <3>1. (R - 1 - u) * m >= 0
        BY <1>1, <1>3
      <3>2. (R - 1 - u) * m = R * m - m - u * m
        BY <1>1, <1>3
      <3>. QED BY <1>1, <1>3, <3>1, <3>2
    <2>3. sum >= 0
      <3>1. ASSUME sum <= -1 PROVE FALSE
        <4>1. R * (-1 - sum) >= 0
          BY <1>1, <1>6, <3>1
        <4>2. R * (-1 - sum) = -R - R * sum
          BY <1>1, <1>6
        <4>3. R * sum >= 0
          BY <1>2, <1>4, <1>6
        <4>. QED BY <1>1, <1>6, <4>1, <4>2, <4>3
      <3>. QED BY <1>6, <3>1
    <2>4. sum < 2 * m
      <3>1. ASSUME sum >= 2 * m PROVE FALSE
        <4>1. R * (sum - 2 * m) >= 0
          BY <1>1, <1>6, <3>1
        <4>2. R * (sum - 2 * m) = R * sum - 2 * (R * m)
          BY <1>1, <1>6
        <4>3. /\ a * b \in Int /\ u * m \in Int /\ m * m \in Int /\ R * m \in Int
              /\ R * sum \in Int
          BY <1>1, <1>2, <1>4, <1>6
        <4>4. R * sum <= 2 * (R * m) - m
          BY <1>1, <1>6, <2>1, <2>2, <4>3
        <4>. QED BY <1>1, <4>1, <4>2, <4>3, <4>4
      <3>. QED BY <1>1, <1>6, <3>1
    <2>. QED BY <2>3, <2>4
  <1>. DEFINE t == sum % R
  <1>8. DevMontMul(a, b, m, minv) = IF sum >= R \/ t >= m THEN (t - m) % R ELSE t
    BY DEF DevMontMul
  <1>9. DevMontMul(a, b, m, minv) = IF sum >= m THEN sum - m ELSE sum
    <2>. HIDE DEF sum
    <2>1. CASE sum < R
      <3>1. t = sum
        BY <1>1, <1>6, <1>7, <2>1
      <3>2. sum >= m => (sum - m) % R = sum - m
        BY <1>1, <1>6, <1>7, <2>1
      <3>. QED BY <1>1, <1>6, <1>8, <2>1, <3>1, <3>2
    <2>2. CASE sum >= R
      <3>1. sum \div R = 1
        BY <1>1, <1>6, <1>7, <2>2, DivIsQuotient
      <3>2. t = sum - R
        BY <1>1, <1>6, <3>1
      <3>3. (sum - R - m) \div R = -1
        BY <1>1, <1>6, <1>7, <2>2, DivIsQuotient
      <3>4. (sum - R - m) % R = sum - m
        BY <1>1, <1>6, <3>3
      <3>. QED BY <1>1, <1>6, <1>8, <2>2, <3>2, <3>4
    <2>. QED BY <1>1, <1>6, <2>1, <2>2
  <1>. HIDE DEF sum, u
  <1>10. DevMontMul(a, b, m, minv) \in 0 .. m - 1
    BY <1>1, <1>6, <1>7, <1>9
  <1>11. \E k \in Int : DevMontMul(a, b, m, minv) * R = a * b + k * m
    <2>1. (sum - m) * R = a * b + (u - R) * m
      BY <1>1, <1>3, <1>6
    <2>2. sum * R = a * b + u * m
      BY <1>1, <1>3, <1>6
    <2>3. u - R \in Int /\ u \in Int
      BY <1>1, <1>3
    <2>4. CASE sum >= m
      BY <1>9, <2>1, <2>3, <2>4
    <2>5. CASE ~(sum >= m)
      BY <1>9, <2>2, <2>3, <2>5
    <2>. QED BY <2>4, <2>5
  <1>. QED BY <1>10, <1>11

-----------------------------------------------------------------------------
(* The readers of the map *)

\* A residue's rank, its position in a byte of the map and the kernel's mask for
\* it are the same.
LEMMA Positions ==
  /\ \A r \in CoprimeMask : Slot(r) \in 0 .. 7 /\ WheelResidues[Slot(r) + 1] = r
  /\ \A i \in 0 .. 7 : WheelResidues[i + 1] \in CoprimeMask /\ Slot(WheelResidues[i + 1]) = i
  /\ \A r \in Residues : BitPosition(r) = Slot(r)
<1>1. ASSUME NEW X, NEW x, IsFiniteSet(X), Cardinality(X) \in Nat, x \notin X
      PROVE  /\ IsFiniteSet(X \union {x})
             /\ Cardinality(X \union {x}) = Cardinality(X) + 1
  BY <1>1, FS_AddElement
<1> DEFINE below(r) == {x \in CoprimeMask : x < r}
<1>2. /\ below(1) = {} /\ below(7) = below(1) \union {1} /\ below(11) = below(7) \union {7}
      /\ below(13) = below(11) \union {11} /\ below(17) = below(13) \union {13}
      /\ below(19) = below(17) \union {17} /\ below(23) = below(19) \union {19}
      /\ below(29) = below(23) \union {23}
  BY DEF CoprimeMask
<1>3. \A r \in {1, 7, 11, 13, 17, 19, 23} : r \notin below(r)
  BY DEF CoprimeMask
<1>4. \A r \in CoprimeMask : Slot(r) = Cardinality(below(r))
  BY DEF Slot
<1> HIDE DEF below
<1>5. IsFiniteSet(below(1)) /\ Cardinality(below(1)) = 0
  BY <1>2, FS_EmptySet
<1>6. IsFiniteSet(below(7)) /\ Cardinality(below(7)) = 1
  BY <1>1, <1>2, <1>3, <1>5
<1>7. IsFiniteSet(below(11)) /\ Cardinality(below(11)) = 2
  BY <1>1, <1>2, <1>3, <1>6
<1>8. IsFiniteSet(below(13)) /\ Cardinality(below(13)) = 3
  BY <1>1, <1>2, <1>3, <1>7
<1>9. IsFiniteSet(below(17)) /\ Cardinality(below(17)) = 4
  BY <1>1, <1>2, <1>3, <1>8
<1>10. IsFiniteSet(below(19)) /\ Cardinality(below(19)) = 5
  BY <1>1, <1>2, <1>3, <1>9
<1>11. IsFiniteSet(below(23)) /\ Cardinality(below(23)) = 6
  BY <1>1, <1>2, <1>3, <1>10
<1>12. IsFiniteSet(below(29)) /\ Cardinality(below(29)) = 7
  BY <1>1, <1>2, <1>3, <1>11
<1>13. /\ Slot(1) = 0 /\ Slot(7) = 1 /\ Slot(11) = 2 /\ Slot(13) = 3
       /\ Slot(17) = 4 /\ Slot(19) = 5 /\ Slot(23) = 6 /\ Slot(29) = 7
  BY <1>4, <1>5, <1>6, <1>7, <1>8, <1>9, <1>10, <1>11, <1>12 DEF CoprimeMask
<1>14. /\ WheelResidues[0 + 1] = 1 /\ WheelResidues[1 + 1] = 7 /\ WheelResidues[2 + 1] = 11
       /\ WheelResidues[3 + 1] = 13 /\ WheelResidues[4 + 1] = 17 /\ WheelResidues[5 + 1] = 19
       /\ WheelResidues[6 + 1] = 23 /\ WheelResidues[7 + 1] = 29
  BY DEF WheelResidues
<1>15. \A r \in CoprimeMask : Slot(r) \in 0 .. 7 /\ WheelResidues[Slot(r) + 1] = r
  BY <1>13, <1>14 DEF CoprimeMask
<1>16. ASSUME NEW i \in 0 .. 7
       PROVE  WheelResidues[i + 1] \in CoprimeMask /\ Slot(WheelResidues[i + 1]) = i
  <2>1. i = 0 \/ i = 1 \/ i = 2 \/ i = 3 \/ i = 4 \/ i = 5 \/ i = 6 \/ i = 7
    OBVIOUS
  <2>2. QED BY <1>13, <1>14, <2>1 DEF CoprimeMask
<1>17. ASSUME NEW r \in Residues PROVE BitPosition(r) = Slot(r)
  <2>1. r \in CoprimeMask
    BY DEF Residues, CoprimeMask
  <2>2. \A i \in 0 .. 7 : WheelResidues[i + 1] = r <=> i = Slot(r)
    BY <1>15, <1>16, <2>1
  <2>3. QED BY <1>15, <2>1, <2>2 DEF BitPosition
<1>18. QED BY <1>15, <1>16, <1>17

LEMMA IsPrimeIs ==
  ASSUME NEW n \in Nat
  PROVE  IsPrime(n) <=> n >= 2 /\ ~Composite(n)
<1>1. ASSUME n >= 2, NEW d \in 2 .. n - 1, n % d = 0 PROVE Composite(n)
  <2>1. d \in Nat /\ d > 0 /\ n = d * (n \div d) /\ n \div d \in Int
    BY <1>1, Divides
  <2> DEFINE q == n \div d
  <2>2. q \in Int /\ n = d * q
    BY <2>1
  <2> HIDE DEF q
  <2>3. q >= 2
    <3>1. q > 0
      BY <1>1, <2>1, <2>2, FactorPositive
    <3>2. q # 1
      BY <1>1, <2>1, <2>2
    <3>3. QED BY <2>2, <3>1, <3>2
  <2>4. QED BY <2>1, <2>2, <2>3 DEF Composite
<1>2. ASSUME Composite(n) PROVE \E d \in 2 .. n - 1 : d * d <= n /\ n % d = 0
  <2>1. \E d \in Nat, q \in Nat : d >= 2 /\ q >= 2 /\ d <= q /\ n = d * q
    <3>1. PICK d \in Nat, q \in Nat : d >= 2 /\ q >= 2 /\ n = d * q
      BY <1>2 DEF Composite
    <3>2. d * q = q * d
      BY <3>1
    <3>3. d <= q \/ q <= d
      BY <3>1
    <3>4. QED BY <3>1, <3>2, <3>3
  <2>2. PICK d \in Nat, q \in Nat : d >= 2 /\ q >= 2 /\ d <= q /\ n = d * q
    BY <2>1
  <2>3. d * (q - d) >= 0 /\ d * (q - d) = d * q - d * d /\ d * d \in Int /\ d * q \in Int
    BY <2>2, FactorPositive, Spread
  <2>4. d * d <= n
    BY <2>2, <2>3
  <2>5. d < n
    <3>1. d * (q - 1) > 0 /\ d * (q - 1) = d * q - d * 1
      BY <2>2, FactorPositive, Spread
    <3>2. QED BY <2>2, <2>3, <3>1
  <2>6. n % d = 0
    <3>1. n \div d = q
      BY <2>2, DivExact
    <3>2. n = d * (n \div d) + (n % d) /\ n % d \in Int
      BY <2>2
    <3>3. QED BY <2>2, <2>3, <3>1, <3>2
  <2>7. QED BY <2>2, <2>4, <2>5, <2>6
<1>3. QED BY <1>1, <1>2 DEF IsPrime

\* The numbers the wheel has no bit for: evens and multiples of 3 and 5.
LEMMA OffTheWheel ==
  ASSUME NEW n \in Nat, n % 30 \notin CoprimeMask
  PROVE  IsPrime(n) <=> n \in {2, 3, 5}
<1>1. n % 2 = 0 \/ n % 3 = 0 \/ n % 5 = 0
  <2> DEFINE q == n \div 30
             r == n % 30
  <2>1. q \in Int /\ r \in 0 .. 29 /\ n = 30 * q + r
    OBVIOUS
  <2>2. r % 2 = 0 \/ r % 3 = 0 \/ r % 5 = 0
    BY <2>1 DEF CoprimeMask
  <2> HIDE DEF q, r
  <2>3. QED BY <2>1, <2>2
<1>2. ASSUME NEW p \in {2, 3, 5}, n % p = 0, n > p PROVE Composite(n)
  <2>1. p \in Nat /\ p > 0 /\ p >= 2 /\ n = p * (n \div p) /\ n \div p \in Int
    BY <1>2, Divides
  <2> DEFINE q == n \div p
  <2>2. q \in Int /\ n = p * q
    BY <2>1
  <2> HIDE DEF q
  <2>3. q >= 2
    BY <1>2, <2>2
  <2>4. p \in Nat /\ q \in Nat /\ p >= 2 /\ q >= 2 /\ n = p * q
    BY <2>1, <2>2, <2>3
  <2>5. QED BY <2>4, Zenon DEF Composite
<1>3. ASSUME NEW p \in {2, 3, 5}, n = p PROVE IsPrime(n)
  BY <1>3 DEF IsPrime
<1>4. n = 0 \/ n = 1 => ~IsPrime(n)
  BY DEF IsPrime
<1>5. n > 1 /\ n \notin {2, 3, 5} => Composite(n)
  <2>1. SUFFICES ASSUME n > 1, n \notin {2, 3, 5} PROVE Composite(n)
    OBVIOUS
  <2>2. CASE n % 2 = 0
    BY <1>2, <2>1, <2>2
  <2>3. CASE n % 3 = 0
    BY <1>2, <2>1, <2>3
  <2>4. CASE n % 5 = 0
    <3>1. n > 5
      BY <2>1, <2>4
    <3>2. QED BY <1>2, <2>4, <3>1
  <2>5. QED BY <1>1, <2>2, <2>3, <2>4
<1>6. QED BY <1>3, <1>4, <1>5, IsPrimeIs

\* A number of the wheel is odd, and its bit stands for it.
LEMMA OnTheWheel ==
  ASSUME NEW k \in Nat, NEW i \in 0 .. 7
  PROVE  LET v == 30 * k + WheelResidues[i + 1]
         IN /\ v \in Nat /\ v % 30 = WheelResidues[i + 1] /\ v \div 30 = k
            /\ v % 2 = 1 /\ v \notin {2, 3, 5}
<1>1. WheelResidues[i + 1] \in CoprimeMask
  BY Positions
<1> DEFINE r == WheelResidues[i + 1]
           v == 30 * k + r
<1>2. r \in CoprimeMask
  BY <1>1
<1> HIDE DEF r
<1>3. r \in 0 .. 29 /\ r % 2 = 1 /\ r \notin {2, 3, 5} /\ r \in Nat
  BY <1>2 DEF CoprimeMask
<1>4. v \in Nat /\ v % 30 = r /\ v \div 30 = k /\ v % 2 = 1 /\ v \notin {2, 3, 5}
  BY <1>3
<1>5. QED BY <1>4 DEF r

\* The slab of a finished launch.
Sieved ==
  /\ slab \in Slabs /\ map = SlabPrimes

\* The internal map: the bit of every prime of the wheel below its end.
LEMMA InternalMapIs ==
  ASSUME Sieved, NEW k \in Nat, NEW i \in 0 .. 7
  PROVE  <<k, i>> \in InternalMap
           <=> LET v == 30 * k + WheelResidues[i + 1] IN v < slab.hi /\ IsPrime(v)
<1> DEFINE r == WheelResidues[i + 1]
           v == 30 * k + r
           S == SlabBase
<1>1. /\ slab.lo \in Nat /\ slab.hi \in Nat /\ slab.lo < slab.hi /\ slab.hi <= Span
      /\ Span \in Nat /\ BufMin(slab) \in Nat /\ slab.hi <= slab.lo + 30 * BufMin(slab)
      /\ slab.lo % 30 = 0
  BY SlabFacts DEF Sieved
<1>2. slab.lo = 30 * S /\ S \in Nat
  BY <1>1 DEF SlabBase
<1>3. r \in CoprimeMask /\ Slot(r) = i /\ r \in Residues /\ r \in 1 .. 29
  BY Positions DEF CoprimeMask, Residues
<1>4. v \in Nat
  BY <1>3
<1>5. \A x \in Residues : BitPosition(x) = i <=> x = r
  <2>1. \A x \in Residues : BitPosition(x) = Slot(x) /\ WheelResidues[Slot(x) + 1] = x
    BY Positions DEF CoprimeMask, Residues
  <2>2. QED BY <1>3, <2>1
<1>6. \A x \in Nat, b \in Residues :
        <<x, b>> \in map
          <=> x \in 0 .. BufMin(slab) - 1 /\ slab.lo + 30 * x + b < slab.hi
                /\ slab.lo + 30 * x + b \in Primes
  BY DEF Sieved, SlabPrimes
<1>7. \A x \in Nat : x \in 2 .. Span => (x \in Primes <=> IsPrime(x))
  BY <1>1, IsPrimeIs, PrimesAre
<1> HIDE DEF r
<1>8. CASE k < S
  <2>1. v < slab.hi
    BY <1>1, <1>2, <1>3, <1>8
  <2>2. <<k, i>> \in OtherSlabs <=> IsPrime(v)
    BY <1>2, <1>8 DEF OtherSlabs, r
  <2>3. ~\E b \in map : <<k, i>> = <<S + b[1], BitPosition(b[2])>>
    <3>1. \A b \in map : b[1] \in Nat
      BY <1>1 DEF Sieved, SlabPrimes
    <3>2. QED BY <1>2, <1>8, <3>1
  <2>4. QED BY <2>1, <2>2, <2>3 DEF InternalMap, r
<1>9. CASE k >= S
  <2>1. <<k, i>> \notin OtherSlabs
    BY <1>2, <1>9 DEF OtherSlabs
  <2> DEFINE x == k - S
  <2>2. x \in Nat /\ slab.lo + 30 * x + r = v
    BY <1>2, <1>3, <1>9
  <2>3. <<k, i>> \in InternalMap <=> <<x, r>> \in map
    <3>1. ASSUME NEW b \in map, <<k, i>> = <<S + b[1], BitPosition(b[2])>>
          PROVE  <<x, r>> \in map
      <4>1. b[1] \in Nat /\ b[2] \in Residues /\ b = <<b[1], b[2]>>
        BY <1>1 DEF Sieved, SlabPrimes
      <4>2. k = S + b[1] /\ i = BitPosition(b[2])
        BY <3>1
      <4>3. b[1] = x
        BY <1>2, <4>1, <4>2
      <4>4. b[2] = r
        BY <1>5, <4>1, <4>2
      <4>5. QED BY <4>1, <4>3, <4>4
    <3>2. ASSUME <<x, r>> \in map PROVE \E b \in map : <<k, i>> = <<S + b[1], BitPosition(b[2])>>
      <4>1. S + x = k /\ BitPosition(r) = i
        BY <1>2, <1>3, <1>5
      <4>2. QED BY <3>2, <4>1
    <3>3. QED BY <2>1, <3>1, <3>2 DEF InternalMap
  <2>4. v < slab.hi => x \in 0 .. BufMin(slab) - 1
    <3>1. v < slab.hi => 30 * x < 30 * BufMin(slab)
      BY <1>1, <1>3, <2>2
    <3>2. QED BY <1>1, <2>2, <3>1
  <2>5. v < slab.hi /\ v >= 2 => v \in 2 .. Span
    BY <1>1, <1>4
  <2>6. IsPrime(v) => v >= 2
    BY DEF IsPrime
  <2>7. v \in Primes => v >= 2
    BY <1>1, <1>4, PrimesAre
  <2> HIDE DEF x, v
  <2>8. <<x, r>> \in map <=> x \in 0 .. BufMin(slab) - 1 /\ v < slab.hi /\ v \in Primes
    BY <1>3, <1>6, <2>2
  <2>9. <<x, r>> \in map <=> v < slab.hi /\ IsPrime(v)
    BY <1>4, <1>7, <2>4, <2>5, <2>6, <2>7, <2>8
  <2>10. QED BY <2>3, <2>9 DEF v, r
<1>10. QED BY <1>2, <1>8, <1>9

\* What a reader of the wheel layout finds at a number's own bit.
LEMMA BitIsPrime ==
  ASSUME Sieved, NEW n \in 0 .. slab.hi - 1
  PROVE  /\ n % 30 \in CoprimeMask =>
              (<<n \div 30, Slot(n % 30)>> \in InternalMap <=> IsPrime(n))
         /\ n \in Nat /\ n < R /\ Quotient(n) = n \div 30 /\ Rest(n) = n % 30
<1>1. n \in Nat /\ slab.hi \in Nat /\ slab.hi <= R /\ R \in Nat
  BY SlabFacts, OraclesAssumption, WordAssumption DEF Sieved
<1>2. n < R /\ Quotient(n) = n \div 30
  BY <1>1, QuotientIsExact
<1>3. Rest(n) = n % 30
  BY <1>1, <1>2 DEF Rest
<1>4. ASSUME n % 30 \in CoprimeMask
      PROVE  <<n \div 30, Slot(n % 30)>> \in InternalMap <=> IsPrime(n)
  <2> DEFINE k == n \div 30
             i == Slot(n % 30)
  <2>1. k \in Nat /\ n = 30 * k + (n % 30)
    BY <1>1
  <2>2. i \in 0 .. 7 /\ WheelResidues[i + 1] = n % 30
    BY <1>4, Positions
  <2> HIDE DEF k, i
  <2>3. 30 * k + WheelResidues[i + 1] = n
    BY <2>1, <2>2
  <2>4. <<k, i>> \in InternalMap
          <=> LET v == 30 * k + WheelResidues[i + 1] IN v < slab.hi /\ IsPrime(v)
    BY <2>1, <2>2, InternalMapIs
  <2>5. n < slab.hi
    BY <1>1
  <2>6. <<k, i>> \in InternalMap <=> IsPrime(n)
    BY <2>3, <2>4, <2>5, Zenon
  <2>7. QED BY <2>6 DEF k, i
<1>5. QED BY <1>1, <1>2, <1>3, <1>4

LEMMA EvenOracle ==
  ASSUME NEW n \in Nat, n % 2 # 1
  PROVE  IsPrime(n) <=> n = 2
<1>1. n % 30 \notin CoprimeMask
  BY DEF CoprimeMask
<1>2. QED BY <1>1, OffTheWheel

LEMMA DeviceTells ==
  ASSUME Sieved, NEW n \in 0 .. slab.hi - 1
  PROVE  DevIsPrime(n, InternalMap, slab.hi - 1) <=> IsPrime(n)
<1>1. n \in Nat /\ ~(n > slab.hi - 1)
  BY BitIsPrime, SlabFacts DEF Sieved
<1>2. DevIsPrime(n, InternalMap, slab.hi - 1)
        <=> \/ n = 2
            \/ /\ n % 2 = 1
               /\ \/ n \in {3, 5}
                  \/ InWheel(n) /\ <<n \div 30, Slot(n % 30)>> \in InternalMap
  BY <1>1, BitIsPrime DEF DevIsPrime
<1>3. InWheel(n) <=> n % 30 \in CoprimeMask
  BY BitIsPrime DEF InWheel
<1>4. n % 30 \in CoprimeMask => n % 2 = 1 /\ n \notin {2, 3, 5}
  BY <1>1 DEF CoprimeMask
<1>5. QED BY <1>1, <1>2, <1>3, <1>4, BitIsPrime, OffTheWheel

\* In the packed map a bit is where the placement of its byte is.
LEMMA PackedMapIs ==
  ASSUME Sieved, NEW k \in Nat, NEW i \in 0 .. 7
  PROVE  <<Placement(k, SlabSizeBytes), i>> \in PackedMap <=> <<k, i>> \in InternalMap
<1> DEFINE place(q) == (((q \div SlabSizeBytes) * SlabSizeBytes) \div 8) * 15
                         + (q % SlabSizeBytes)
<1>1. SlabSizeBytes \in Nat \ {0} /\ SlabSizeBytes % 8 = 0
  BY OraclesAssumption
<1>2. ASSUME NEW q \in Nat
      PROVE  place(q) = Placement(q, SlabSizeBytes) /\ Placement(q, SlabSizeBytes) \in Int
  <2> DEFINE s == q \div SlabSizeBytes
  <2>1. s \in Int /\ q % SlabSizeBytes \in Int /\ q = SlabSizeBytes * s + (q % SlabSizeBytes)
    BY <1>1
  <2>2. q % SlabSizeBytes = q - s * SlabSizeBytes /\ s * SlabSizeBytes \in Int
    BY <1>1, <2>1
  <2>3. (s * SlabSizeBytes) \div 8 \in Int
    BY <2>2
  <2>4. QED BY <2>1, <2>2, <2>3 DEF Placement
<1>3. PackedMap = {<<place(b[1]), b[2]>> : b \in InternalMap}
  BY DEF PackedMap
<1> HIDE DEF place
<1>4. \A b \in InternalMap : b[1] \in Nat /\ b = <<b[1], b[2]>>
  <2>1. SlabBase \in Nat
    BY SlabFacts DEF SlabBase, Sieved
  <2>2. ASSUME NEW b \in OtherSlabs PROVE b[1] \in Nat /\ b = <<b[1], b[2]>>
    BY <2>1 DEF OtherSlabs
  <2>3. ASSUME NEW c \in map PROVE SlabBase + c[1] \in Nat
    <3>1. BufMin(slab) \in Nat /\ c[1] \in 0 .. BufMin(slab) - 1
      BY SlabFacts DEF Sieved, SlabPrimes
    <3>2. QED BY <2>1, <3>1
  <2>4. QED BY <2>2, <2>3 DEF InternalMap
<1>5. ASSUME NEW p \in Nat, NEW q \in Nat,
             Placement(p, SlabSizeBytes) = Placement(q, SlabSizeBytes)
      PROVE  p = q
  <2>1. ~(p < q)
    BY <1>1, <1>2, <1>5, PlacementSeparates
  <2>2. ~(q < p)
    BY <1>1, <1>2, <1>5, PlacementSeparates
  <2>3. QED BY <2>1, <2>2
<1>6. ASSUME NEW b \in InternalMap, <<Placement(k, SlabSizeBytes), i>> = <<place(b[1]), b[2]>>
      PROVE  <<k, i>> \in InternalMap
  <2>1. b[1] \in Nat /\ b = <<b[1], b[2]>> /\ i = b[2]
        /\ place(b[1]) = Placement(k, SlabSizeBytes)
    BY <1>4, <1>6
  <2>2. b[1] = k
    BY <1>2, <1>5, <2>1
  <2>3. QED BY <2>1, <2>2
<1>7. ASSUME <<k, i>> \in InternalMap
      PROVE  <<Placement(k, SlabSizeBytes), i>> \in PackedMap
  BY <1>2, <1>3, <1>7
<1>8. QED BY <1>3, <1>6, <1>7

LEMMA VerdictTells ==
  ASSUME Sieved, NEW n \in 0 .. slab.hi - 1
  PROVE  Wheel30VerdictIsPrime(n, PackedMap, SlabSizeBytes) <=> IsPrime(n)
<1>1. n \in Nat /\ n \div 30 \in Nat
  BY BitIsPrime
<1>2. InWheel(n) <=> n % 30 \in CoprimeMask
  BY BitIsPrime DEF InWheel
<1>3. n % 30 \in CoprimeMask
        => (<<Placement(n \div 30, SlabSizeBytes), Slot(n % 30)>> \in PackedMap
              <=> <<n \div 30, Slot(n % 30)>> \in InternalMap)
  BY <1>1, Positions, PackedMapIs
<1>4. Wheel30VerdictIsPrime(n, PackedMap, SlabSizeBytes)
        <=> \/ n = 2
            \/ /\ n % 2 = 1
               /\ \/ n \in {3, 5}
                  \/ /\ InWheel(n)
                     /\ <<Placement(n \div 30, SlabSizeBytes), Slot(n % 30)>> \in PackedMap
  BY BitIsPrime DEF Wheel30VerdictIsPrime
<1>5. n % 30 \in CoprimeMask => n % 2 = 1 /\ n \notin {2, 3, 5}
  BY <1>1 DEF CoprimeMask
<1>6. QED BY <1>1, <1>2, <1>3, <1>4, <1>5, BitIsPrime, OffTheWheel

LEMMA CanonicalSeparates ==
  ASSUME NEW v \in Nat, NEW w \in Nat, v % 2 = 1, w % 2 = 1,
         CanonicalBit(v) = CanonicalBit(w)
  PROVE  v = w
<1>1. v \div 16 = w \div 16 /\ (v \div 2) % 8 = (w \div 2) % 8
  BY DEF CanonicalBit
<1>2. v = 16 * (v \div 16) + 2 * ((v \div 2) % 8) + 1
  OBVIOUS
<1>3. w = 16 * (w \div 16) + 2 * ((w \div 2) % 8) + 1
  OBVIOUS
<1>4. QED BY <1>1, <1>2, <1>3

\* The canonical form has the bits of the odd primes, 3 and 5 with them.
LEMMA CanonicalIs ==
  ASSUME Sieved, NEW v \in Nat, v % 2 = 1, v < slab.hi
  PROVE  CanonicalBit(v) \in ExpandWheel30ToCanonical(InternalMap, slab.hi) <=> IsPrime(v)
<1> DEFINE W == {x \in {3, 5} : x < slab.hi}
                  \union {x \in {30 * b[1] + WheelResidues[b[2] + 1] : b \in InternalMap} :
                            x < slab.hi}
<1>1. ExpandWheel30ToCanonical(InternalMap, slab.hi) = {CanonicalBit(x) : x \in W}
  BY DEF ExpandWheel30ToCanonical
<1>2. ASSUME NEW b \in InternalMap
      PROVE  LET x == 30 * b[1] + WheelResidues[b[2] + 1]
             IN x \in Nat /\ x % 2 = 1 /\ IsPrime(x)
  <2>1. b[1] \in Nat /\ b[2] \in 0 .. 7 /\ b = <<b[1], b[2]>>
    <3>1. SlabBase \in Nat /\ BufMin(slab) \in Nat
      BY SlabFacts DEF SlabBase, Sieved
    <3>2. CASE b \in OtherSlabs
      BY <3>1, <3>2 DEF OtherSlabs
    <3>3. CASE \E c \in map : b = <<SlabBase + c[1], BitPosition(c[2])>>
      <4>1. PICK c \in map : b = <<SlabBase + c[1], BitPosition(c[2])>>
        BY <3>3
      <4>2. c[1] \in 0 .. BufMin(slab) - 1 /\ c[2] \in Residues
        BY DEF Sieved, SlabPrimes
      <4>3. BitPosition(c[2]) \in 0 .. 7
        BY <4>2, Positions DEF Residues, CoprimeMask
      <4>4. QED BY <3>1, <4>1, <4>2, <4>3
    <3>4. QED BY <3>2, <3>3 DEF InternalMap
  <2>2. <<b[1], b[2]>> \in InternalMap
    BY <2>1
  <2>3. IsPrime(30 * b[1] + WheelResidues[b[2] + 1])
    BY <2>1, <2>2, InternalMapIs
  <2>4. QED BY <2>1, <2>3, OnTheWheel
<1>3. IsPrime(3) /\ IsPrime(5)
  <2>1. 3 % 30 \notin CoprimeMask /\ 5 % 30 \notin CoprimeMask
    BY DEF CoprimeMask
  <2>2. QED BY <2>1, OffTheWheel
<1>4. \A x \in W : x \in Nat /\ x % 2 = 1 /\ IsPrime(x)
  BY <1>2, <1>3
<1>5. ASSUME IsPrime(v) PROVE v \in W
  <2>1. CASE v % 30 \notin CoprimeMask
    BY <1>5, <2>1, OffTheWheel
  <2>2. CASE v % 30 \in CoprimeMask
    <3> DEFINE k == v \div 30
               i == Slot(v % 30)
    <3>1. slab.hi \in Nat /\ v \in 0 .. slab.hi - 1
      BY SlabFacts DEF Sieved
    <3>2. <<k, i>> \in InternalMap
      BY <1>5, <2>2, <3>1, BitIsPrime
    <3>3. v = 30 * k + (v % 30)
      OBVIOUS
    <3>4. WheelResidues[i + 1] = v % 30
      BY <2>2, Positions
    <3> DEFINE b == <<k, i>>
    <3>5. v = 30 * b[1] + WheelResidues[b[2] + 1]
      BY <3>3, <3>4
    <3> HIDE DEF b
    <3>6. b \in InternalMap
      BY <3>2 DEF b
    <3>7. QED BY <3>5, <3>6
  <2>3. QED BY <2>1, <2>2
<1> HIDE DEF W
<1>6. ASSUME NEW x \in W, CanonicalBit(x) = CanonicalBit(v) PROVE IsPrime(v)
  <2>1. x = v
    BY <1>4, <1>6, CanonicalSeparates
  <2>2. QED BY <1>4, <2>1
<1>7. QED BY <1>1, <1>5, <1>6

LEMMA HostTells ==
  ASSUME Sieved, NEW n \in 0 .. slab.hi - 1
  PROVE  GpuPrimeIsPrime(n, ExpandWheel30ToCanonical(InternalMap, slab.hi), slab.hi - 1)
           <=> IsPrime(n)
<1>1. n \in Nat /\ n < slab.hi /\ ~(n > slab.hi - 1)
  BY BitIsPrime, SlabFacts DEF Sieved
<1>2. CASE n % 2 = 1
  <2>1. n # 2
    BY <1>2
  <2>2. QED BY <1>1, <1>2, <2>1, CanonicalIs DEF GpuPrimeIsPrime
<1>3. CASE n % 2 # 1
  <2>1. IsPrime(n) <=> n = 2
    BY <1>1, <1>3, EvenOracle
  <2>2. QED BY <1>3, <2>1 DEF GpuPrimeIsPrime
<1>4. QED BY <1>2, <1>3

LEMMA NothingIsLost ==
  ASSUME Sieved
  PROVE  CompactCanonicalToWheel30(ExpandWheel30ToCanonical(InternalMap, slab.hi), slab.hi)
           = InternalMap
<1> DEFINE canonical == ExpandWheel30ToCanonical(InternalMap, slab.hi)
           bytes == (slab.hi + 29) \div 30
<1>1. slab.hi \in Nat /\ bytes \in Nat /\ slab.hi <= 30 * bytes
  BY SlabFacts DEF Sieved
<1>2. ASSUME NEW k \in Nat, NEW i \in 0 .. 7
      PROVE  <<k, i>> \in CompactCanonicalToWheel30(canonical, slab.hi)
               <=> <<k, i>> \in InternalMap
  <2> DEFINE v == 30 * k + WheelResidues[i + 1]
  <2>1. v \in Nat /\ v % 2 = 1
    BY OnTheWheel
  <2>2. v < slab.hi => k \in 0 .. bytes - 1
    <3>1. WheelResidues[i + 1] \in CoprimeMask
      BY Positions
    <3> DEFINE r == WheelResidues[i + 1]
    <3>2. r \in Nat /\ v = 30 * k + r
      BY <3>1 DEF CoprimeMask
    <3> HIDE DEF r, v, bytes
    <3>3. QED BY <1>1, <3>2
  <2>3. <<k, i>> \in CompactCanonicalToWheel30(canonical, slab.hi)
          <=> k \in 0 .. bytes - 1 /\ v < slab.hi /\ CanonicalBit(v) \in canonical
    BY DEF CompactCanonicalToWheel30, InternalMapBytes
  <2>4. v < slab.hi => (CanonicalBit(v) \in canonical <=> IsPrime(v))
    BY <2>1, CanonicalIs
  <2>5. <<k, i>> \in InternalMap <=> v < slab.hi /\ IsPrime(v)
    BY InternalMapIs
  <2> HIDE DEF v, bytes, canonical
  <2>6. QED BY <2>2, <2>3, <2>4, <2>5
<1>3. CompactCanonicalToWheel30(canonical, slab.hi) \subseteq Nat \X (0 .. 7)
  BY <1>1 DEF CompactCanonicalToWheel30, InternalMapBytes
<1>4. InternalMap \subseteq Nat \X (0 .. 7)
  <2>1. SlabBase \in Nat /\ BufMin(slab) \in Nat
    BY SlabFacts DEF SlabBase, Sieved
  <2>2. OtherSlabs \subseteq Nat \X (0 .. 7)
    BY <2>1 DEF OtherSlabs
  <2>3. ASSUME NEW c \in map
        PROVE  <<SlabBase + c[1], BitPosition(c[2])>> \in Nat \X (0 .. 7)
    <3>1. c[1] \in 0 .. BufMin(slab) - 1 /\ c[2] \in Residues
      BY DEF Sieved, SlabPrimes
    <3>2. BitPosition(c[2]) \in 0 .. 7
      BY <3>1, Positions DEF Residues, CoprimeMask
    <3>3. QED BY <2>1, <3>1, <3>2
  <2>4. QED BY <2>2, <2>3 DEF InternalMap
<1> HIDE DEF canonical
<1>5. CompactCanonicalToWheel30(canonical, slab.hi) = InternalMap
  <2> DEFINE C == CompactCanonicalToWheel30(canonical, slab.hi)
  <2>1. ASSUME NEW b \in Nat \X (0 .. 7) PROVE b \in C <=> b \in InternalMap
    <3>1. PICK k \in Nat, i \in 0 .. 7 : b = <<k, i>>
      OBVIOUS
    <3>2. QED BY <1>2, <3>1
  <2>2. QED BY <1>3, <1>4, <2>1
<1>6. QED BY <1>5 DEF canonical

\* When a launch is over and its slab is in the map, the device, the emission
\* and the host tell from the map exactly the primes up to its end, and its
\* canonical form has all of it.
THEOREM MapsTellPrimes ==
  ASSUME NoOneByteMap
  PROVE  Spec => []MapTellsPrimes
<1>1. IInv => MapTellsPrimes
  <2> SUFFICES ASSUME IInv, LaunchIsOver PROVE MapTellsPrimes
    BY DEF MapTellsPrimes
  <2>1. Sieved
    <3>1. slab \in Slabs
      BY DEF IInv, Typed
    <3>2. SlabPrimes \subseteq map
      BY DEF IInv, MapInv
    <3>3. map \subseteq SlabPrimes
      BY OnlyPrimesAreLeft DEF LaunchIsOver
    <3>4. QED BY <3>1, <3>2, <3>3 DEF Sieved
  <2>2. ASSUME NEW n \in 0 .. slab.hi - 1
        PROVE  /\ DevIsPrime(n, InternalMap, slab.hi - 1) = IsPrime(n)
               /\ GpuPrimeIsPrime(n, ExpandWheel30ToCanonical(InternalMap, slab.hi),
                                  slab.hi - 1) = IsPrime(n)
               /\ Wheel30VerdictIsPrime(n, PackedMap, SlabSizeBytes) = IsPrime(n)
    <3>1. /\ IsPrime(n) \in BOOLEAN /\ DevIsPrime(n, InternalMap, slab.hi - 1) \in BOOLEAN
          /\ GpuPrimeIsPrime(n, ExpandWheel30ToCanonical(InternalMap, slab.hi),
                             slab.hi - 1) \in BOOLEAN
          /\ Wheel30VerdictIsPrime(n, PackedMap, SlabSizeBytes) \in BOOLEAN
      BY DEF IsPrime, DevIsPrime, GpuPrimeIsPrime, Wheel30VerdictIsPrime
    <3>2. QED BY <2>1, <3>1, DeviceTells, HostTells, VerdictTells, Zenon
  <2>3. QED BY <2>1, <2>2, NothingIsLost DEF MapTellsPrimes
<1>2. QED BY <1>1, Invariance, PTL
=============================================================================
