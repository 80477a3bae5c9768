--------------------------- MODULE SlabPlanProofs ---------------------------
(***************************************************************************)
(* Theorems about SlabPlan, for every command line, machine, benchmark file *)
(* and memory size: what a leg is given fits, and its slabs are handed out  *)
(* exactly.                                                                 *)
(***************************************************************************)
EXTENDS SlabPlan, ListLemmas

-----------------------------------------------------------------------------
(* Sums *)

PartialSums(f) == Plan!PartialSums(f)
Total(f) == Plan!Total(f)

\* Products.
LEMMA Distributes ==
  ASSUME NEW a \in Int, NEW x \in Int, NEW y \in Int
  PROVE  /\ a * (x + y) = a * x + a * y /\ a * (x - y) = a * x - a * y
         /\ (x + y) * a = x * a + y * a /\ (x - y) * a = x * a - y * a
         /\ a * x \in Int /\ a * x = x * a /\ a * 1 = a /\ a * 0 = 0
  OBVIOUS

LEMMA LinearStep ==
  ASSUME NEW a \in Int, NEW c \in Int,
         NEW x \in Int, NEW y \in Int, NEW u \in Int, NEW v \in Int
  PROVE  a * (x + u) - c * (y + v) = (a * x - c * y) + (a * u - c * v)
<1>1. a * (x + u) = a * x + a * u /\ c * (y + v) = c * y + c * v
  BY Distributes
<1>2. a * x \in Int /\ a * u \in Int /\ c * y \in Int /\ c * v \in Int
  OBVIOUS
<1>3. QED BY <1>1, <1>2

\* The sums are what their recursion says.
LEMMA SumsExist ==
  ASSUME NEW f \in Seq(Int)
  PROVE  PartialSums(f) =
           [n \in 0 .. Len(f) |-> IF n = 0 THEN 0 ELSE PartialSums(f)[n - 1] + f[n]]
<1> DEFINE Sums(g, m) == g = [n \in 0 .. m |-> IF n = 0 THEN 0 ELSE g[n - 1] + f[n]]
           S == {m \in 0 .. Len(f) : \E g : Sums(g, m)}
<1>1. 0 \in S
  <2>1. Sums([n \in 0 .. 0 |-> 0], 0)
    OBVIOUS
  <2>2. 0 \in 0 .. Len(f)
    OBVIOUS
  <2> HIDE DEF Sums
  <2>3. QED BY <2>1, <2>2
<1>2. ASSUME NEW m \in 1 .. Len(f), m - 1 \in S PROVE m \in S
  <2>1. PICK g : Sums(g, m - 1)
    BY <1>2
  <2> DEFINE h == [n \in 0 .. m |-> IF n = m THEN g[m - 1] + f[m] ELSE g[n]]
  <2>2. ASSUME NEW n \in 0 .. m PROVE h[n] = IF n = 0 THEN 0 ELSE h[n - 1] + f[n]
    <3>1. CASE n = m
      BY <3>1
    <3>2. CASE n # m
      <4>1. n \in 0 .. m - 1 /\ h[n] = g[n] /\ (n # 0 => h[n - 1] = g[n - 1])
        BY <3>2
      <4>2. g[n] = IF n = 0 THEN 0 ELSE g[n - 1] + f[n]
        BY <2>1, <4>1
      <4>3. QED BY <4>1, <4>2
    <3>3. QED BY <3>1, <3>2
  <2>3. Sums(h, m)
    BY <2>2
  <2>4. m \in 0 .. Len(f)
    OBVIOUS
  <2> HIDE DEF Sums, h
  <2>5. QED BY <2>3, <2>4
<1>3. Len(f) \in S
  <2>1. Len(f) \in Nat
    OBVIOUS
  <2> HIDE DEF S
  <2>2. QED BY <1>1, <1>2, <2>1, UpTo
<1>4. \E g : g = [n \in 0 .. Len(f) |-> IF n = 0 THEN 0 ELSE g[n - 1] + f[n]]
  BY <1>3
<1>5. QED BY <1>4 DEF PartialSums, Plan!PartialSums

LEMMA SumStep ==
  ASSUME NEW f \in Seq(Int)
  PROVE  /\ Len(f) \in Nat /\ Total(f) = PartialSums(f)[Len(f)]
         /\ PartialSums(f)[0] = 0
         /\ \A n \in 1 .. Len(f) : PartialSums(f)[n] = PartialSums(f)[n - 1] + f[n]
         /\ \A n \in 0 .. Len(f) : PartialSums(f)[n] \in Int
         /\ Total(f) \in Int
<1> DEFINE sum == PartialSums(f)
           S == {n \in 0 .. Len(f) : sum[n] \in Int}
<1>1. /\ sum[0] = 0
      /\ \A n \in 1 .. Len(f) : sum[n] = sum[n - 1] + f[n]
  <2> HIDE DEF sum
  <2>1. sum = [n \in 0 .. Len(f) |-> IF n = 0 THEN 0 ELSE sum[n - 1] + f[n]]
    BY SumsExist DEF sum
  <2>2. Len(f) \in Nat
    OBVIOUS
  <2>3. 0 \in 0 .. Len(f) /\ \A n \in 1 .. Len(f) : n \in 0 .. Len(f) /\ n # 0
    BY <2>2
  <2>4. QED BY <2>1, <2>3
<1> HIDE DEF sum
<1>2. \A n \in 0 .. Len(f) : n \in S
  <2>1. 0 \in S
    BY <1>1
  <2>2. ASSUME NEW n \in 1 .. Len(f), n - 1 \in S PROVE n \in S
    BY <1>1, <2>2
  <2>3. Len(f) \in Nat
    OBVIOUS
  <2> HIDE DEF S
  <2>4. QED BY <2>1, <2>2, <2>3, UpTo
<1>3. Total(f) = sum[Len(f)]
  BY DEF sum, Total, PartialSums, Plan!Total
<1>4. QED BY <1>1, <1>2, <1>3 DEF sum

\* Sums are linear.
Combines(h, a, f, c, g) == \A d \in 1 .. Len(f) : h[d] = a * f[d] - c * g[d]

LEMMA SumLinear ==
  ASSUME NEW f \in Seq(Int), NEW g \in Seq(Int), NEW h \in Seq(Int),
         Len(g) = Len(f), Len(h) = Len(f), NEW a \in Int, NEW c \in Int,
         Combines(h, a, f, c, g)
  PROVE  Total(h) = a * Total(f) - c * Total(g)
<1> DEFINE F == PartialSums(f)
           G == PartialSums(g)
           H == PartialSums(h)
           S == {n \in 0 .. Len(f) : H[n] = a * F[n] - c * G[n]}
<1> HIDE DEF F, G, H
<1>1. /\ F[0] = 0 /\ G[0] = 0 /\ H[0] = 0
      /\ \A n \in 1 .. Len(f) : /\ F[n] = F[n - 1] + f[n] /\ G[n] = G[n - 1] + g[n]
                                /\ H[n] = H[n - 1] + h[n]
      /\ \A n \in 0 .. Len(f) : F[n] \in Int /\ G[n] \in Int /\ H[n] \in Int
      /\ Total(f) = F[Len(f)] /\ Total(g) = G[Len(f)] /\ Total(h) = H[Len(f)]
  BY SumStep DEF F, G, H
<1>2. 0 \in S
  BY <1>1
<1>3. ASSUME NEW n \in 1 .. Len(f), n - 1 \in S PROVE n \in S
  <2>1. /\ f[n] \in Int /\ g[n] \in Int /\ F[n - 1] \in Int /\ G[n - 1] \in Int
        /\ n \in 0 .. Len(f) /\ n - 1 \in 0 .. Len(f)
    BY <1>1
  <2>2. H[n] = (a * F[n - 1] - c * G[n - 1]) + (a * f[n] - c * g[n])
    BY <1>1, <1>3 DEF Combines
  <2>3. F[n] = F[n - 1] + f[n] /\ G[n] = G[n - 1] + g[n]
    BY <1>1
  <2>4. a * (F[n - 1] + f[n]) - c * (G[n - 1] + g[n])
          = (a * F[n - 1] - c * G[n - 1]) + (a * f[n] - c * g[n])
    <3> DEFINE x == F[n - 1]
               y == G[n - 1]
               u == f[n]
               v == g[n]
    <3>1. x \in Int /\ y \in Int /\ u \in Int /\ v \in Int
      BY <2>1
    <3> HIDE DEF x, y, u, v
    <3>2. a * (x + u) - c * (y + v) = (a * x - c * y) + (a * u - c * v)
      BY <3>1, LinearStep
    <3>3. QED BY <3>2 DEF x, y, u, v
  <2>5. H[n] = a * F[n] - c * G[n]
    BY <2>2, <2>3, <2>4
  <2>6. QED BY <2>1, <2>5
<1>4. Len(f) \in S
  <2>1. Len(f) \in Nat
    OBVIOUS
  <2> HIDE DEF S
  <2>2. QED BY <1>2, <1>3, <2>1, UpTo
<1>5. QED BY <1>1, <1>4 DEF S

\* Sums of naturals grow.
LEMMA SumGrows ==
  ASSUME NEW f \in Seq(Int), \A d \in 1 .. Len(f) : f[d] >= 0
  PROVE  /\ \A n \in 0 .. Len(f) : PartialSums(f)[n] >= 0
         /\ \A n \in 0 .. Len(f), m \in 0 .. Len(f) :
              m <= n => PartialSums(f)[m] <= PartialSums(f)[n]
         /\ \A d \in 1 .. Len(f) : f[d] <= Total(f)
<1> DEFINE F == PartialSums(f)
           S == {n \in 0 .. Len(f) : F[n] >= 0 /\ \A m \in 0 .. n : F[m] <= F[n]}
<1> HIDE DEF F
<1>1. /\ F[0] = 0
      /\ \A n \in 1 .. Len(f) : F[n] = F[n - 1] + f[n]
      /\ \A n \in 0 .. Len(f) : F[n] \in Int
      /\ Total(f) = F[Len(f)] /\ Len(f) \in Nat
  BY SumStep DEF F
<1>2. 0 \in S
  BY <1>1
<1>3. ASSUME NEW n \in 1 .. Len(f), n - 1 \in S PROVE n \in S
  <2>1. F[n] >= F[n - 1] /\ F[n] \in Int /\ F[n - 1] \in Int /\ F[n - 1] >= 0
    BY <1>1, <1>3
  <2>2. ASSUME NEW m \in 0 .. n PROVE F[m] <= F[n]
    <3>1. CASE m = n
      BY <2>1, <3>1
    <3>2. CASE m # n
      <4>1. m \in 0 .. n - 1 /\ F[m] \in Int
        BY <1>1, <3>2
      <4>2. F[m] <= F[n - 1]
        BY <1>3, <4>1
      <4>3. QED BY <2>1, <4>1, <4>2
    <3>3. QED BY <3>1, <3>2
  <2>3. QED BY <2>1, <2>2
<1>4. \A n \in 0 .. Len(f) : n \in S
  <2> HIDE DEF S
  <2>1. QED BY <1>1, <1>2, <1>3, UpTo
<1>5. \A d \in 1 .. Len(f) : f[d] <= Total(f)
  <2>1. ASSUME NEW d \in 1 .. Len(f) PROVE f[d] <= Total(f)
    <3>1. F[d - 1] >= 0 /\ F[d] = F[d - 1] + f[d] /\ F[d] <= F[Len(f)]
      BY <1>1, <1>4
    <3>2. /\ d - 1 \in 0 .. Len(f) /\ d \in 0 .. Len(f) /\ Len(f) \in 0 .. Len(f)
          /\ f[d] \in Int
      BY <1>1
    <3>3. F[d - 1] \in Int /\ F[d] \in Int /\ F[Len(f)] \in Int
      BY <1>1, <3>2
    <3>4. QED BY <1>1, <3>1, <3>2, <3>3
  <2>2. QED BY <2>1
<1>6. QED BY <1>4, <1>5 DEF F

\* A sum above zero has a term above zero.
LEMMA SumPositive ==
  ASSUME NEW f \in Seq(Int), Total(f) > 0
  PROVE  \E d \in 1 .. Len(f) : f[d] > 0
<1> DEFINE F == PartialSums(f)
           S == {n \in 0 .. Len(f) : F[n] <= 0}
<1> HIDE DEF F
<1>1. SUFFICES ASSUME \A d \in 1 .. Len(f) : f[d] <= 0 PROVE FALSE
  OBVIOUS
<1>2. /\ F[0] = 0
      /\ \A n \in 1 .. Len(f) : F[n] = F[n - 1] + f[n]
      /\ \A n \in 0 .. Len(f) : F[n] \in Int
      /\ Total(f) = F[Len(f)] /\ Len(f) \in Nat
  BY SumStep DEF F
<1>3. 0 \in S
  BY <1>2
<1>4. ASSUME NEW n \in 1 .. Len(f), n - 1 \in S PROVE n \in S
  BY <1>1, <1>2, <1>4
<1>5. Len(f) \in S
  <2> HIDE DEF S
  <2>1. QED BY <1>2, <1>3, <1>4, UpTo
<1>6. QED BY <1>2, <1>5

\* One more in one place is one more in all.
LEMMA SumOneMore ==
  ASSUME NEW f \in Seq(Int), NEW d \in 1 .. Len(f), NEW g,
         g = [f EXCEPT ![d] = @ + 1]
  PROVE  g \in Seq(Int) /\ Len(g) = Len(f) /\ Total(g) = Total(f) + 1
<1> DEFINE F == PartialSums(f)
           G == PartialSums(g)
           S == {n \in 0 .. Len(f) : G[n] = F[n] + (IF n >= d THEN 1 ELSE 0)}
<1> HIDE DEF F, G
<1>1. /\ g \in Seq(Int) /\ Len(g) = Len(f)
      /\ \A n \in 1 .. Len(f) : g[n] = IF n = d THEN f[n] + 1 ELSE f[n]
  OBVIOUS
<1>2. /\ F[0] = 0 /\ G[0] = 0
      /\ \A n \in 1 .. Len(f) : F[n] = F[n - 1] + f[n] /\ G[n] = G[n - 1] + g[n]
      /\ \A n \in 0 .. Len(f) : F[n] \in Int /\ G[n] \in Int
      /\ Total(f) = F[Len(f)] /\ Total(g) = G[Len(f)] /\ Len(f) \in Nat
  BY <1>1, SumStep DEF F, G
<1>3. 0 \in S
  BY <1>2
<1>4. ASSUME NEW n \in 1 .. Len(f), n - 1 \in S PROVE n \in S
  <2>1. /\ n \in 0 .. Len(f) /\ n - 1 \in 0 .. Len(f) /\ n \in Int /\ d \in Int
        /\ f[n] \in Int
    BY <1>2
  <2>2. G[n] = F[n - 1] + (IF n - 1 >= d THEN 1 ELSE 0) + (IF n = d THEN f[n] + 1 ELSE f[n])
    BY <1>1, <1>2, <1>4
  <2>3. F[n] = F[n - 1] + f[n] /\ F[n - 1] \in Int
    BY <1>2, <2>1
  <2>4. G[n] = F[n] + (IF n >= d THEN 1 ELSE 0)
    BY <2>1, <2>2, <2>3
  <2>5. QED BY <2>1, <2>4
<1>5. Len(f) \in S
  <2> HIDE DEF S
  <2>1. QED BY <1>2, <1>3, <1>4, UpTo
<1>6. QED BY <1>1, <1>2, <1>5

-----------------------------------------------------------------------------
(* Shares: N things are handed out to the parts of p, c[d] of them to d, and   *)
(* Rem is what d's exact share exceeds them by, times the sum of the parts.    *)

Rem(N, p, c) == [d \in 1 .. Len(p) |-> N * p[d] - c[d] * Total(p)]

\* No largest-remainder step may leave more than this behind.
Handing(N, p, c) ==
  /\ c \in Seq(Nat) /\ Len(c) = Len(p) /\ Total(c) <= N
  /\ \A d \in 1 .. Len(p) : Rem(N, p, c)[d] > -Total(p) /\ Rem(N, p, c)[d] <= Total(p)
  /\ (\E d \in 1 .. Len(p) : Rem(N, p, c)[d] = Total(p)) =>
       \A d \in 1 .. Len(p) : Rem(N, p, c)[d] >= 0

Parts(p) == p \in Seq(Nat) /\ Len(p) > 0 /\ \A d \in 1 .. Len(p) : p[d] > 0

LEMMA SignOfProduct ==
  ASSUME NEW a \in Int, a > 0, NEW x \in Int
  PROVE  /\ a * x >= 0 => x >= 0
         /\ x > 0 => a * x > 0
         /\ x = 0 => a * x = 0
         /\ x >= 0 => a * x >= 0
  OBVIOUS

LEMMA PartsAddUp ==
  ASSUME NEW p, Parts(p)
  PROVE  /\ Total(p) \in Nat /\ Total(p) > 0 /\ p \in Seq(Int)
         /\ \A d \in 1 .. Len(p) : p[d] \in Nat /\ p[d] > 0
<1>1. p \in Seq(Int) /\ \A d \in 1 .. Len(p) : p[d] \in Nat /\ p[d] > 0
  BY DEF Parts
<1>2. Total(p) \in Int
  BY <1>1, SumStep
<1>3. 1 \in 1 .. Len(p)
  BY DEF Parts
<1>4. p[1] <= Total(p)
  BY <1>1, <1>3, SumGrows
<1>5. QED BY <1>1, <1>2, <1>3, <1>4

\* What the shares exceed the things handed out by is what is left of them.
LEMMA RemAddsUp ==
  ASSUME NEW N \in Nat, NEW p, Parts(p), NEW c \in Seq(Int), Len(c) = Len(p)
  PROVE  /\ Rem(N, p, c) \in Seq(Int) /\ Len(Rem(N, p, c)) = Len(p)
         /\ \A d \in 1 .. Len(p) : Rem(N, p, c)[d] \in Int
         /\ Total(c) \in Int
         /\ Total(Rem(N, p, c)) = Total(p) * (N - Total(c))
<1> DEFINE T == Total(p)
           r == Rem(N, p, c)
<1>1. T \in Int /\ p \in Seq(Int) /\ Len(p) \in Nat /\ Total(c) \in Int
  BY PartsAddUp, SumStep
<1> HIDE DEF T
<1>2. \A d \in 1 .. Len(p) : p[d] \in Int /\ c[d] \in Int
  BY <1>1
<1>3. \A d \in 1 .. Len(p) : N * p[d] - c[d] * T \in Int
  BY <1>1, <1>2
<1>4. r = [d \in 1 .. Len(p) |-> N * p[d] - c[d] * T]
  BY DEF Rem, T
<1> HIDE DEF r
<1>5. r \in Seq(Int) /\ Len(r) = Len(p)
  BY <1>1, <1>3, <1>4
<1>6. \A d \in 1 .. Len(p) : r[d] = N * p[d] - T * c[d]
  BY <1>1, <1>2, <1>4, Distributes
<1>7. Total(r) = N * Total(p) - T * Total(c)
  <2>1. Combines(r, N, p, T, c)
    BY <1>6 DEF Combines
  <2>2. QED BY <1>1, <1>5, <2>1, SumLinear
<1>8. T * (N - Total(c)) = N * Total(p) - T * Total(c)
  BY <1>1, Distributes DEF T
<1>9. \A d \in 1 .. Len(p) : r[d] \in Int
  BY <1>3, <1>4
<1>10. QED BY <1>1, <1>5, <1>7, <1>8, <1>9 DEF r, T

\* One more for d.
LEMMA RemOfOneMore ==
  ASSUME NEW N \in Nat, NEW p, Parts(p), NEW c \in Seq(Nat), Len(c) = Len(p),
         NEW d \in 1 .. Len(p), NEW e \in 1 .. Len(p)
  PROVE  Rem(N, p, [c EXCEPT ![d] = @ + 1])[e] =
           IF e = d THEN Rem(N, p, c)[e] - Total(p) ELSE Rem(N, p, c)[e]
<1>1. Total(p) \in Int /\ p[e] \in Nat /\ c[e] \in Nat
  BY PartsAddUp
<1>2. [c EXCEPT ![d] = @ + 1][e] = IF e = d THEN c[e] + 1 ELSE c[e]
  OBVIOUS
<1>3. /\ (c[e] + 1) * Total(p) = c[e] * Total(p) + Total(p)
      /\ c[e] * Total(p) \in Int /\ N * p[e] \in Int
  <2> DEFINE x == c[e]
             T == Total(p)
             y == p[e]
  <2>1. x \in Int /\ T \in Int /\ y \in Int
    BY <1>1
  <2> HIDE DEF x, T, y
  <2>2. (x + 1) * T = x * T + T /\ x * T \in Int /\ N * y \in Int
    BY <2>1
  <2>3. QED BY <2>2 DEF x, T, y
<1>4. /\ Rem(N, p, c)[e] = N * p[e] - c[e] * Total(p)
      /\ Rem(N, p, [c EXCEPT ![d] = @ + 1])[e]
           = N * p[e] - [c EXCEPT ![d] = @ + 1][e] * Total(p)
  BY DEF Rem
<1>5. CASE e = d
  <2>1. Rem(N, p, [c EXCEPT ![d] = @ + 1])[e] = N * p[e] - (c[e] + 1) * Total(p)
    BY <1>2, <1>4, <1>5
  <2>2. QED BY <1>1, <1>3, <1>4, <1>5, <2>1
<1>6. CASE e # d
  BY <1>2, <1>4, <1>6
<1>7. QED BY <1>5, <1>6

\* Where all is handed out, every share is exact to less than one.
LEMMA AllHandedOut ==
  ASSUME NEW N \in Nat, NEW p, Parts(p), NEW c, Handing(N, p, c), Total(c) >= N
  PROVE  /\ Total(c) = N
         /\ \A d \in 1 .. Len(p) : /\ c[d] <= N
                                   /\ Rem(N, p, c)[d] \in 1 - Total(p) .. Total(p) - 1
<1> DEFINE r == Rem(N, p, c)
<1>1. /\ c \in Seq(Nat) /\ c \in Seq(Int) /\ Len(c) = Len(p) /\ Total(c) <= N
      /\ \A d \in 1 .. Len(p) : c[d] >= 0 /\ c[d] \in Nat
  BY DEF Handing
<1>2. /\ r \in Seq(Int) /\ Len(r) = Len(p) /\ Total(c) \in Int
      /\ \A d \in 1 .. Len(p) : r[d] \in Int
      /\ Total(r) = Total(p) * (N - Total(c))
  BY <1>1, RemAddsUp
<1>3. Total(p) \in Nat /\ Total(p) > 0
  BY PartsAddUp
<1>4. Total(c) = N
  BY <1>1, <1>2
<1>5. Total(r) = 0
  BY <1>2, <1>3, <1>4, SignOfProduct
<1>6. \A d \in 1 .. Len(p) : c[d] <= N
  BY <1>1, <1>4, SumGrows
<1>7. ASSUME NEW d \in 1 .. Len(p) PROVE r[d] \in 1 - Total(p) .. Total(p) - 1
  <2>1. r[d] # Total(p)
    <3>1. SUFFICES ASSUME r[d] = Total(p) PROVE FALSE
      OBVIOUS
    <3>2. \A e \in 1 .. Len(p) : r[e] >= 0
      BY <3>1 DEF Handing
    <3> HIDE DEF r
    <3>3. r[d] <= Total(r)
      BY <1>2, <3>2, SumGrows
    <3>4. QED BY <1>3, <1>5, <3>1, <3>3
  <2>2. r[d] > -Total(p) /\ r[d] <= Total(p) /\ r[d] \in Int
    BY <1>2 DEF Handing
  <2> HIDE DEF r
  <2>3. QED BY <1>3, <2>1, <2>2
<1>8. QED BY <1>4, <1>6, <1>7

\* The device with the largest remainder takes one more.
LEMMA LargestTakesOne ==
  ASSUME NEW N \in Nat, NEW p, Parts(p), NEW c, Handing(N, p, c), Total(c) < N,
         NEW d \in 1 .. Len(p), \A e \in 1 .. Len(p) : Rem(N, p, c)[e] <= Rem(N, p, c)[d]
  PROVE  Handing(N, p, [c EXCEPT ![d] = @ + 1])
<1> DEFINE r == Rem(N, p, c)
           g == [c EXCEPT ![d] = @ + 1]
           q == Rem(N, p, g)
           T == Total(p)
<1>1. c \in Seq(Nat) /\ c \in Seq(Int) /\ Len(c) = Len(p) /\ Total(c) <= N
  BY DEF Handing
<1>2. /\ r \in Seq(Int) /\ Len(r) = Len(p) /\ Total(c) \in Int
      /\ \A e \in 1 .. Len(p) : r[e] \in Int
      /\ Total(r) = T * (N - Total(c))
  BY <1>1, RemAddsUp
<1>3. T \in Nat /\ T > 0
  BY PartsAddUp
<1>4. \A e \in 1 .. Len(p) : q[e] = IF e = d THEN r[e] - T ELSE r[e]
  BY <1>1, RemOfOneMore
<1>5. /\ \A e \in 1 .. Len(p) : r[e] > -T /\ r[e] <= T /\ r[e] <= r[d]
      /\ (\E e \in 1 .. Len(p) : r[e] = T) => \A e \in 1 .. Len(p) : r[e] >= 0
  BY DEF Handing
<1>6. g \in Seq(Nat) /\ Len(g) = Len(p) /\ Total(g) <= N
  <2>1. g \in Seq(Nat) /\ Len(g) = Len(p)
    BY <1>1
  <2>2. Total(g) = Total(c) + 1
    BY <1>1, SumOneMore
  <2>3. QED BY <1>2, <2>1, <2>2
<1> HIDE DEF r, g, q, T
<1>7. r[d] > 0
  <2>1. Total(r) > 0
    <3>1. N - Total(c) \in Int /\ N - Total(c) > 0
      BY <1>2
    <3>2. QED BY <1>2, <1>3, <3>1, SignOfProduct
  <2>2. \E e \in 1 .. Len(p) : r[e] > 0
    BY <1>2, <2>1, SumPositive
  <2>3. QED BY <1>2, <1>5, <2>2
<1>8. \A e \in 1 .. Len(p) : q[e] > -T /\ q[e] <= T
  <2>1. ASSUME NEW e \in 1 .. Len(p) PROVE q[e] > -T /\ q[e] <= T
    <3>1. r[e] \in Int /\ r[d] \in Int /\ r[e] > -T /\ r[e] <= T
      BY <1>2, <1>5
    <3>2. q[e] = IF e = d THEN r[e] - T ELSE r[e]
      BY <1>4
    <3>3. CASE e = d
      <4>1. q[e] = r[d] - T
        BY <3>2, <3>3
      <4>2. QED BY <1>3, <1>7, <3>1, <3>3, <4>1
    <3>4. CASE e # d
      BY <3>1, <3>2, <3>4
    <3>5. QED BY <3>3, <3>4
  <2>2. QED BY <2>1
<1>9. ASSUME NEW e \in 1 .. Len(p), q[e] = T PROVE \A f \in 1 .. Len(p) : q[f] >= 0
  <2>1. e # d
    BY <1>2, <1>3, <1>4, <1>5, <1>9
  <2>2. r[e] = T
    BY <1>4, <1>9, <2>1
  <2>3. r[d] = T /\ \A f \in 1 .. Len(p) : r[f] >= 0
    BY <1>2, <1>3, <1>5, <2>2
  <2>4. QED BY <1>2, <1>3, <1>4, <2>3
<1>10. Handing(N, p, g)
  BY <1>6, <1>8, <1>9 DEF Handing, q, T
<1>11. QED BY <1>10 DEF g

\* A largest remainder there always is.
LEMMA LargestExists ==
  ASSUME NEW N \in Nat, NEW p, Parts(p), NEW c, Handing(N, p, c)
  PROVE  \E d \in 1 .. Len(p) : /\ Rem(N, p, c)[d] > -Total(p)
                                /\ \A e \in 1 .. Len(p) : Rem(N, p, c)[e] <= Rem(N, p, c)[d]
<1> DEFINE r == Rem(N, p, c)
           T == Total(p)
           below == {T - r[d] : d \in 1 .. Len(p)}
<1>1. c \in Seq(Int) /\ Len(c) = Len(p)
  BY DEF Handing
<1>2. (\A e \in 1 .. Len(p) : r[e] \in Int) /\ T \in Int
  BY <1>1, RemAddsUp, PartsAddUp
<1>3. \A e \in 1 .. Len(p) : r[e] > -T /\ r[e] <= T
  BY DEF Handing
<1>4. 1 \in 1 .. Len(p)
  BY DEF Parts
<1> HIDE DEF r, T
<1>5. PICK x \in below : \A y \in below : x <= y
  <2>1. below \in SUBSET Nat /\ below # {}
    BY <1>2, <1>3, <1>4
  <2> HIDE DEF below
  <2>2. QED BY <2>1, LeastElement
<1>6. PICK d \in 1 .. Len(p) : x = T - r[d]
  OBVIOUS
<1>7. \A e \in 1 .. Len(p) : r[e] <= r[d]
  <2>1. ASSUME NEW e \in 1 .. Len(p) PROVE r[e] <= r[d]
    <3>1. x <= T - r[e]
      BY <1>5
    <3>2. QED BY <1>2, <1>6, <3>1
  <2>2. QED BY <2>1
<1>8. QED BY <1>3, <1>7 DEF r, T

\* If no share is exceeded, no more than there is has been handed out.
LEMMA NoneExceeded ==
  ASSUME NEW N \in Nat, NEW p, Parts(p), NEW c \in Seq(Int), Len(c) = Len(p),
         \A d \in 1 .. Len(p) : Rem(N, p, c)[d] >= 0
  PROVE  Total(c) <= N
<1> DEFINE r == Rem(N, p, c)
<1>1. /\ r \in Seq(Int) /\ Len(r) = Len(p) /\ Total(c) \in Int
      /\ Total(r) = Total(p) * (N - Total(c))
  BY RemAddsUp
<1>2. Total(p) \in Int /\ Total(p) > 0
  BY PartsAddUp
<1>3. \A d \in 1 .. Len(r) : r[d] >= 0
  BY <1>1
<1> HIDE DEF r
<1>4. Len(r) \in 0 .. Len(r) /\ Total(r) = PartialSums(r)[Len(r)]
  BY <1>1, SumStep
<1>5. Total(r) >= 0
  BY <1>1, <1>3, <1>4, SumGrows
<1>6. N - Total(c) \in Int
  BY <1>1
<1>7. N - Total(c) >= 0
  BY <1>1, <1>2, <1>5, <1>6, SignOfProduct
<1>8. QED BY <1>1, <1>7

\* The floor of a share leaves less than one.
LEMMA FloorOfShare ==
  ASSUME NEW X \in Nat, NEW T \in Nat, T > 0
  PROVE  /\ X \div T \in Nat
         /\ X - (X \div T) * T \in 0 .. T - 1
         /\ X > 0 /\ X % T = 0 => /\ (X \div T) - 1 \in Nat
                                  /\ X - ((X \div T) - 1) * T = T
<1> DEFINE q == X \div T
<1>1. q \in Int /\ T * q <= X /\ X < T * q + T
  BY DivBounds
<1>2. X % T = 0 => X = T * q
  OBVIOUS
<1> HIDE DEF q
<1>3. T * q \in Int /\ T * q = q * T /\ (q - 1) * T = q * T - T
  BY <1>1, Distributes
<1>4. q >= 0
  <2>1. SUFFICES ASSUME q < 0 PROVE FALSE
    BY <1>1
  <2>2. -q - 1 \in Int /\ -q - 1 >= 0
    BY <1>1, <2>1
  <2>3. T * (-q - 1) >= 0
    BY <2>2, SignOfProduct
  <2>4. T * (-q - 1) = -(T * q) - T
    BY <1>1
  <2>5. QED BY <1>1, <1>3, <2>3, <2>4
<1>5. X > 0 /\ X % T = 0 => q # 0
  BY <1>2
<1>6. QED BY <1>1, <1>2, <1>3, <1>4, <1>5 DEF q

\* The floors of the caps, some of them one below a whole share.
LEMMA FloorsHand ==
  ASSUME NEW N \in Nat, NEW p, Parts(p),
         NEW low, \A d \in low : (N * p[d]) % Total(p) = 0,
         NEW c, c = [d \in 1 .. Len(p) |->
                       (N * p[d]) \div Total(p)
                         - (IF d \in low /\ N * p[d] > 0 THEN 1 ELSE 0)]
  PROVE  Handing(N, p, c)
<1> DEFINE T == Total(p)
<1>1. T \in Nat /\ T > 0 /\ Len(p) \in Nat /\ \A d \in 1 .. Len(p) : p[d] \in Nat
  BY PartsAddUp DEF Parts
<1>2. ASSUME NEW d \in 1 .. Len(p)
      PROVE  c[d] \in Nat /\ Rem(N, p, c)[d] \in 0 .. T
  <2> DEFINE X == N * p[d]
  <2>1. X \in Nat
    BY <1>1
  <2>2. c[d] = X \div T - (IF d \in low /\ X > 0 THEN 1 ELSE 0)
    OBVIOUS
  <2>3. d \in low => X % T = 0
    OBVIOUS
  <2>4. Rem(N, p, c)[d] = X - c[d] * T
    BY DEF Rem
  <2> HIDE DEF X, T
  <2>5. /\ X \div T \in Nat
        /\ X - (X \div T) * T \in 0 .. T - 1
        /\ X > 0 /\ X % T = 0 => /\ (X \div T) - 1 \in Nat
                                 /\ X - ((X \div T) - 1) * T = T
    BY <1>1, <2>1, FloorOfShare
  <2>6. CASE d \in low /\ X > 0
    <3>1. c[d] = (X \div T) - 1
      BY <2>2, <2>6
    <3>2. QED BY <1>1, <2>3, <2>4, <2>5, <2>6, <3>1
  <2>7. CASE ~(d \in low /\ X > 0)
    <3>1. c[d] = X \div T
      BY <2>2, <2>5, <2>7
    <3>2. Rem(N, p, c)[d] = X - (X \div T) * T
      BY <2>4, <3>1
    <3>3. QED BY <1>1, <2>5, <3>1, <3>2
  <2>8. QED BY <2>6, <2>7
<1>3. c \in Seq(Nat) /\ c \in Seq(Int) /\ Len(c) = Len(p)
  <2>1. c = [d \in 1 .. Len(p) |-> c[d]]
    OBVIOUS
  <2> HIDE DEF T
  <2>2. \A d \in 1 .. Len(p) : c[d] \in Nat
    BY <1>2
  <2>3. QED BY <1>1, <2>1, <2>2
<1> HIDE DEF T
<1>4. \A d \in 1 .. Len(p) : /\ Rem(N, p, c)[d] >= 0 /\ Rem(N, p, c)[d] > -T
                             /\ Rem(N, p, c)[d] <= T
  BY <1>1, <1>2
<1>5. Total(c) <= N
  BY <1>3, <1>4, NoneExceeded
<1>6. QED BY <1>3, <1>4, <1>5 DEF Handing, T

\* The floors of the homes, cut to the room there is.
LEMMA FloorsFit ==
  ASSUME NEW N \in Nat, NEW p, Parts(p), NEW room, \A d \in 1 .. Len(p) : room[d] \in Nat,
         NEW c, c = [d \in 1 .. Len(p) |->
                       Plan!Smaller((N * p[d]) \div Total(p), room[d])]
  PROVE  /\ c \in Seq(Nat) /\ Len(c) = Len(p) /\ Total(c) <= N
         /\ \A d \in 1 .. Len(p) : c[d] <= room[d]
<1> DEFINE T == Total(p)
<1>1. T \in Nat /\ T > 0 /\ Len(p) \in Nat /\ \A d \in 1 .. Len(p) : p[d] \in Nat
  BY PartsAddUp DEF Parts
<1>2. ASSUME NEW d \in 1 .. Len(p)
      PROVE  c[d] \in Nat /\ c[d] <= room[d] /\ Rem(N, p, c)[d] >= 0
  <2> DEFINE X == N * p[d]
             q == X \div T
             k == room[d]
  <2>1. X \in Nat /\ k \in Nat
    BY <1>1
  <2>2. c[d] = IF q <= k THEN q ELSE k
    BY DEF Plan!Smaller
  <2>3. Rem(N, p, c)[d] = X - c[d] * T
    BY DEF Rem
  <2>4. q \in Nat /\ X - q * T >= 0
    <3> HIDE DEF X, T
    <3>1. X \div T \in Nat /\ X - (X \div T) * T \in 0 .. T - 1
      BY <1>1, <2>1, FloorOfShare
    <3>2. \A z \in 0 .. T - 1 : z >= 0
      BY <1>1
    <3>3. QED BY <3>1, <3>2 DEF q
  <2> DEFINE x == c[d]
  <2> HIDE DEF X, T, q, k, x
  <2>5. x \in Nat /\ x <= q /\ x <= k
    BY <2>1, <2>2, <2>4 DEF x
  <2>6. x * T <= q * T
    <3>1. q - x \in Int /\ q - x >= 0
      BY <2>4, <2>5
    <3>2. T * (q - x) >= 0
      BY <1>1, <3>1, SignOfProduct
    <3>3. T * (q - x) = q * T - x * T /\ q * T \in Int /\ x * T \in Int
      BY <1>1, <2>4, <2>5
    <3>4. QED BY <3>2, <3>3
  <2>7. q * T \in Int /\ x * T \in Int
    BY <1>1, <2>4, <2>5
  <2>8. X - x * T >= 0
    BY <2>1, <2>4, <2>6, <2>7
  <2>9. QED BY <2>3, <2>5, <2>8 DEF x, k
<1>3. c \in Seq(Nat) /\ c \in Seq(Int) /\ Len(c) = Len(p)
  <2>1. c = [d \in 1 .. Len(p) |-> c[d]]
    OBVIOUS
  <2>2. \A d \in 1 .. Len(p) : c[d] \in Nat
    BY <1>2
  <2>3. QED BY <1>1, <2>1, <2>2
<1>4. \A d \in 1 .. Len(p) : Rem(N, p, c)[d] >= 0 /\ c[d] <= room[d]
  BY <1>2
<1>5. Total(c) <= N
  BY <1>3, <1>4, NoneExceeded
<1>6. QED BY <1>3, <1>4, <1>5

-----------------------------------------------------------------------------
(* Tickets and blocks *)

LEMMA RowOfTickets ==
  ASSUME NEW n, NEW k \in Nat
  PROVE  IsFiniteSet({n} \X (0 .. k - 1)) /\ Cardinality({n} \X (0 .. k - 1)) = k
<1>1. IsFiniteSet({n}) /\ Cardinality({n}) = 1
  BY FS_Singleton
<1> DEFINE row == 0 .. k - 1
<1>2. IsFiniteSet(row) /\ Cardinality(row) = k
  BY FS_Interval
<1> HIDE DEF row
<1>3. IsFiniteSet({n} \X row) /\ Cardinality({n} \X row) = 1 * k
  <2>1. Cardinality({n} \X row) = Cardinality({n}) * Cardinality(row)
    BY <1>1, <1>2, FS_Product
  <2>2. QED BY <1>1, <1>2, <2>1, FS_Product
<1>4. QED BY <1>3 DEF row

LEMMA DisjointUnion ==
  ASSUME NEW A, NEW B, IsFiniteSet(A), IsFiniteSet(B), A \intersect B = {}
  PROVE  /\ IsFiniteSet(A \union B)
         /\ Cardinality(A \union B) = Cardinality(A) + Cardinality(B)
<1>1. Cardinality(A) \in Nat /\ Cardinality(B) \in Nat /\ Cardinality({}) = 0
  BY FS_CardinalityType, FS_EmptySet
<1>2. Cardinality(A \intersect B) = 0
  BY <1>1
<1>3. /\ IsFiniteSet(A \union B)
      /\ Cardinality(A \union B) = Cardinality(A) + Cardinality(B) - Cardinality(A \intersect B)
  BY FS_Union, Zenon
<1>4. QED BY <1>1, <1>2, <1>3

\* There are as many tickets as the caps add up to.
LEMMA TicketsAddUp ==
  ASSUME NEW N \in Nat, NEW c \in Seq(Nat), \A d \in 1 .. Len(c) : c[d] <= N
  PROVE  Cardinality({t \in (1 .. Len(c)) \X (0 .. N - 1) : t[2] < c[t[1]]}) = Total(c)
<1> DEFINE C == PartialSums(c)
           Tickets(n) == {t \in (1 .. n) \X (0 .. N - 1) : t[2] < c[t[1]]}
           S == {n \in 0 .. Len(c) :
                   IsFiniteSet(Tickets(n)) /\ Cardinality(Tickets(n)) = C[n]}
<1>1. /\ C[0] = 0
      /\ \A n \in 1 .. Len(c) : C[n] = C[n - 1] + c[n]
      /\ \A n \in 0 .. Len(c) : C[n] \in Int
      /\ Total(c) = C[Len(c)] /\ Len(c) \in Nat
  <2>1. c \in Seq(Int)
    OBVIOUS
  <2>2. QED BY <2>1, SumStep
<1> HIDE DEF C
<1>2. 0 \in S
  <2>1. Tickets(0) = {} /\ 0 \in 0 .. Len(c)
    BY <1>1
  <2> HIDE DEF Tickets
  <2>2. QED BY <1>1, <2>1, FS_EmptySet
<1>3. ASSUME NEW n \in 1 .. Len(c), n - 1 \in S PROVE n \in S
  <2> DEFINE own == {n} \X (0 .. c[n] - 1)
  <2>1. c[n] \in Nat /\ c[n] <= N /\ n \in 0 .. Len(c) /\ n \in Nat
    BY <1>1
  <2>2. IsFiniteSet(own) /\ Cardinality(own) = c[n]
    BY <2>1, RowOfTickets
  <2>5. Tickets(n) = Tickets(n - 1) \union own
    <3>1. ASSUME NEW t \in Tickets(n) PROVE t \in Tickets(n - 1) \union own
      <4>1. PICK d \in 1 .. n, i \in 0 .. N - 1 : t = <<d, i>>
        OBVIOUS
      <4>2. i < c[d]
        BY <4>1
      <4>3. CASE d = n
        BY <2>1, <4>1, <4>2, <4>3
      <4>4. CASE d # n
        <5>1. d \in 1 .. n - 1
          BY <2>1, <4>4
        <5>2. QED BY <4>1, <4>2, <5>1
      <4>5. QED BY <4>3, <4>4
    <3>2. ASSUME NEW t \in Tickets(n - 1) PROVE t \in Tickets(n)
      BY <2>1
    <3>3. ASSUME NEW t \in own PROVE t \in Tickets(n)
      BY <2>1
    <3>4. QED BY <3>1, <3>2, <3>3
  <2>6. Tickets(n - 1) \intersect own = {}
    BY <2>1
  <2>7. IsFiniteSet(Tickets(n - 1)) /\ Cardinality(Tickets(n - 1)) = C[n - 1]
    BY <1>3
  <2>8. C[n] = C[n - 1] + c[n] /\ C[n - 1] \in Int
    BY <1>1, <2>1
  <2> HIDE DEF Tickets, own
  <2>9. IsFiniteSet(Tickets(n - 1) \union own)
        /\ Cardinality(Tickets(n - 1) \union own)
             = Cardinality(Tickets(n - 1)) + Cardinality(own)
    BY <2>2, <2>6, <2>7, DisjointUnion
  <2>10. Cardinality(Tickets(n)) = C[n] /\ IsFiniteSet(Tickets(n))
    BY <2>1, <2>2, <2>5, <2>7, <2>8, <2>9
  <2>11. QED BY <2>1, <2>10
<1>4. Len(c) \in S
  <2> HIDE DEF S
  <2>1. QED BY <1>1, <1>2, <1>3, UpTo
<1>5. QED BY <1>1, <1>4

\* The slabs at home on d come after those at home before it.
Base(h, d) == PartialSums(h)[d - 1]
BlockOf(h, d) == Base(h, d) .. Base(h, d) + h[d] - 1

LEMMA BlocksAreApart ==
  ASSUME NEW N \in Nat, NEW h \in Seq(Nat), Total(h) <= N
  PROVE  \A d \in 1 .. Len(h) :
           /\ BlockOf(h, d) \subseteq 0 .. N - 1
           /\ \A e \in 1 .. Len(h) : d # e => BlockOf(h, d) \intersect BlockOf(h, e) = {}
<1> DEFINE H == PartialSums(h)
<1>1. /\ h \in Seq(Int) /\ Len(h) \in Nat /\ \A d \in 1 .. Len(h) : h[d] \in Nat /\ h[d] >= 0
  OBVIOUS
<1>2. /\ \A n \in 1 .. Len(h) : H[n] = H[n - 1] + h[n]
      /\ \A n \in 0 .. Len(h) : H[n] \in Int
      /\ Total(h) = H[Len(h)]
  BY <1>1, SumStep
<1>3. /\ \A n \in 0 .. Len(h) : H[n] >= 0
      /\ \A n \in 0 .. Len(h), m \in 0 .. Len(h) : m <= n => H[m] <= H[n]
  BY <1>1, SumGrows
<1>4. \A d \in 1 .. Len(h) : BlockOf(h, d) = H[d - 1] .. H[d - 1] + h[d] - 1
  BY DEF BlockOf, Base
<1> HIDE DEF H
<1>5. \A d \in 1 .. Len(h) : BlockOf(h, d) = H[d - 1] .. H[d] - 1
  <2>1. ASSUME NEW d \in 1 .. Len(h) PROVE BlockOf(h, d) = H[d - 1] .. H[d] - 1
    <3>1. H[d] = H[d - 1] + h[d] /\ BlockOf(h, d) = H[d - 1] .. H[d - 1] + h[d] - 1
      BY <1>2, <1>4
    <3>2. d - 1 \in 0 .. Len(h) /\ h[d] \in Int
      BY <1>1
    <3>3. H[d - 1] \in Int
      BY <1>2, <3>2
    <3>4. H[d - 1] + h[d] - 1 = H[d] - 1
      BY <3>1, <3>2, <3>3
    <3>5. QED BY <3>1, <3>4
  <2>2. QED BY <2>1
<1>6. ASSUME NEW d \in 1 .. Len(h) PROVE BlockOf(h, d) \subseteq 0 .. N - 1
  <2>1. d - 1 \in 0 .. Len(h) /\ d \in 0 .. Len(h) /\ d <= Len(h) /\ Len(h) \in 0 .. Len(h)
    BY <1>1
  <2>2. /\ H[d - 1] >= 0 /\ H[d] <= H[Len(h)]
        /\ H[d - 1] \in Int /\ H[d] \in Int /\ H[Len(h)] \in Int
    BY <1>2, <1>3, <2>1
  <2>3. H[Len(h)] <= N
    BY <1>2
  <2>4. \A s \in H[d - 1] .. H[d] - 1 : s \in 0 .. N - 1
    BY <2>2, <2>3
  <2>5. BlockOf(h, d) = H[d - 1] .. H[d] - 1
    BY <1>5
  <2>6. QED BY <2>4, <2>5
<1>7. ASSUME NEW d \in 1 .. Len(h), NEW e \in 1 .. Len(h), d < e
      PROVE  BlockOf(h, d) \intersect BlockOf(h, e) = {}
  <2>1. /\ d \in 0 .. Len(h) /\ e - 1 \in 0 .. Len(h) /\ d <= e - 1 /\ d - 1 \in 0 .. Len(h)
        /\ e \in 0 .. Len(h)
    BY <1>1, <1>7
  <2>2. /\ H[d] <= H[e - 1] /\ H[d] \in Int /\ H[e - 1] \in Int /\ H[d - 1] \in Int
        /\ H[e] \in Int
    BY <1>2, <1>3, <2>1
  <2>3. BlockOf(h, d) = H[d - 1] .. H[d] - 1 /\ BlockOf(h, e) = H[e - 1] .. H[e] - 1
    BY <1>5
  <2>4. \A s \in H[d - 1] .. H[d] - 1 : s \notin H[e - 1] .. H[e] - 1
    BY <2>2
  <2>5. QED BY <2>3, <2>4
<1>8. ASSUME NEW d \in 1 .. Len(h), NEW e \in 1 .. Len(h), d # e
      PROVE  BlockOf(h, d) \intersect BlockOf(h, e) = {}
  <2>1. d < e \/ e < d
    BY <1>8
  <2>2. QED BY <1>7, <2>1
<1>9. QED BY <1>6, <1>8

-----------------------------------------------------------------------------
(* The inductive invariant *)

\* Everything a configuration can be.
FractionMaps == {<< >>} \union {FractionSpec[text] : text \in DOMAIN FractionSpec}
WeightMaps ==
  {<< >>} \union Files \union {WeightSpec[text] : text \in DOMAIN WeightSpec}
Configs ==
  [fraction : Nat, fractions : FractionMaps, budgetCap : Nat \union {NotGiven},
   scratch : Nat \union {NotGiven}, slab : Nat, hasTierCap : BOOLEAN,
   tierAuto : BOOLEAN, tierCap : Nat, noHostTier : BOOLEAN, list : BOOLEAN,
   only : {"", "amd", "nvidia"}, disable : {"", "amd"}, weights : WeightMaps,
   noGpu : BOOLEAN, sieveDevice : Nat \union {NotGiven}]

Parsing == {"load", "parse", "validate", "dispatch"}
Filtering == {"budgets", "narrow", "gate", "schedule", "sieve"}
Budgeted == {"narrow", "gate", "schedule", "sieve"}
Admitted == {"schedule", "sieve"}

\* The command line: a tier cap stands only where one was given, weights are
\* positive once the file is accepted, and what validateConfig lets through
\* stays valid.
Weighed == \A v \in DOMAIN cfg.weights : cfg.weights[v] \in Nat /\ cfg.weights[v] > 0
LineInv ==
  /\ stage \in Parsing \union {"leg", "exit"} \union Filtering
  /\ cfg \in Configs
  /\ cfg.tierAuto => cfg.hasTierCap
  /\ ~cfg.hasTierCap => cfg.tierCap = 0
  /\ stage \notin {"load", "exit"} => Weighed
  /\ stage \in {"dispatch", "leg"} \union Filtering =>
       Line!Valid /\ (cfg.noHostTier => cfg.tierCap = 0)

\* The leg: its devices are wanted, each can afford what it was given, and the
\* gate was passed by what the devices together have.
DeviceRecords == [vendor : {"amd", "nvidia"}, free : Nat]
BudgetRecords == [scratch : Nat, backing : Nat]
Affords(b, i) ==
  /\ cfg.slab <= b.backing
  /\ \A f \in FractionsAsked(i) :
       b.backing + b.scratch + Headroom <= (f * devs[i].free) \div 100
  /\ cfg.budgetCap # NotGiven => b.backing + b.scratch + Headroom <= cfg.budgetCap
Backings == [i \in DOMAIN devs |-> budgets[i].backing]
LegInv ==
  /\ stage \in Filtering =>
       /\ devs \in Seq(DeviceRecords) /\ Len(devs) > 0
       /\ \A i \in DOMAIN devs : Wanted(devs[i])
  /\ stage \in Budgeted =>
       /\ budgets \in Seq(BudgetRecords) /\ Len(budgets) = Len(devs)
       /\ \A i \in DOMAIN devs : Affords(budgets[i], i)
       /\ aggregate \in Int
       /\ stage = "narrow" \/ cfg.sieveDevice = NotGiven => aggregate = Total(Backings)
  /\ stage \in Admitted /\ cfg.sieveDevice = NotGiven =>
       aggregate + HostPermitted >= MapBytes

\* The plan.
OwnersSet ==
  [s \in 0 .. numSlabs - 1 |->
     LET at == {d \in DOMAIN backing : s \in Base(home, d) .. Base(home, d) + home[d] - 1}
     IN IF at = {} THEN Plan!Homeless ELSE CHOOSE d \in at : TRUE]
PlanInv ==
  /\ phase \in {"idle", "home", "homeTopUp", "cap", "capTopUp", "owners", "done"}
  /\ phase # "idle" =>
       /\ stage = "sieve"
       /\ numSlabs \in Nat /\ numSlabs >= 1 /\ slab = cfg.slab /\ slab % 8 = 0
       /\ backing = Backings /\ weight = [i \in DOMAIN devs |-> WeightFor(devs[i])]
       /\ home \in Seq(Nat) /\ Len(home) = Len(devs)
       /\ \A d \in DOMAIN devs : home[d] <= Plan!CapHome(d)
       /\ cap \in Seq(Nat) /\ Len(cap) = Len(devs)
       /\ DOMAIN ownerOf = 0 .. numSlabs - 1
  /\ phase \notin {"idle", "home"} => Total(home) <= numSlabs
  /\ phase \in {"capTopUp", "owners", "done"} => Handing(numSlabs, weight, cap)
  /\ phase \in {"owners", "done"} => Total(cap) >= numSlabs
  /\ phase = "done" => ownerOf = OwnersSet

IInv == LineInv /\ LegInv /\ PlanInv

LEMMA InitInv == Init => IInv
<1>1. ASSUME Init PROVE LineInv
  <2>1. stage = "load" /\ cfg = Line!Config(SlabDefault)
    BY <1>1 DEF Init
  <2>2. cfg \in Configs /\ ~cfg.tierAuto /\ cfg.tierCap = 0
    BY <2>1, MemoryAssumption
    DEF Line!Config, Configs, FractionMaps, WeightMaps, NotGiven, Line!NotGiven
  <2>3. QED BY <2>1, <2>2 DEF LineInv, Parsing, Filtering
<1>2. ASSUME Init PROVE LegInv
  BY <1>2 DEF Init, LegInv, Filtering, Budgeted, Admitted
<1>3. ASSUME Init PROVE PlanInv
  BY <1>3 DEF Init, Plan!Init, PlanInv
<1>4. QED BY <1>1, <1>2, <1>3 DEF IInv

-----------------------------------------------------------------------------
(* The command line *)

\* A step of the command line changes neither the leg nor the plan, which are
\* both to come.
BeforeLeg(st) == st \in Parsing \union {"leg", "exit"}

LEMMA NothingPlannedYet ==
  ASSUME IInv, BeforeLeg(stage), BeforeLeg(stage'), LineInv',
         UNCHANGED <<devs, budgets, aggregate, planVars>>
  PROVE  IInv'
<1>1. stage # "sieve" /\ stage' \notin Filtering
  BY DEF BeforeLeg, Parsing, Filtering
<1>2. phase = "idle" /\ phase' = "idle"
  BY <1>1 DEF IInv, PlanInv, planVars
<1>3. LegInv'
  BY <1>1 DEF LegInv, Filtering, Budgeted, Admitted
<1>4. PlanInv'
  BY <1>2 DEF PlanInv
<1>5. QED BY <1>3, <1>4 DEF IInv

LEMMA LoadStep ==
  ASSUME LineInv, Line!LoadPullWeights
  PROVE  LineInv' /\ BeforeLeg(stage) /\ BeforeLeg(stage')
<1>1. PICK file \in Files :
        /\ cfg' = [cfg EXCEPT !.weights = file]
        /\ stage' = IF \A v \in DOMAIN file : file[v] > 0 THEN "parse" ELSE "exit"
  BY DEF Line!LoadPullWeights
<1>2. stage = "load"
  BY DEF Line!LoadPullWeights
<1>3. file \in WeightMaps /\ \A v \in DOMAIN file : file[v] \in Int
  BY SpecAssumption DEF WeightMaps
<1>4. cfg \in Configs
  BY DEF LineInv
<1>5. /\ cfg' \in Configs /\ cfg'.weights = file
      /\ cfg'.tierAuto = cfg.tierAuto /\ cfg'.tierCap = cfg.tierCap
      /\ cfg'.hasTierCap = cfg.hasTierCap
  BY <1>1, <1>3, <1>4 DEF Configs
<1>6. stage' \in {"parse", "exit"} /\ (stage' = "parse" => Weighed')
  BY <1>1, <1>3, <1>5 DEF Weighed
<1>7. QED BY <1>2, <1>5, <1>6 DEF LineInv, BeforeLeg, Parsing, Filtering

LEMMA PositionalStep ==
  ASSUME LineInv, Line!Positional
  PROVE  LineInv' /\ BeforeLeg(stage) /\ BeforeLeg(stage')
<1>1. stage = "parse" /\ stage' = "parse" /\ cfg' = cfg
  BY DEF Line!Positional
<1>2. QED BY <1>1 DEF LineInv, BeforeLeg, Parsing, Filtering, Weighed

\* What parseArgs may do to the configuration while it reads the arguments.
ParsedFrom(c) ==
  /\ c \in Configs
  /\ c.tierAuto => c.hasTierCap
  /\ ~c.hasTierCap => c.tierCap = 0
  /\ \A v \in DOMAIN c.weights : c.weights[v] \in Nat /\ c.weights[v] > 0

LEMMA SwitchStep ==
  ASSUME LineInv, Line!Switch
  PROVE  LineInv' /\ BeforeLeg(stage) /\ BeforeLeg(stage')
<1>1. PICK t \in Tokens : t.name \in Line!Switches /\ cfg' = Line!WithSwitch(t.name)
  BY DEF Line!Switch
<1>2. stage = "parse" /\ stage' = "parse"
  BY DEF Line!Switch
<1>3. cfg \in Configs /\ ParsedFrom(cfg)
  BY <1>2 DEF LineInv, ParsedFrom, Weighed
<1>4. \/ cfg' = [cfg EXCEPT !.list = TRUE] \/ cfg' = [cfg EXCEPT !.noHostTier = TRUE]
      \/ cfg' = [cfg EXCEPT !.noGpu = TRUE] \/ cfg' = cfg
  <2>1. CASE t.name = "--list-devices"
    BY <1>1, <2>1 DEF Line!WithSwitch
  <2>2. CASE t.name = "--no-host-tier"
    BY <1>1, <2>2 DEF Line!WithSwitch
  <2>3. CASE t.name = "--no-gpu"
    BY <1>1, <2>3 DEF Line!WithSwitch
  <2>4. CASE t.name = "--gpu-search"
    BY <1>1, <2>4 DEF Line!WithSwitch
  <2>5. QED BY <1>1, <2>1, <2>2, <2>3, <2>4 DEF Line!Switches
<1>5. /\ cfg' \in Configs /\ cfg'.weights = cfg.weights
      /\ cfg'.tierAuto = cfg.tierAuto /\ cfg'.tierCap = cfg.tierCap
      /\ cfg'.hasTierCap = cfg.hasTierCap
  BY <1>3, <1>4 DEF Configs
<1>6. QED BY <1>2, <1>3, <1>5 DEF LineInv, ParsedFrom, BeforeLeg, Parsing, Filtering, Weighed

\* An option that is accepted.
LEMMA OptionKeeps ==
  ASSUME ParsedFrom(cfg), NEW name, NEW text, Line!Accepts(name, text)
  PROVE  ParsedFrom(Line!WithOption(name, text))
<1> DEFINE c == Line!WithOption(name, text)
<1>1. cfg \in Configs
  BY DEF ParsedFrom
<1>2. CASE name = "--vram-fraction"
  <2>1. c = [cfg EXCEPT !.fraction = Fraction[text]] /\ Fraction[text] \in Nat
    BY <1>2, TablesAssumption DEF Line!Accepts, Line!WithOption
  <2>2. QED BY <1>1, <2>1 DEF ParsedFrom, Configs
<1>3. CASE name = "--device-vram-fraction"
  <2>1. /\ c = [cfg EXCEPT !.fractions = FractionSpec[text]]
        /\ FractionSpec[text] \in FractionMaps
    BY <1>3 DEF Line!Accepts, Line!WithOption, FractionMaps
  <2>2. QED BY <1>1, <2>1 DEF ParsedFrom, Configs
<1>4. CASE name = "--pull-weights"
  <2>1. /\ c = [cfg EXCEPT !.weights = WeightSpec[text]]
        /\ WeightSpec[text] \in WeightMaps /\ text \in DOMAIN WeightSpec
    BY <1>4 DEF Line!Accepts, Line!WithOption, WeightMaps
  <2>2. \A v \in DOMAIN WeightSpec[text] : WeightSpec[text][v] \in Nat /\ WeightSpec[text][v] > 0
    BY <2>1, SpecAssumption
  <2>3. QED BY <1>1, <2>1, <2>2 DEF ParsedFrom, Configs
<1>5. CASE name = "--vram-budget"
  <2>1. c = [cfg EXCEPT !.budgetCap = Size[text]] /\ Size[text] \in Nat
    BY <1>5, TablesAssumption DEF Line!Accepts, Line!WithOption
  <2>2. QED BY <1>1, <2>1 DEF ParsedFrom, Configs
<1>6. CASE name = "--scratch"
  <2>1. c = [cfg EXCEPT !.scratch = Size[text]] /\ Size[text] \in Nat
    BY <1>6, TablesAssumption DEF Line!Accepts, Line!WithOption
  <2>2. QED BY <1>1, <2>1 DEF ParsedFrom, Configs
<1>7. CASE name = "--slab-size"
  <2>1. c = [cfg EXCEPT !.slab = Size[text]] /\ Size[text] \in Nat
    BY <1>7, TablesAssumption DEF Line!Accepts, Line!WithOption
  <2>2. QED BY <1>1, <2>1 DEF ParsedFrom, Configs
<1>8. CASE name = "--host-tier-cap"
  <2>1. c = IF text = "auto" THEN [cfg EXCEPT !.hasTierCap = TRUE, !.tierAuto = TRUE]
            ELSE [cfg EXCEPT !.hasTierCap = TRUE, !.tierCap = Size[text]]
    BY <1>8 DEF Line!WithOption
  <2>2. text # "auto" => Size[text] \in Nat
    BY <1>8, TablesAssumption DEF Line!Accepts
  <2>3. CASE text = "auto"
    BY <1>1, <2>1, <2>3 DEF ParsedFrom, Configs
  <2>4. CASE text # "auto"
    BY <1>1, <2>1, <2>2, <2>4 DEF ParsedFrom, Configs
  <2>5. QED BY <2>3, <2>4
<1>9. CASE name = "--devices"
  <2>1. c = [cfg EXCEPT !.only = text] /\ text \in {"amd", "nvidia"}
    BY <1>9 DEF Line!Accepts, Line!WithOption
  <2>2. QED BY <1>1, <2>1 DEF ParsedFrom, Configs
<1>10. CASE name = "--disable-vendor"
  <2>1. c = [cfg EXCEPT !.disable = text] /\ text = "amd"
    BY <1>10 DEF Line!Accepts, Line!WithOption
  <2>2. QED BY <1>1, <2>1 DEF ParsedFrom, Configs
<1>11. CASE name = "--sieve-device"
  <2>1. c = [cfg EXCEPT !.sieveDevice = Number[text]] /\ Number[text] \in Nat
    BY <1>11, TablesAssumption DEF Line!Accepts, Line!WithOption
  <2>2. QED BY <1>1, <2>1 DEF ParsedFrom, Configs
<1>12. CASE name \in {"--threads", "--gpu-search-device", "--dump-map"}
  <2>1. c = cfg
    BY <1>12 DEF Line!WithOption
  <2>2. QED BY <2>1
<1>13. QED
  BY <1>2, <1>3, <1>4, <1>5, <1>6, <1>7, <1>8, <1>9, <1>10, <1>11, <1>12 DEF Line!Accepts

LEMMA OptionStep ==
  ASSUME LineInv, Line!Option
  PROVE  LineInv' /\ BeforeLeg(stage) /\ BeforeLeg(stage')
<1>1. PICK t, text :
        IF Line!Accepts(t.name, text)
        THEN cfg' = Line!WithOption(t.name, text) /\ UNCHANGED stage
        ELSE stage' = "exit" /\ UNCHANGED cfg
  BY DEF Line!Option
<1>2. stage = "parse"
  BY DEF Line!Option
<1>3. ParsedFrom(cfg)
  BY <1>2 DEF LineInv, ParsedFrom, Weighed
<1>4. ParsedFrom(cfg') /\ stage' \in {"parse", "exit"}
  BY <1>1, <1>2, <1>3, OptionKeeps
<1>5. QED BY <1>2, <1>4 DEF LineInv, ParsedFrom, BeforeLeg, Parsing, Filtering, Weighed

\* A step after which the configuration is the same.
LEMMA StopOrGoOn ==
  ASSUME LineInv, cfg' = cfg,
         \/ stage = "parse" /\ stage' \in {"validate", "exit"}
         \/ stage = "validate" /\ stage' = "exit"
         \/ stage = "dispatch" /\ stage' \in {"leg", "exit"}
  PROVE  LineInv' /\ BeforeLeg(stage) /\ BeforeLeg(stage')
<1>1. Line!Valid' <=> Line!Valid
  BY DEF Line!Valid, Line!InBand, Line!SlabSizeValueAligned
<1>2. QED BY <1>1 DEF LineInv, BeforeLeg, Parsing, Filtering, Weighed

LEMMA ValidateStep ==
  ASSUME LineInv, Line!ValidateConfig
  PROVE  LineInv' /\ BeforeLeg(stage) /\ BeforeLeg(stage')
<1>1. stage = "validate"
  BY DEF Line!ValidateConfig
<1>2. CASE ~Line!Valid
  BY <1>1, <1>2, StopOrGoOn DEF Line!ValidateConfig
<1>3. CASE Line!Valid
  <2> DEFINE tier == IF cfg.noHostTier THEN 0
                     ELSE IF cfg.tierAuto THEN HostAuto ELSE cfg.tierCap
  <2>1. stage' = "dispatch" /\ cfg' = [cfg EXCEPT !.tierCap = tier, !.tierAuto = FALSE]
    BY <1>3 DEF Line!ValidateConfig
  <2>2. cfg \in Configs /\ ParsedFrom(cfg)
    BY <1>1 DEF LineInv, ParsedFrom, Weighed
  <2>3. tier \in Nat /\ (cfg.noHostTier => tier = 0) /\ (~cfg.hasTierCap => tier = 0)
    BY <2>2, MemoryAssumption DEF ParsedFrom, Configs
  <2> HIDE DEF tier
  <2>4. /\ cfg' \in Configs /\ cfg'.tierCap = tier /\ ~cfg'.tierAuto
        /\ cfg'.weights = cfg.weights /\ cfg'.hasTierCap = cfg.hasTierCap
        /\ cfg'.noHostTier = cfg.noHostTier /\ cfg'.noGpu = cfg.noGpu
        /\ cfg'.fraction = cfg.fraction /\ cfg'.fractions = cfg.fractions
        /\ cfg'.budgetCap = cfg.budgetCap /\ cfg'.scratch = cfg.scratch
        /\ cfg'.slab = cfg.slab
    BY <2>1, <2>2, <2>3 DEF Configs
  <2>5. Line!Valid'
    BY <1>3, <2>4 DEF Line!Valid, Line!InBand, Line!SlabSizeValueAligned
  <2>6. Weighed'
    BY <2>2, <2>4 DEF Weighed, ParsedFrom
  <2>7. QED
    BY <1>1, <2>1, <2>3, <2>4, <2>5, <2>6 DEF LineInv, BeforeLeg, Parsing, Filtering
<1>4. QED BY <1>2, <1>3

LEMMA LineStep ==
  ASSUME IInv, Line!Next, UNCHANGED <<devs, budgets, aggregate, planVars>>
  PROVE  IInv'
<1>1. LineInv
  BY DEF IInv
<1>2. LineInv' /\ BeforeLeg(stage) /\ BeforeLeg(stage')
  <2>1. CASE Line!LoadPullWeights
    BY <1>1, <2>1, LoadStep
  <2>2. CASE Line!Positional
    BY <1>1, <2>2, PositionalStep
  <2>3. CASE Line!Switch
    BY <1>1, <2>3, SwitchStep
  <2>4. CASE Line!Option
    BY <1>1, <2>4, OptionStep
  <2>5. CASE Line!Usage
    BY <1>1, <2>5, StopOrGoOn DEF Line!Usage
  <2>6. CASE Line!EndOfArgs
    BY <1>1, <2>6, StopOrGoOn DEF Line!EndOfArgs
  <2>7. CASE Line!ValidateConfig
    BY <1>1, <2>7, ValidateStep
  <2>8. CASE Line!Dispatch
    BY <1>1, <2>8, StopOrGoOn DEF Line!Dispatch
  <2>9. QED BY <2>1, <2>2, <2>3, <2>4, <2>5, <2>6, <2>7, <2>8 DEF Line!Next
<1>3. QED BY <1>2, NothingPlannedYet

-----------------------------------------------------------------------------
(* The leg, up to its plan *)

LEMMA DivNat ==
  ASSUME NEW x \in Nat, NEW d \in Nat, d > 0
  PROVE  x \div d \in Nat
  BY FloorOfShare

LEMMA MapBytesNat == MapBytes \in Nat
<1>1. \A text : Numeral(text) \in Nat
  BY TablesAssumption DEF Numeral
<1>2. SumStart \in Nat /\ SumLimit \in Nat
  BY <1>1 DEF SumStart, SumLimit, Odd
<1>3. ASSUME NEW start \in Nat, NEW limit \in Nat
      PROVE  InternalMapBytes(start, limit) \in Nat
  <2> DEFINE last == Greater(limit, Greater(5, Odd(start)))
             prime == (last + 1) \div 2
             square == prime * prime
             primeLimit == square \div 4 + 2
             mapBytes == (primeLimit + 15) \div 16
  <2>1. last \in Nat
    BY DEF Greater, Odd
  <2> HIDE DEF last
  <2>2. prime \in Nat
    BY <2>1, DivNat
  <2> HIDE DEF prime
  <2>3. square \in Nat
    BY <2>2
  <2> HIDE DEF square
  <2>4. square \div 4 \in Nat
    BY <2>3, DivNat
  <2>5. primeLimit \in Nat
    BY <2>4
  <2> HIDE DEF primeLimit
  <2>6. mapBytes \in Nat
    BY <2>5, DivNat
  <2> HIDE DEF mapBytes
  <2>7. (16 * mapBytes + 29) \div 30 \in Nat
    BY <2>6, DivNat
  <2>8. InternalMapBytes(start, limit) = (16 * mapBytes + 29) \div 30
    BY DEF InternalMapBytes, mapBytes, primeLimit, square, prime, last
  <2>9. QED BY <2>7, <2>8
<1>4. QED BY <1>2, <1>3 DEF MapBytes

\* A step of the leg that leaves the configuration as it is.
LEMMA LineStays ==
  ASSUME LineInv, cfg' = cfg, stage \in {"leg"} \union Filtering,
         stage' \in {"exit"} \union Filtering
  PROVE  LineInv'
<1>1. Line!Valid' <=> Line!Valid
  BY DEF Line!Valid, Line!InBand, Line!SlabSizeValueAligned
<1>2. QED BY <1>1 DEF LineInv, Parsing, Filtering, Weighed

\* No plan is made before the scheduler is called.
LEMMA NoPlanYet ==
  ASSUME PlanInv, stage # "sieve", UNCHANGED planVars
  PROVE  PlanInv' /\ phase = "idle" /\ phase' = "idle"
<1>1. phase = "idle" /\ phase' = "idle"
  BY DEF PlanInv, planVars
<1>2. QED BY <1>1 DEF PlanInv

\* The devices that are left are devices of the machine, and wanted.
LEMMA FilteredAreWanted ==
  ASSUME NEW machine \in Seq(DeviceRecords)
  PROVE  /\ Filtered(machine) \in Seq(DeviceRecords)
         /\ \A i \in DOMAIN Filtered(machine) : Wanted(Filtered(machine)[i])
<1> DEFINE kept == {i \in DOMAIN machine : Wanted(machine[i])}
           kth(k) == CHOOSE i \in kept : Cardinality({j \in kept : j < i}) = k - 1
<1>1. kept \in SUBSET Nat /\ IsFiniteSet(kept)
  <2>1. IsFiniteSet(1 .. Len(machine))
    BY FS_Interval
  <2>2. kept \subseteq 1 .. Len(machine)
    OBVIOUS
  <2> HIDE DEF kept
  <2>3. IsFiniteSet(kept)
    BY <2>1, <2>2, FS_Subset
  <2>4. QED BY <2>2, <2>3
<1>2. \A i \in kept : machine[i] \in DeviceRecords /\ Wanted(machine[i])
  OBVIOUS
<1>3. Filtered(machine) = [k \in 1 .. Cardinality(kept) |-> machine[kth(k)]]
  BY DEF Filtered
<1> HIDE DEF kept
<1>4. ASSUME NEW k \in 1 .. Cardinality(kept) PROVE kth(k) \in kept
  <2>1. \E i \in kept : Cardinality(Below(kept, i)) = k - 1
    BY <1>1, RankTaken
  <2>2. QED BY <2>1 DEF Below
<1>5. Cardinality(kept) \in Nat
  BY <1>1, FS_CardinalityType
<1> DEFINE n == Cardinality(kept)
<1> HIDE DEF kth, n
<1>6. \A k \in 1 .. n : machine[kth(k)] \in DeviceRecords /\ Wanted(machine[kth(k)])
  BY <1>2, <1>4 DEF n
<1>7. Filtered(machine) = [k \in 1 .. n |-> machine[kth(k)]] /\ n \in Nat
  BY <1>3, <1>5 DEF n
<1>8. QED BY <1>6, <1>7

LEMMA FilterStep ==
  ASSUME IInv, FilterDevices
  PROVE  IInv'
<1>1. PICK machine \in Machines : devs' = Filtered(machine)
  BY DEF FilterDevices
<1>2. /\ stage = "leg" /\ stage' = IF devs' = << >> THEN "exit" ELSE "budgets"
      /\ cfg' = cfg /\ UNCHANGED planVars
  BY DEF FilterDevices
<1>3. LineInv' /\ PlanInv'
  BY <1>2, LineStays, NoPlanYet DEF IInv, Filtering
<1>4. /\ devs' \in Seq(DeviceRecords)
      /\ \A i \in DOMAIN devs' : Wanted(devs'[i])
  <2>1. machine \in Seq(DeviceRecords)
    BY MachinesAssumption DEF DeviceRecords
  <2>2. QED BY <1>1, <2>1, FilteredAreWanted
<1>5. \A d : Wanted(d)' <=> Wanted(d)
  BY <1>2 DEF Wanted
<1>6. stage' = "budgets" => Len(devs') > 0
  BY <1>2, <1>4
<1>7. LegInv'
  <2>1. \A i \in DOMAIN devs' : Wanted(devs[i])'
    BY <1>2, <1>4 DEF Wanted
  <2>2. stage' \in {"exit", "budgets"}
    BY <1>2
  <2>3. QED BY <1>4, <1>6, <2>1, <2>2 DEF LegInv, Filtering, Budgeted, Admitted
<1>8. QED BY <1>3, <1>7 DEF IInv

\* The fraction that is used is the one that was asked for, and in the band.
LEMMA FractionUsed ==
  ASSUME cfg \in Configs, NEW i
  PROVE  /\ FractionFor(i) \in Nat
         /\ \A f \in FractionsAsked(i) : f = FractionFor(i)
         /\ Line!Valid => FractionFor(i) \in 10 .. 100
<1> DEFINE named == cfg.fractions
<1>1. cfg.fraction \in Nat /\ named \in FractionMaps
  BY DEF Configs
<1>2. \A v \in DOMAIN named : named[v] \in Nat
  BY <1>1, SpecAssumption DEF FractionMaps
<1>3. \/ devs[i].vendor \in DOMAIN named /\ FractionFor(i) = named[devs[i].vendor]
      \/ /\ devs[i].vendor \notin DOMAIN named /\ IndexText[i] \in DOMAIN named
         /\ FractionFor(i) = named[IndexText[i]]
      \/ /\ devs[i].vendor \notin DOMAIN named /\ IndexText[i] \notin DOMAIN named
         /\ FractionFor(i) = cfg.fraction
  <2>1. CASE devs[i].vendor \in DOMAIN named
    BY <2>1 DEF FractionFor
  <2>2. CASE devs[i].vendor \notin DOMAIN named /\ IndexText[i] \in DOMAIN named
    BY <2>2 DEF FractionFor
  <2>3. CASE devs[i].vendor \notin DOMAIN named /\ IndexText[i] \notin DOMAIN named
    BY <2>3 DEF FractionFor
  <2>4. QED BY <2>1, <2>2, <2>3
<1>4. FractionFor(i) \in Nat
  BY <1>1, <1>2, <1>3
<1>5. \A f \in FractionsAsked(i) : f = FractionFor(i)
  <2>1. named = << >> => DOMAIN named = {}
    OBVIOUS
  <2>2. QED BY <1>3, <2>1 DEF FractionsAsked
<1>6. Line!Valid => FractionFor(i) \in 10 .. 100
  <2>1. ASSUME Line!Valid PROVE FractionFor(i) >= 10 /\ FractionFor(i) <= 100
    BY <1>3, <2>1 DEF Line!Valid, Line!InBand
  <2>2. QED BY <1>4, <2>1
<1>7. QED BY <1>4, <1>5, <1>6

\* A backing takes what the headroom and the scratch leave, if that is anything.
LEMMA BackingFits ==
  ASSUME NEW budget \in Nat, NEW scratch \in Nat
  PROVE  /\ Backing(budget, scratch) \in Nat
         /\ Backing(budget, scratch) > 0 =>
              Backing(budget, scratch) + scratch + Headroom <= budget
<1> DEFINE left == Greater(0, budget - scratch - Headroom)
           G == Granularity
<1>1. left \in Nat /\ (left > 0 => left = budget - scratch - Headroom)
  BY MemoryAssumption DEF Greater
<1>2. G \in Nat /\ G > 0
  BY MemoryAssumption
<1>3. Backing(budget, scratch) = left - (left % G)
  BY DEF Backing
<1> HIDE DEF left, G
<1>4. left % G \in Nat /\ left % G <= left
  <2>1. left \div G \in Nat /\ left % G \in 0 .. G - 1
    BY <1>1, <1>2, DivNat
  <2>2. left = G * (left \div G) + (left % G)
    BY <1>1, <1>2
  <2>3. G * (left \div G) \in Nat
    BY <1>2, <2>1
  <2> DEFINE m == G * (left \div G)
  <2> HIDE DEF m
  <2>4. m \in Nat /\ left = m + (left % G)
    BY <2>2, <2>3 DEF m
  <2>5. QED BY <1>1, <1>2, <2>1, <2>4
<1>5. QED BY <1>1, <1>3, <1>4, MemoryAssumption

LEMMA BudgetFits ==
  ASSUME cfg \in Configs, Line!Valid, devs \in Seq(DeviceRecords), NEW i \in DOMAIN devs
  PROVE  /\ ComputeBudget(i) \in BudgetRecords
         /\ cfg.slab <= ComputeBudget(i).backing => Affords(ComputeBudget(i), i)
<1> DEFINE f == FractionFor(i)
           freeUsed == (f * devs[i].free) \div 100
           budget == IF cfg.budgetCap = NotGiven THEN freeUsed
                     ELSE Lesser(freeUsed, cfg.budgetCap)
           scratch == IF cfg.scratch = NotGiven
                      THEN Lesser((15 * budget) \div 100, ScratchCap) ELSE cfg.scratch
           b == ComputeBudget(i)
<1>1. f \in Nat /\ \A g \in FractionsAsked(i) : g = f
  BY FractionUsed
<1>2. devs[i].free \in Nat
  <2>1. devs[i] \in DeviceRecords
    OBVIOUS
  <2>2. QED BY <2>1 DEF DeviceRecords
<1> HIDE DEF f
<1>3. freeUsed \in Nat
  <2>1. f * devs[i].free \in Nat
    BY <1>1, <1>2
  <2>2. QED BY <2>1, DivNat
<1>4. \A g \in FractionsAsked(i) : (g * devs[i].free) \div 100 = freeUsed
  BY <1>1
<1> HIDE DEF freeUsed
<1>5. /\ budget \in Nat /\ budget <= freeUsed
      /\ cfg.budgetCap # NotGiven => budget <= cfg.budgetCap
  <2>1. cfg.budgetCap \in Nat \union {NotGiven}
    BY DEF Configs
  <2>2. CASE cfg.budgetCap = NotGiven
    BY <1>3, <2>2
  <2>3. CASE cfg.budgetCap # NotGiven
    <3>1. budget = Lesser(freeUsed, cfg.budgetCap) /\ cfg.budgetCap \in Nat
      BY <2>1, <2>3
    <3>2. QED BY <1>3, <3>1 DEF Lesser
  <2>4. QED BY <2>2, <2>3
<1> HIDE DEF budget
<1>6. scratch \in Nat
  <2>1. (15 * budget) \div 100 \in Nat
    BY <1>5, DivNat
  <2>2. QED BY <2>1, MemoryAssumption DEF Lesser, Configs
<1>7. b = [scratch |-> scratch, backing |-> Backing(budget, scratch)]
  BY DEF ComputeBudget, budget, freeUsed, f
<1> HIDE DEF scratch, b
<1>8. b \in BudgetRecords
  BY <1>5, <1>6, <1>7, BackingFits DEF BudgetRecords
<1>9. ASSUME cfg.slab <= b.backing PROVE Affords(b, i)
  <2>1. cfg.slab \in Nat /\ cfg.slab > 0
    <3>1. cfg.slab \in Nat
      BY DEF Configs
    <3>2. cfg.slab # 0
      BY DEF Line!Valid
    <3>3. QED BY <3>1, <3>2
  <2>2. b.backing = Backing(budget, scratch) /\ b.scratch = scratch /\ b.backing \in Nat
    BY <1>7, <1>8 DEF BudgetRecords
  <2>3. b.backing + b.scratch + Headroom <= budget
    <3>1. b.backing > 0
      BY <1>9, <2>1, <2>2
    <3>2. Backing(budget, scratch) + scratch + Headroom <= budget
      BY <1>5, <1>6, <2>2, <3>1, BackingFits
    <3>3. QED BY <2>2, <3>2
  <2>4. b.backing + b.scratch + Headroom \in Int
    BY <1>6, <2>2, MemoryAssumption
  <2>5. b.backing + b.scratch + Headroom <= freeUsed
    BY <1>3, <1>5, <2>3, <2>4
  <2>6. cfg.budgetCap # NotGiven => b.backing + b.scratch + Headroom <= cfg.budgetCap
    <3>1. cfg.budgetCap \in Nat \union {NotGiven}
      BY DEF Configs
    <3>2. QED BY <1>5, <2>3, <2>4, <3>1
  <2>7. QED BY <1>4, <1>9, <2>5, <2>6 DEF Affords
<1>10. QED BY <1>8, <1>9 DEF b

LEMMA BudgetsStep ==
  ASSUME IInv, Budgets
  PROVE  IInv'
<1> DEFINE all == [i \in DOMAIN devs |-> ComputeBudget(i)]
<1>1. /\ stage = "budgets" /\ cfg' = cfg /\ devs' = devs /\ UNCHANGED planVars
      /\ stage' \in {"exit", "narrow"}
      /\ stage' = "narrow" =>
           /\ \A i \in DOMAIN devs : cfg.slab <= all[i].backing
           /\ budgets' = all
           /\ aggregate' = Total([i \in DOMAIN devs |-> all[i].backing])
  <2>1. \A i \in DOMAIN devs : ComputeBudget(i) \in BudgetRecords
    BY BudgetFits DEF IInv, LineInv, LegInv, Filtering, Budgets
  <2>2. cfg.slab \in Nat /\ \A i \in DOMAIN devs : all[i].backing \in Nat
    BY <2>1 DEF IInv, LineInv, Configs, BudgetRecords
  <2>3. (\E i \in DOMAIN devs : cfg.slab > all[i].backing)
          \/ (\A i \in DOMAIN devs : cfg.slab <= all[i].backing)
    BY <2>2
  <2> HIDE DEF all
  <2>4. CASE \E i \in DOMAIN devs : cfg.slab > all[i].backing
    BY <2>4 DEF Budgets, all
  <2>5. CASE ~(\E i \in DOMAIN devs : cfg.slab > all[i].backing)
    BY <2>3, <2>5 DEF Budgets, all, Total
  <2>6. QED BY <2>4, <2>5
<1>2. LineInv' /\ PlanInv'
  BY <1>1, LineStays, NoPlanYet DEF IInv, Filtering
<1>3. /\ devs \in Seq(DeviceRecords) /\ Len(devs) > 0
      /\ \A i \in DOMAIN devs : Wanted(devs[i])
      /\ cfg \in Configs /\ Line!Valid
  BY <1>1 DEF IInv, LegInv, LineInv, Filtering
<1>4. ASSUME stage' = "narrow"
      PROVE  /\ budgets' \in Seq(BudgetRecords) /\ Len(budgets') = Len(devs')
             /\ \A i \in DOMAIN devs : Affords(budgets'[i], i)
             /\ aggregate' = Total(Backings') /\ aggregate' \in Int
  <2>1. \A i \in DOMAIN devs :
          /\ all[i] = ComputeBudget(i) /\ all[i] \in BudgetRecords
          /\ Affords(all[i], i)
    BY <1>1, <1>3, <1>4, BudgetFits
  <2>2. all \in Seq(BudgetRecords) /\ Len(all) = Len(devs)
    <3>1. all = [i \in 1 .. Len(devs) |-> all[i]] /\ Len(devs) \in Nat
      BY <1>3
    <3>2. \A i \in 1 .. Len(devs) : all[i] \in BudgetRecords
      BY <1>3, <2>1
    <3> HIDE DEF all
    <3>3. QED BY <3>1, <3>2
  <2> DEFINE parts == [i \in DOMAIN devs |-> all[i].backing]
  <2>3. parts = Backings'
    BY <1>1, <1>4 DEF Backings
  <2>4. parts \in Seq(Int)
    <3>1. \A i \in 1 .. Len(devs) : all[i].backing \in Int
      BY <1>3, <2>1 DEF BudgetRecords
    <3> HIDE DEF all
    <3>2. QED BY <1>3, <3>1
  <2> HIDE DEF parts, all
  <2>5. Total(parts) \in Int
    BY <2>4, SumStep
  <2>6. QED BY <1>1, <1>4, <2>1, <2>2, <2>3, <2>5 DEF parts
<1>5. LegInv'
  <2>1. \A i \in DOMAIN devs' : Wanted(devs[i])'
    BY <1>1, <1>3 DEF Wanted
  <2>2. stage' = "narrow" => \A i \in DOMAIN devs' : Affords(budgets[i], i)'
    BY <1>1, <1>4 DEF Affords, FractionsAsked
  <2>3. Total(Backings)' = Total(Backings')
    BY DEF Total, Plan!Total, Plan!PartialSums
  <2>4. QED BY <1>1, <1>3, <1>4, <2>1, <2>2, <2>3 DEF LegInv, Filtering, Budgeted, Admitted
<1>6. QED BY <1>2, <1>5 DEF IInv

LEMMA NarrowStep ==
  ASSUME IInv, NarrowSieve
  PROVE  IInv'
<1> DEFINE keep == cfg.sieveDevice + 1
<1>1. /\ stage = "narrow" /\ cfg' = cfg /\ aggregate' = aggregate /\ UNCHANGED planVars
      /\ stage' \in {"exit", "gate"}
      /\ stage' = "gate" =>
           \/ cfg.sieveDevice = NotGiven /\ devs' = devs /\ budgets' = budgets
           \/ /\ cfg.sieveDevice # NotGiven /\ keep \in DOMAIN devs
              /\ devs' = <<devs[keep]>> /\ budgets' = <<budgets[keep]>>
  <2>1. CASE cfg.sieveDevice = NotGiven
    <3>1. devs \in Seq(DeviceRecords)
      BY DEF IInv, LegInv, Filtering, NarrowSieve
    <3>2. keep \notin DOMAIN devs
      BY <2>1, <3>1 DEF NotGiven, Line!NotGiven
    <3>3. QED BY <2>1, <3>2 DEF NarrowSieve
  <2>2. CASE cfg.sieveDevice # NotGiven /\ keep \in DOMAIN devs
    BY <2>2 DEF NarrowSieve
  <2>3. CASE cfg.sieveDevice # NotGiven /\ keep \notin DOMAIN devs
    BY <2>3 DEF NarrowSieve
  <2>4. QED BY <2>1, <2>2, <2>3
<1>2. LineInv' /\ PlanInv'
  BY <1>1, LineStays, NoPlanYet DEF IInv, Filtering
<1>3. /\ devs \in Seq(DeviceRecords) /\ Len(devs) > 0
      /\ \A i \in DOMAIN devs : Wanted(devs[i])
      /\ budgets \in Seq(BudgetRecords) /\ Len(budgets) = Len(devs)
      /\ \A i \in DOMAIN devs : Affords(budgets[i], i)
      /\ aggregate = Total(Backings) /\ aggregate \in Int
  BY <1>1 DEF IInv, LegInv, Filtering, Budgeted
<1>4. ASSUME stage' = "gate", cfg.sieveDevice = NotGiven PROVE LegInv'
  <2>1. devs' = devs /\ budgets' = budgets
    BY <1>1, <1>4
  <2>2. \A i \in DOMAIN devs' : Wanted(devs[i])' /\ Affords(budgets[i], i)'
    BY <1>1, <1>3, <2>1 DEF Wanted, Affords, FractionsAsked
  <2>3. Total(Backings)' = Total(Backings)
    <3>1. Backings' = Backings
      BY <2>1 DEF Backings
    <3>2. QED BY <3>1 DEF Total, Plan!Total, Plan!PartialSums
  <2>4. QED
    BY <1>1, <1>3, <1>4, <2>1, <2>2, <2>3 DEF LegInv, Filtering, Budgeted, Admitted
<1>5. ASSUME stage' = "gate", cfg.sieveDevice # NotGiven PROVE LegInv'
  <2>1. keep \in DOMAIN devs /\ devs' = <<devs[keep]>> /\ budgets' = <<budgets[keep]>>
    BY <1>1, <1>5
  <2>2. /\ devs[keep] \in DeviceRecords /\ Wanted(devs[keep])
        /\ budgets[keep] \in BudgetRecords /\ Affords(budgets[keep], keep)
    BY <1>3, <2>1
  <2> HIDE DEF keep
  <2>3. /\ devs' \in Seq(DeviceRecords) /\ Len(devs') = 1 /\ DOMAIN devs' = {1}
        /\ budgets' \in Seq(BudgetRecords) /\ Len(budgets') = 1
        /\ devs'[1] = devs[keep] /\ budgets'[1] = budgets[keep]
    BY <2>1, <2>2
  <2>4. Wanted(devs[1])' /\ Affords(budgets[1], 1)'
    BY <1>1, <2>2, <2>3 DEF Wanted, Affords, FractionsAsked
  <2>5. \A i \in DOMAIN devs' : Wanted(devs[i])' /\ Affords(budgets[i], i)'
    BY <2>3, <2>4
  <2>6. QED
    BY <1>1, <1>3, <1>5, <2>3, <2>5 DEF LegInv, Filtering, Budgeted, Admitted
<1>6. stage' = "exit" => LegInv'
  BY DEF LegInv, Filtering, Budgeted, Admitted
<1>7. QED BY <1>1, <1>2, <1>4, <1>5, <1>6 DEF IInv

LEMMA GateStep ==
  ASSUME IInv, AggregateGate
  PROVE  IInv'
<1>1. /\ stage = "gate" /\ cfg' = cfg /\ devs' = devs /\ budgets' = budgets
      /\ aggregate' = aggregate /\ positionals' = positionals /\ UNCHANGED planVars
      /\ stage' \in {"exit", "schedule"}
      /\ stage' = "schedule" =>
           \/ aggregate + cfg.tierCap >= MapBytes
           \/ ~ExplicitTierChoice /\ aggregate + HostAuto >= MapBytes
  BY DEF AggregateGate
<1>2. LineInv' /\ PlanInv'
  BY <1>1, LineStays, NoPlanYet DEF IInv, Filtering
<1>3. /\ devs \in Seq(DeviceRecords) /\ Len(devs) > 0
      /\ \A i \in DOMAIN devs : Wanted(devs[i])
      /\ budgets \in Seq(BudgetRecords) /\ Len(budgets) = Len(devs)
      /\ \A i \in DOMAIN devs : Affords(budgets[i], i)
      /\ cfg.sieveDevice = NotGiven => aggregate = Total(Backings)
      /\ aggregate \in Int
  BY <1>1 DEF IInv, LegInv, Filtering, Budgeted
<1>4. stage' = "schedule" => aggregate + HostPermitted >= MapBytes
  <2>1. /\ cfg.tierCap \in Nat /\ cfg.hasTierCap \in BOOLEAN /\ cfg.noHostTier \in BOOLEAN
        /\ ~cfg.hasTierCap => cfg.tierCap = 0
        /\ cfg.noHostTier => cfg.tierCap = 0
    BY <1>1 DEF IInv, LineInv, Configs, Filtering
  <2>2. HostPermitted \in Nat /\ cfg.tierCap <= HostPermitted
    BY <2>1, MemoryAssumption DEF HostPermitted
  <2>3. ~ExplicitTierChoice => HostPermitted = HostAuto
    BY DEF ExplicitTierChoice, HostPermitted
  <2>4. MapBytes \in Nat
    BY MapBytesNat
  <2>5. QED BY <1>1, <1>3, <2>1, <2>2, <2>3, <2>4
<1>5. LegInv'
  <2>1. \A i \in DOMAIN devs' : Wanted(devs[i])' /\ Affords(budgets[i], i)'
    BY <1>1, <1>3 DEF Wanted, Affords, FractionsAsked
  <2>2. Total(Backings)' = Total(Backings)
    <3>1. Backings' = Backings
      BY <1>1 DEF Backings
    <3>2. QED BY <3>1 DEF Total, Plan!Total, Plan!PartialSums
  <2>3. MapBytes' = MapBytes /\ HostPermitted' = HostPermitted
    BY <1>1 DEF MapBytes, HostPermitted, SumStart, SumLimit
  <2>4. QED
    BY <1>1, <1>3, <1>4, <2>1, <2>2, <2>3 DEF LegInv, Filtering, Budgeted, Admitted
<1>6. QED BY <1>2, <1>5 DEF IInv

\* A map that has bytes has slabs.
LEMMA SomeSlab ==
  ASSUME NEW bytes \in Nat, NEW size \in Nat, size > 0, bytes > 0
  PROVE  (bytes + size - 1) \div size \in Nat /\ (bytes + size - 1) \div size >= 1
<1> DEFINE q == (bytes + size - 1) \div size
<1>1. bytes + size - 1 \in Nat
  OBVIOUS
<1>2. q \in Nat /\ bytes + size - 1 < size * q + size
  BY <1>1, DivBounds, DivNat
<1> HIDE DEF q
<1>3. q # 0
  <2>1. SUFFICES ASSUME q = 0 PROVE FALSE
    OBVIOUS
  <2>2. bytes + size - 1 < size
    BY <1>2, <2>1
  <2>3. QED BY <2>2
<1>4. QED BY <1>2, <1>3 DEF q

LEMMA ScheduleStep ==
  ASSUME IInv, Schedule
  PROVE  IInv'
<1>1. /\ stage = "schedule" /\ cfg' = cfg /\ devs' = devs /\ budgets' = budgets
      /\ aggregate' = aggregate /\ positionals' = positionals
      /\ \/ stage' = "exit" /\ UNCHANGED planVars
         \/ /\ stage' = "sieve" /\ cfg.slab % 8 = 0
            /\ Plan!Call(MapBytes, cfg.slab,
                         [i \in DOMAIN devs |-> budgets[i].backing],
                         [i \in DOMAIN devs |-> WeightFor(devs[i])])
  BY DEF Schedule
<1>2. LineInv'
  BY <1>1, LineStays DEF IInv, Filtering
<1>3. /\ devs \in Seq(DeviceRecords) /\ Len(devs) > 0
      /\ \A i \in DOMAIN devs : Wanted(devs[i])
      /\ budgets \in Seq(BudgetRecords) /\ Len(budgets) = Len(devs)
      /\ \A i \in DOMAIN devs : Affords(budgets[i], i)
      /\ cfg.sieveDevice = NotGiven => aggregate = Total(Backings)
      /\ cfg.sieveDevice = NotGiven => aggregate + HostPermitted >= MapBytes
      /\ aggregate \in Int
  BY <1>1 DEF IInv, LegInv, Filtering, Budgeted, Admitted
<1>4. LegInv'
  <2>1. \A i \in DOMAIN devs' : Wanted(devs[i])' /\ Affords(budgets[i], i)'
    BY <1>1, <1>3 DEF Wanted, Affords, FractionsAsked
  <2>2. Total(Backings)' = Total(Backings)
    <3>1. Backings' = Backings
      BY <1>1 DEF Backings
    <3>2. QED BY <3>1 DEF Total, Plan!Total, Plan!PartialSums
  <2>3. MapBytes' = MapBytes /\ HostPermitted' = HostPermitted
    BY <1>1 DEF MapBytes, HostPermitted, SumStart, SumLimit
  <2>4. stage' \in {"exit", "sieve"}
    BY <1>1
  <2>5. QED
    BY <1>1, <1>3, <2>1, <2>2, <2>3, <2>4 DEF LegInv, Filtering, Budgeted, Admitted
<1>5. PlanInv'
  <2>1. CASE stage' = "exit" /\ UNCHANGED planVars
    BY <1>1, <2>1, NoPlanYet DEF IInv
  <2>2. CASE stage' = "sieve" /\ ~(UNCHANGED planVars /\ stage' = "exit")
    <3>1. /\ cfg.slab % 8 = 0 /\ phase' = "home" /\ slab' = cfg.slab
          /\ numSlabs' = IF MapBytes = 0 THEN 1
                         ELSE (MapBytes + cfg.slab - 1) \div cfg.slab
          /\ backing' = [i \in DOMAIN devs |-> budgets[i].backing]
          /\ weight' = [i \in DOMAIN devs |-> WeightFor(devs[i])]
          /\ home' = [d \in DOMAIN [i \in DOMAIN devs |-> budgets[i].backing] |-> 0]
          /\ cap' = [d \in DOMAIN [i \in DOMAIN devs |-> budgets[i].backing] |-> 0]
          /\ ownerOf' = [s \in 0 .. numSlabs' - 1 |-> Plan!Homeless]
      BY <1>1, <2>2 DEF Plan!Call
    <3>2. cfg.slab \in Nat /\ cfg.slab > 0
      <4>1. cfg.slab \in Nat /\ Line!Valid
        BY <1>1 DEF IInv, LineInv, Configs, Filtering
      <4>2. QED BY <4>1 DEF Line!Valid
    <3>3. numSlabs' \in Nat /\ numSlabs' >= 1
      <4>1. CASE MapBytes = 0
        BY <3>1, <4>1
      <4>2. CASE MapBytes # 0
        <5> DEFINE bytes == MapBytes
                   size == cfg.slab
        <5>1. bytes \in Nat /\ bytes > 0 /\ size \in Nat /\ size > 0
          BY <3>2, <4>2, MapBytesNat
        <5>2. numSlabs' = (bytes + size - 1) \div size
          BY <3>1, <4>2
        <5> HIDE DEF bytes, size
        <5>3. QED BY <5>1, <5>2, SomeSlab
      <4>3. QED BY <4>1, <4>2
    <3>4. DOMAIN devs = 1 .. Len(devs) /\ Len(devs) \in Nat
      BY <1>3
    <3>5. home' = [d \in 1 .. Len(devs) |-> 0] /\ cap' = [d \in 1 .. Len(devs) |-> 0]
      BY <3>1, <3>4
    <3>6. /\ home' \in Seq(Nat) /\ Len(home') = Len(devs') /\ cap' \in Seq(Nat)
          /\ Len(cap') = Len(devs')
      BY <1>1, <3>4, <3>5
    <3>7. backing' = Backings' /\ weight' = [i \in DOMAIN devs |-> WeightFor(devs[i])]'
      BY <1>1, <3>1 DEF Backings, WeightFor
    <3>8. \A d \in DOMAIN devs' : (home[d] <= Plan!CapHome(d))'
      <4>1. ASSUME NEW d \in 1 .. Len(devs) PROVE (Plan!CapHome(d))' >= 0
        <5>1. budgets[d].backing \in Nat
          <6>1. budgets[d] \in BudgetRecords
            BY <1>3
          <6>2. QED BY <6>1 DEF BudgetRecords
        <5>2. backing'[d] = budgets[d].backing
          BY <3>1, <3>4
        <5>3. backing'[d] \div slab' \in Nat
          BY <3>1, <3>2, <5>1, <5>2, DivNat
        <5>4. QED BY <5>3 DEF Plan!CapHome, Plan!SlabCount
      <4>2. QED BY <1>1, <3>4, <3>5, <4>1
    <3>9. DOMAIN ownerOf' = 0 .. numSlabs' - 1
      BY <3>1
    <3>10. slab' = cfg'.slab /\ slab' % 8 = 0 /\ stage' = "sieve"
      BY <1>1, <2>2, <3>1
    <3>11. QED
      BY <3>1, <3>3, <3>6, <3>7, <3>8, <3>9, <3>10 DEF PlanInv
  <2>3. QED BY <1>1, <2>1, <2>2
<1>6. QED BY <1>2, <1>4, <1>5 DEF IInv

-----------------------------------------------------------------------------
(* The placement of the slabs *)

\* What the scheduler is called with.
LEMMA CallFacts ==
  ASSUME IInv, phase # "idle"
  PROVE  /\ stage = "sieve" /\ numSlabs \in Nat /\ numSlabs >= 1
         /\ slab \in Nat /\ slab > 0 /\ slab = cfg.slab
         /\ Len(devs) \in Nat /\ Len(devs) > 0 /\ DOMAIN devs = 1 .. Len(devs)
         /\ Parts(backing) /\ Len(backing) = Len(devs)
         /\ Parts(weight) /\ Len(weight) = Len(devs)
         /\ Plan!Devices = 1 .. Len(devs)
         /\ \A d \in 1 .. Len(devs) : /\ backing[d] = budgets[d].backing /\ backing[d] \in Nat
                                      /\ slab <= backing[d] /\ Plan!CapHome(d) \in Nat
<1>1. stage = "sieve"
  BY DEF IInv, PlanInv
<1>2. /\ devs \in Seq(DeviceRecords) /\ Len(devs) > 0
      /\ budgets \in Seq(BudgetRecords) /\ Len(budgets) = Len(devs)
      /\ \A i \in DOMAIN devs : cfg.slab <= budgets[i].backing
  BY <1>1 DEF IInv, LegInv, Filtering, Budgeted, Affords
<1>3. /\ numSlabs \in Nat /\ numSlabs >= 1 /\ slab = cfg.slab
      /\ backing = Backings /\ weight = [i \in DOMAIN devs |-> WeightFor(devs[i])]
  BY DEF IInv, PlanInv
<1>4. cfg.slab \in Nat /\ cfg.slab > 0 /\ Weighed
  <2>1. cfg.slab \in Nat /\ Line!Valid /\ Weighed
    BY <1>1 DEF IInv, LineInv, Configs, Filtering
  <2>2. QED BY <2>1 DEF Line!Valid
<1>5. DOMAIN devs = 1 .. Len(devs) /\ Len(devs) \in Nat
  BY <1>2
<1>6. \A d \in 1 .. Len(devs) : budgets[d].backing \in Nat
  <2>1. \A d \in 1 .. Len(devs) : budgets[d] \in BudgetRecords
    BY <1>2
  <2>2. QED BY <2>1 DEF BudgetRecords
<1>7. \A d \in 1 .. Len(devs) : backing[d] = budgets[d].backing /\ slab <= backing[d]
  BY <1>2, <1>3, <1>5 DEF Backings
<1>8. backing \in Seq(Nat) /\ Len(backing) = Len(devs) /\ DOMAIN backing = 1 .. Len(devs)
  BY <1>3, <1>5, <1>6 DEF Backings
<1>9. Parts(backing)
  BY <1>2, <1>3, <1>4, <1>6, <1>7, <1>8 DEF Parts
<1>10. \A d \in 1 .. Len(devs) : WeightFor(devs[d]) \in Nat /\ WeightFor(devs[d]) > 0
  BY <1>4 DEF Weighed, WeightFor
<1>11. Parts(weight) /\ Len(weight) = Len(devs)
  <2>1. weight \in Seq(Nat) /\ Len(weight) = Len(devs)
    BY <1>3, <1>5, <1>10
  <2>2. \A d \in 1 .. Len(devs) : weight[d] > 0
    BY <1>3, <1>5, <1>10
  <2>3. QED BY <1>2, <2>1, <2>2 DEF Parts
<1>12. \A d \in 1 .. Len(devs) : Plan!CapHome(d) \in Nat
  <2>1. ASSUME NEW d \in 1 .. Len(devs) PROVE Plan!CapHome(d) \in Nat
    <3>1. backing[d] \div slab \in Nat
      BY <1>3, <1>4, <1>6, <1>7, DivNat
    <3>2. QED BY <3>1 DEF Plan!CapHome, Plan!SlabCount
  <2>2. QED BY <2>1
<1>13. QED
  BY <1>1, <1>2, <1>3, <1>4, <1>5, <1>6, <1>7, <1>8, <1>9, <1>11, <1>12 DEF Plan!Devices

\* The remainders of the code are those of the lemmas.
LEMMA RemsAgree ==
  ASSUME IInv, phase # "idle"
  PROVE  /\ Plan!HomeRem = Rem(numSlabs, backing, home)
         /\ Plan!CapRem = Rem(numSlabs, weight, cap)
  BY CallFacts DEF Plan!HomeRem, Plan!CapRem, Rem, Total

\* A step of the placement changes neither the command line nor the leg.
LEMMA LegStays ==
  ASSUME LineInv, LegInv, stage \in Filtering,
         UNCHANGED <<lineVars, devs, budgets, aggregate>>
  PROVE  LineInv' /\ LegInv'
<1>1. /\ stage' = stage /\ cfg' = cfg /\ positionals' = positionals /\ devs' = devs
      /\ budgets' = budgets /\ aggregate' = aggregate
  BY DEF lineVars
<1>2. LineInv'
  <2>1. Line!Valid' <=> Line!Valid
    BY <1>1 DEF Line!Valid, Line!InBand, Line!SlabSizeValueAligned
  <2>2. QED BY <1>1, <2>1 DEF LineInv, Weighed
<1>3. LegInv'
  <2>1. stage \in Budgeted =>
          \A i \in DOMAIN devs' : Affords(budgets[i], i)'
    BY <1>1 DEF LegInv, Affords, FractionsAsked
  <2>2. \A i \in DOMAIN devs' : Wanted(devs[i])'
    BY <1>1 DEF LegInv, Wanted
  <2>3. Total(Backings)' = Total(Backings)
    <3>1. Backings' = Backings
      BY <1>1 DEF Backings
    <3>2. QED BY <3>1 DEF Total, Plan!Total, Plan!PartialSums
  <2>4. MapBytes' = MapBytes /\ HostPermitted' = HostPermitted
    BY <1>1 DEF MapBytes, HostPermitted, SumStart, SumLimit
  <2>5. QED BY <1>1, <2>1, <2>2, <2>3, <2>4 DEF LegInv
<1>4. QED BY <1>2, <1>3

\* The part of PlanInv that holds from the call on.
Called ==
  /\ stage = "sieve"
  /\ numSlabs \in Nat /\ numSlabs >= 1 /\ slab = cfg.slab /\ slab % 8 = 0
  /\ backing = Backings /\ weight = [i \in DOMAIN devs |-> WeightFor(devs[i])]
  /\ DOMAIN ownerOf = 0 .. numSlabs - 1

LEMMA CalledStays ==
  ASSUME IInv, phase # "idle", Plan!Next, UNCHANGED <<lineVars, devs, budgets, aggregate>>
  PROVE  /\ Called' /\ LineInv' /\ LegInv' /\ devs' = devs
         /\ numSlabs' = numSlabs /\ slab' = slab /\ backing' = backing /\ weight' = weight
         /\ \A d : Plan!CapHome(d)' = Plan!CapHome(d)
<1>1. Called
  BY DEF IInv, PlanInv, Called
<1>2. /\ stage' = stage /\ cfg' = cfg /\ devs' = devs /\ budgets' = budgets
  BY DEF lineVars
<1>3. numSlabs' = numSlabs /\ slab' = slab /\ backing' = backing /\ weight' = weight
  BY DEF Plan!Next, Plan!FloorHomes, Plan!TopUpHome, Plan!HomesAssigned, Plan!FloorCaps,
         Plan!TopUpCap, Plan!CapsAssigned, Plan!SetOwners, Plan!call
<1>4. DOMAIN ownerOf' = DOMAIN ownerOf
  BY DEF Plan!Next, Plan!FloorHomes, Plan!TopUpHome, Plan!HomesAssigned, Plan!FloorCaps,
         Plan!TopUpCap, Plan!CapsAssigned, Plan!SetOwners
<1>5. Called'
  BY <1>1, <1>2, <1>3, <1>4 DEF Called, Backings, WeightFor
<1>6. LineInv' /\ LegInv'
  BY <1>1, LegStays DEF IInv, Called, Filtering
<1>7. \A d : Plan!CapHome(d)' = Plan!CapHome(d)
  BY <1>3 DEF Plan!CapHome, Plan!SlabCount
<1>8. QED BY <1>2, <1>3, <1>5, <1>6, <1>7

\* What a step leaves to show, in terms of the new values.
LEMMA PlanAgain ==
  ASSUME IInv, phase # "idle", Plan!Next, UNCHANGED <<lineVars, devs, budgets, aggregate>>,
         phase' \in {"homeTopUp", "cap", "capTopUp", "owners", "done"},
         home' \in Seq(Nat), Len(home') = Len(devs),
         \A d \in 1 .. Len(devs) : home'[d] <= Plan!CapHome(d),
         Total(home') <= numSlabs,
         cap' \in Seq(Nat), Len(cap') = Len(devs),
         phase' \in {"capTopUp", "owners", "done"} => Handing(numSlabs, weight, cap'),
         phase' \in {"owners", "done"} => Total(cap') >= numSlabs,
         phase' = "done" => ownerOf' = OwnersSet'
  PROVE  IInv'
<1>1. /\ Called' /\ LineInv' /\ LegInv' /\ devs' = devs
      /\ numSlabs' = numSlabs /\ slab' = slab /\ backing' = backing /\ weight' = weight
      /\ \A d : Plan!CapHome(d)' = Plan!CapHome(d)
  BY CalledStays
<1>2. Total(home)' = Total(home') /\ Total(cap)' = Total(cap')
  BY DEF Total, Plan!Total, Plan!PartialSums
<1>3. Handing(numSlabs, weight, cap)' <=> Handing(numSlabs', weight', cap')
  BY DEF Handing, Rem, Total, Plan!Total, Plan!PartialSums
<1>4. DOMAIN devs = 1 .. Len(devs)
  BY CallFacts
<1>5. \A d \in DOMAIN devs' : (home[d] <= Plan!CapHome(d))'
  BY <1>1, <1>4
<1>6. PlanInv'
  BY <1>1, <1>2, <1>3, <1>5 DEF PlanInv, Called
<1>7. QED BY <1>1, <1>6 DEF IInv

LEMMA PlanNow ==
  ASSUME IInv, phase # "idle"
  PROVE  /\ home \in Seq(Nat) /\ Len(home) = Len(devs)
         /\ \A d \in 1 .. Len(devs) : home[d] <= Plan!CapHome(d)
         /\ cap \in Seq(Nat) /\ Len(cap) = Len(devs)
  BY CallFacts DEF IInv, PlanInv

LEMMA FloorHomesStep ==
  ASSUME IInv, Plan!FloorHomes, UNCHANGED <<lineVars, devs, budgets, aggregate>>
  PROVE  IInv'
<1>1. phase = "home" /\ phase' = "homeTopUp" /\ cap' = cap
  BY DEF Plan!FloorHomes
<1>2. phase # "idle" /\ Plan!Next
  BY <1>1 DEF Plan!Next
<1> DEFINE room == [d \in 1 .. Len(devs) |-> Plan!CapHome(d)]
<1>3. /\ numSlabs \in Nat /\ Parts(backing) /\ Len(backing) = Len(devs)
      /\ \A d \in 1 .. Len(devs) : room[d] \in Nat /\ room[d] = Plan!CapHome(d)
      /\ Plan!Devices = 1 .. Len(devs)
  BY <1>2, CallFacts
<1> DEFINE floors == [d \in 1 .. Len(backing) |->
                       Plan!Smaller((numSlabs * backing[d]) \div Total(backing), room[d])]
<1>4. home' = floors
  BY <1>3 DEF Plan!FloorHomes, Total
<1>5. /\ floors \in Seq(Nat) /\ Len(floors) = Len(backing) /\ Total(floors) <= numSlabs
      /\ \A d \in 1 .. Len(backing) : floors[d] <= room[d]
  <2>1. \A d \in 1 .. Len(backing) : room[d] \in Nat
    BY <1>3
  <2> HIDE DEF room
  <2>2. QED BY ONLY <1>3, <2>1, FloorsFit
<1> HIDE DEF floors, room
<1>6. /\ home' \in Seq(Nat) /\ Len(home') = Len(devs) /\ Total(home') <= numSlabs
      /\ \A d \in 1 .. Len(devs) : home'[d] <= Plan!CapHome(d)
  BY <1>3, <1>4, <1>5
<1>7. QED BY <1>1, <1>2, <1>6, PlanNow, PlanAgain

LEMMA TopUpHomeStep ==
  ASSUME IInv, Plan!TopUpHome, UNCHANGED <<lineVars, devs, budgets, aggregate>>
  PROVE  IInv'
<1>1. /\ phase = "homeTopUp" /\ phase' = "homeTopUp" /\ cap' = cap
      /\ Total(home) < numSlabs
  BY DEF Plan!TopUpHome, Total
<1>2. phase # "idle" /\ Plan!Next
  BY <1>1 DEF Plan!Next
<1>3. PICK d \in Plan!Candidates : home' = [home EXCEPT ![d] = @ + 1]
  BY DEF Plan!TopUpHome
<1>4. /\ numSlabs \in Nat /\ Plan!Devices = 1 .. Len(devs)
      /\ \A e \in 1 .. Len(devs) : Plan!CapHome(e) \in Nat
  BY <1>2, CallFacts
<1>5. d \in 1 .. Len(devs) /\ home[d] < Plan!CapHome(d)
  BY <1>4 DEF Plan!Candidates, Plan!Largest, Plan!WithRoom
<1>6. /\ home \in Seq(Nat) /\ Len(home) = Len(devs)
      /\ \A e \in 1 .. Len(devs) : home[e] <= Plan!CapHome(e)
  BY <1>2, PlanNow
<1>7. home \in Seq(Int) /\ home' \in Seq(Nat) /\ Len(home') = Len(devs)
  BY <1>3, <1>5, <1>6
<1>8. Total(home') = Total(home) + 1 /\ Total(home) \in Int
  BY <1>3, <1>5, <1>6, <1>7, SumOneMore, SumStep
<1>9. \A e \in 1 .. Len(devs) : home'[e] <= Plan!CapHome(e)
  BY <1>3, <1>4, <1>5, <1>6
<1>10. Total(home') <= numSlabs
  BY <1>1, <1>4, <1>8
<1>11. QED BY <1>1, <1>2, <1>7, <1>9, <1>10, PlanNow, PlanAgain

LEMMA HomesAssignedStep ==
  ASSUME IInv, Plan!HomesAssigned, UNCHANGED <<lineVars, devs, budgets, aggregate>>
  PROVE  IInv'
<1>1. phase = "homeTopUp" /\ phase' = "cap" /\ home' = home /\ cap' = cap
  BY DEF Plan!HomesAssigned
<1>2. phase # "idle" /\ Plan!Next
  BY <1>1 DEF Plan!Next
<1>3. Total(home') <= numSlabs
  BY <1>1 DEF IInv, PlanInv
<1>4. QED BY <1>1, <1>2, <1>3, PlanNow, PlanAgain

LEMMA FloorCapsStep ==
  ASSUME IInv, Plan!FloorCaps, UNCHANGED <<lineVars, devs, budgets, aggregate>>
  PROVE  IInv'
<1>1. phase = "cap" /\ phase' = "capTopUp" /\ home' = home
  BY DEF Plan!FloorCaps
<1>2. phase # "idle" /\ Plan!Next
  BY <1>1 DEF Plan!Next
<1>3. /\ numSlabs \in Nat /\ Parts(weight) /\ Len(weight) = Len(devs)
      /\ Plan!Devices = 1 .. Len(devs)
  BY <1>2, CallFacts
<1>4. PICK low : /\ \A d \in low : (numSlabs * weight[d]) % Total(weight) = 0
                 /\ cap' = [d \in 1 .. Len(weight) |->
                              (numSlabs * weight[d]) \div Total(weight)
                                - (IF d \in low /\ numSlabs * weight[d] > 0 THEN 1 ELSE 0)]
  BY <1>3 DEF Plan!FloorCaps, Total
<1>5. Handing(numSlabs, weight, cap')
  BY <1>3, <1>4, FloorsHand
<1>6. cap' \in Seq(Nat) /\ Len(cap') = Len(devs)
  BY <1>3, <1>5 DEF Handing
<1>7. Total(home') <= numSlabs
  BY <1>1 DEF IInv, PlanInv
<1>8. QED BY <1>1, <1>2, <1>5, <1>6, <1>7, PlanNow, PlanAgain

LEMMA TopUpCapStep ==
  ASSUME IInv, Plan!TopUpCap, UNCHANGED <<lineVars, devs, budgets, aggregate>>
  PROVE  IInv'
<1>1. /\ phase = "capTopUp" /\ phase' = "capTopUp" /\ home' = home
      /\ Total(cap) < numSlabs
  BY DEF Plan!TopUpCap, Total
<1>2. phase # "idle" /\ Plan!Next
  BY <1>1 DEF Plan!Next
<1>3. /\ numSlabs \in Nat /\ Parts(weight) /\ Len(weight) = Len(devs)
      /\ Plan!Devices = 1 .. Len(devs)
  BY <1>2, CallFacts
<1>4. PICK d \in Plan!Largest(Plan!Devices, Plan!CapRem, Total(weight)) :
        cap' = [cap EXCEPT ![d] = @ + 1]
  BY DEF Plan!TopUpCap, Total
<1>5. /\ d \in 1 .. Len(weight)
      /\ \A e \in 1 .. Len(weight) :
           Rem(numSlabs, weight, cap)[e] <= Rem(numSlabs, weight, cap)[d]
  BY <1>2, <1>3, <1>4, RemsAgree DEF Plan!Largest
<1>6. Handing(numSlabs, weight, cap)
  BY <1>1 DEF IInv, PlanInv
<1>7. Handing(numSlabs, weight, cap')
  BY <1>1, <1>3, <1>4, <1>5, <1>6, LargestTakesOne
<1>8. cap' \in Seq(Nat) /\ Len(cap') = Len(devs)
  BY <1>3, <1>7 DEF Handing
<1>9. Total(home') <= numSlabs
  BY <1>1 DEF IInv, PlanInv
<1>10. QED BY <1>1, <1>2, <1>7, <1>8, <1>9, PlanNow, PlanAgain

LEMMA CapsAssignedStep ==
  ASSUME IInv, Plan!CapsAssigned, UNCHANGED <<lineVars, devs, budgets, aggregate>>
  PROVE  IInv'
<1>1. /\ phase = "capTopUp" /\ phase' = "owners" /\ home' = home /\ cap' = cap
      /\ \/ Total(cap) >= numSlabs
         \/ Plan!Largest(Plan!Devices, Plan!CapRem, Total(weight)) = {}
  BY DEF Plan!CapsAssigned, Total
<1>2. phase # "idle" /\ Plan!Next
  BY <1>1 DEF Plan!Next
<1>3. /\ numSlabs \in Nat /\ Parts(weight) /\ Len(weight) = Len(devs)
      /\ Plan!Devices = 1 .. Len(devs)
  BY <1>2, CallFacts
<1>4. Handing(numSlabs, weight, cap)
  BY <1>1 DEF IInv, PlanInv
<1>5. Plan!Largest(Plan!Devices, Plan!CapRem, Total(weight)) # {}
  BY <1>2, <1>3, <1>4, LargestExists, RemsAgree DEF Plan!Largest
<1>6. Total(cap') >= numSlabs /\ Handing(numSlabs, weight, cap')
  BY <1>1, <1>4, <1>5
<1>7. Total(home') <= numSlabs
  BY <1>1 DEF IInv, PlanInv
<1>8. QED BY <1>1, <1>2, <1>6, <1>7, PlanNow, PlanAgain

LEMMA SetOwnersStep ==
  ASSUME IInv, Plan!SetOwners, UNCHANGED <<lineVars, devs, budgets, aggregate>>
  PROVE  IInv'
<1>1. phase = "owners" /\ phase' = "done" /\ home' = home /\ cap' = cap
  BY DEF Plan!SetOwners
<1>2. phase # "idle" /\ Plan!Next
  BY <1>1 DEF Plan!Next
<1>3. /\ numSlabs' = numSlabs /\ backing' = backing
      /\ DOMAIN ownerOf = 0 .. numSlabs - 1
  BY <1>1 DEF Plan!SetOwners, Plan!call, IInv, PlanInv
<1>4. ownerOf' = OwnersSet
  BY <1>3 DEF Plan!SetOwners, Plan!HomeBase, Plan!Devices, OwnersSet, Base, PartialSums
<1>5. OwnersSet' = OwnersSet
  BY <1>1, <1>3 DEF OwnersSet, Base, PartialSums, Plan!PartialSums, Plan!Homeless
<1>6. /\ Total(home') <= numSlabs
      /\ Total(cap') >= numSlabs /\ Handing(numSlabs, weight, cap')
  BY <1>1 DEF IInv, PlanInv
<1>7. QED BY <1>1, <1>2, <1>4, <1>5, <1>6, PlanNow, PlanAgain

-----------------------------------------------------------------------------
(* The theorems *)

LEMMA StepInv == IInv /\ [Next]_vars => IInv'
<1>1. ASSUME IInv, UNCHANGED vars PROVE IInv'
  <2>1. /\ UNCHANGED <<lineVars, devs, budgets, aggregate>>
        /\ stage' = stage /\ cfg' = cfg /\ devs' = devs /\ budgets' = budgets
        /\ numSlabs' = numSlabs /\ slab' = slab /\ backing' = backing /\ weight' = weight
        /\ phase' = phase /\ home' = home /\ cap' = cap /\ ownerOf' = ownerOf
    BY <1>1 DEF vars, lineVars, planVars
  <2>2. CASE stage \in Filtering
    <3>1. LineInv' /\ LegInv'
      BY <1>1, <2>1, <2>2, LegStays DEF IInv
    <3>2. /\ Backings' = Backings /\ OwnersSet' = OwnersSet
          /\ [i \in DOMAIN devs |-> WeightFor(devs[i])]' = [i \in DOMAIN devs |-> WeightFor(devs[i])]
          /\ \A d : Plan!CapHome(d)' = Plan!CapHome(d)
      BY <2>1 DEF Backings, WeightFor, Plan!CapHome, Plan!SlabCount, OwnersSet, Base,
           PartialSums, Plan!PartialSums, Plan!Homeless
    <3>3. /\ Total(home)' = Total(home) /\ Total(cap)' = Total(cap)
          /\ Handing(numSlabs, weight, cap)' <=> Handing(numSlabs, weight, cap)
      BY <2>1 DEF Handing, Rem, Total, Plan!Total, Plan!PartialSums
    <3>4. PlanInv'
      BY <1>1, <2>1, <3>2, <3>3 DEF IInv, PlanInv
    <3>5. QED BY <3>1, <3>4 DEF IInv
  <2>3. CASE stage \notin Filtering
    <3>1. Line!Valid' <=> Line!Valid
      BY <2>1 DEF Line!Valid, Line!InBand, Line!SlabSizeValueAligned
    <3>2. LineInv'
      BY <1>1, <2>1, <3>1 DEF IInv, LineInv, Weighed
    <3>3. BeforeLeg(stage) /\ BeforeLeg(stage')
      BY <1>1, <2>1, <2>3 DEF IInv, LineInv, BeforeLeg
    <3>4. UNCHANGED <<devs, budgets, aggregate, planVars>>
      BY <2>1 DEF planVars
    <3>5. QED BY <1>1, <3>2, <3>3, <3>4, NothingPlannedYet
  <2>4. QED BY <2>2, <2>3
<1>2. ASSUME IInv, RunLeg PROVE IInv'
  BY <1>2, FilterStep, BudgetsStep, NarrowStep, GateStep, ScheduleStep DEF RunLeg
<1>3. ASSUME IInv, Assign PROVE IInv'
  <2>1. UNCHANGED <<lineVars, devs, budgets, aggregate>> /\ Plan!Next
    BY <1>3 DEF Assign
  <2>2. QED
    BY <1>3, <2>1, FloorHomesStep, TopUpHomeStep, HomesAssignedStep, FloorCapsStep,
       TopUpCapStep, CapsAssignedStep, SetOwnersStep DEF Plan!Next
<1>4. QED BY <1>1, <1>2, <1>3, LineStep DEF Next, Stop

LEMMA Invariance == Spec => []IInv
<1>1. QED BY InitInv, StepInv, PTL DEF Spec

\* What is kept at home, and the staging slab, take no more than the backing.
LEMMA HomesFit ==
  ASSUME NEW back \in Nat, NEW size \in Nat, size > 0, size <= back, NEW h \in Nat,
         h <= (IF back \div size > 1 THEN (back \div size) - 1 ELSE 0)
  PROVE  (h + 1) * size <= back /\ h * size <= back
<1> DEFINE q == back \div size
<1>1. q \in Nat /\ size * q <= back /\ back < size * q + size
  BY DivBounds, DivNat
<1> HIDE DEF q
<1>2. q # 0
  <2>1. SUFFICES ASSUME q = 0 PROVE FALSE
    OBVIOUS
  <2>2. back < size
    BY <1>1, <2>1
  <2>3. QED BY <2>2
<1>3. h + 1 <= q /\ h <= q
  BY <1>1, <1>2 DEF q
<1>4. /\ size * (q - (h + 1)) >= 0 /\ size * (q - h) >= 0
  BY <1>1, <1>3, SignOfProduct
<1>5. /\ size * (q - (h + 1)) = size * q - size * (h + 1)
      /\ size * (q - h) = size * q - size * h
      /\ size * (h + 1) = (h + 1) * size /\ size * h = h * size
      /\ size * q \in Int /\ (h + 1) * size \in Int /\ h * size \in Int
  BY <1>1, Distributes
<1>6. QED BY <1>1, <1>4, <1>5

\* Whatever the command line, the machine and the sizes, the slabs a device is
\* given, its staging slab, its scratch and the headroom stay within the fraction
\* of its free memory that was asked for and within the budget's cap
\* (budget.cpp:15-42, pull_scheduler.cpp:82-127).
THEOREM BudgetsAreKept == Spec => []BudgetKept
<1>1. ASSUME IInv PROVE BudgetKept
  <2>1. SUFFICES ASSUME phase = "done", NEW i \in DOMAIN devs
                 PROVE  /\ \A f \in FractionsAsked(i) :
                             Footprint(i) <= (f * devs[i].free) \div 100
                        /\ cfg.budgetCap # NotGiven => Footprint(i) <= cfg.budgetCap
    BY DEF BudgetKept
  <2>2. /\ stage = "sieve" /\ i \in 1 .. Len(devs) /\ slab \in Nat /\ slab > 0
        /\ backing[i] = budgets[i].backing /\ backing[i] \in Nat /\ slab <= backing[i]
    BY <1>1, <2>1, CallFacts
  <2>3. home[i] \in Nat /\ home[i] <= Plan!CapHome(i)
    BY <1>1, <2>1, <2>2, PlanNow
  <2>4. Affords(budgets[i], i) /\ budgets[i].scratch \in Nat
    <3>1. /\ budgets \in Seq(BudgetRecords) /\ Len(budgets) = Len(devs)
          /\ \A j \in DOMAIN devs : Affords(budgets[j], j)
      BY <1>1, <2>2 DEF IInv, LegInv, Budgeted, Filtering
    <3>2. budgets[i] \in BudgetRecords
      BY <2>2, <3>1
    <3>3. QED BY <2>1, <3>1, <3>2 DEF BudgetRecords
  <2> DEFINE b == budgets[i].backing
             s == budgets[i].scratch
             held == (home[i] + (IF cap[i] > 0 THEN 1 ELSE 0)) * slab
  <2>5. (home[i] + 1) * slab <= b /\ home[i] * slab <= b
    <3>1. home[i] <= IF b \div slab > 1 THEN (b \div slab) - 1 ELSE 0
      BY <2>2, <2>3 DEF Plan!CapHome, Plan!SlabCount
    <3>2. b \in Nat /\ slab <= b
      BY <2>2
    <3> HIDE DEF b
    <3>3. QED BY <2>2, <2>3, <3>1, <3>2, HomesFit
  <2>6. held <= b /\ held \in Int
    <3>1. CASE cap[i] > 0
      <4>1. held = (home[i] + 1) * slab
        BY <3>1
      <4>2. (home[i] + 1) * slab \in Int
        BY <2>2, <2>3
      <4>3. QED BY <2>5, <4>1, <4>2
    <3>2. CASE ~(cap[i] > 0)
      <4>1. held = home[i] * slab
        BY <2>3, <3>2
      <4>2. home[i] * slab \in Int
        BY <2>2, <2>3
      <4>3. QED BY <2>5, <4>1, <4>2
    <3>3. QED BY <3>1, <3>2
  <2>7. Footprint(i) = held + s + Headroom
    BY DEF Footprint
  <2>8. b \in Nat /\ s \in Nat /\ Headroom \in Nat
    BY <2>2, <2>4, MemoryAssumption
  <2>9. /\ \A f \in FractionsAsked(i) : b + s + Headroom <= (f * devs[i].free) \div 100
        /\ cfg.budgetCap # NotGiven => b + s + Headroom <= cfg.budgetCap
    BY <2>4 DEF Affords
  <2>10. /\ \A f \in FractionsAsked(i) : (f * devs[i].free) \div 100 \in Nat
         /\ cfg.budgetCap \in Nat \union {NotGiven}
    <3>1. cfg \in Configs /\ devs \in Seq(DeviceRecords)
      BY <1>1, <2>2 DEF IInv, LineInv, LegInv, Filtering
    <3>2. devs[i] \in DeviceRecords
      BY <3>1
    <3>3. devs[i].free \in Nat
      BY <3>2 DEF DeviceRecords
    <3>4. \A f \in FractionsAsked(i) : f \in Nat
      BY <3>1, FractionUsed
    <3>5. ASSUME NEW f \in FractionsAsked(i) PROVE (f * devs[i].free) \div 100 \in Nat
      <4> DEFINE free == devs[i].free
      <4>1. f \in Nat /\ free \in Nat
        BY <3>3, <3>4
      <4> HIDE DEF free
      <4>2. f * free \in Nat
        BY <4>1
      <4>3. (f * free) \div 100 \in Nat
        BY <4>2, DivNat
      <4>4. QED BY <4>3 DEF free
    <3>6. QED BY <3>1, <3>5 DEF Configs
  <2> HIDE DEF b, s, held
  <2>11. held + s + Headroom <= b + s + Headroom
    BY <2>6, <2>8
  <2>12. held + s + Headroom \in Int /\ b + s + Headroom \in Int
    BY <2>6, <2>8
  <2>13. ASSUME NEW f \in FractionsAsked(i)
         PROVE  Footprint(i) <= (f * devs[i].free) \div 100
    <3> DEFINE most == (f * devs[i].free) \div 100
    <3>1. most \in Nat /\ b + s + Headroom <= most
      BY <2>9, <2>10
    <3> HIDE DEF most
    <3>2. Footprint(i) <= most
      BY <2>7, <2>11, <2>12, <3>1
    <3>3. QED BY <3>2 DEF most
  <2>14. cfg.budgetCap # NotGiven => Footprint(i) <= cfg.budgetCap
    BY <2>7, <2>9, <2>10, <2>11, <2>12
  <2>15. QED BY <2>13, <2>14
<1>2. QED BY <1>1, Invariance, PTL

\* No sequence of options brings about a plan the scheduler was not written for,
\* or one the user excluded (config.cpp:361-470, main.cpp:412-483).
THEOREM PlansAreLegal == Spec => []PlanIsLegal
<1>1. ASSUME IInv PROVE PlanIsLegal
  <2>1. SUFFICES ASSUME phase # "idle"
                 PROVE  /\ numSlabs >= 1 /\ slab % 8 = 0 /\ ~cfg.noGpu
                        /\ \A i \in DOMAIN devs :
                             /\ weight[i] > 0 /\ backing[i] >= slab
                             /\ FractionFor(i) \in 10 .. 100
                             /\ devs[i].vendor # cfg.disable
                             /\ cfg.only \in {"", devs[i].vendor}
                        /\ \/ cfg.sieveDevice # NotGiven
                           \/ Plan!Total(backing) + HostPermitted >= MapBytes
    BY DEF PlanIsLegal
  <2>2. /\ stage = "sieve" /\ numSlabs >= 1 /\ DOMAIN devs = 1 .. Len(devs)
        /\ Len(weight) = Len(devs) /\ Parts(weight)
        /\ slab \in Nat
        /\ \A d \in 1 .. Len(devs) : slab <= backing[d] /\ backing[d] \in Nat
    BY <1>1, <2>1, CallFacts
  <2>3. Line!Valid /\ cfg \in Configs
    BY <1>1, <2>2 DEF IInv, LineInv, Filtering
  <2>4. slab % 8 = 0 /\ backing = Backings
    BY <1>1, <2>1 DEF IInv, PlanInv
  <2>5. ASSUME NEW i \in DOMAIN devs
        PROVE  /\ weight[i] > 0 /\ backing[i] >= slab
               /\ FractionFor(i) \in 10 .. 100
               /\ devs[i].vendor # cfg.disable /\ cfg.only \in {"", devs[i].vendor}
    <3>1. weight[i] > 0
      BY <2>2 DEF Parts
    <3>2. backing[i] >= slab
      BY <2>2
    <3>3. FractionFor(i) \in 10 .. 100
      BY <2>3, FractionUsed
    <3>4. Wanted(devs[i])
      BY <1>1, <2>2 DEF IInv, LegInv, Filtering
    <3>5. QED BY <3>1, <3>2, <3>3, <3>4 DEF Wanted
  <2>6. cfg.sieveDevice = NotGiven => Plan!Total(backing) + HostPermitted >= MapBytes
    BY <1>1, <2>2, <2>4 DEF IInv, LegInv, Budgeted, Admitted, Total
  <2>7. QED BY <2>2, <2>3, <2>4, <2>5, <2>6 DEF Line!Valid
<1>2. QED BY <1>1, Invariance, PTL

\* The instance counts as the libraries do.
LEMMA SameCount == \A S : Plan!Cardinality(S) = Cardinality(S)
  BY DEF Plan!Cardinality, Cardinality

\* For any number of devices, any backings and any weights, the caps hand out
\* exactly the slabs there are, each within one slab of its exact share: the
\* largest-remainder rule, rounding of the doubles included
\* (pull_scheduler.h:64-68, pull_scheduler.cpp:129-157).
THEOREM CapsAreShares == Spec => []CapsFollowWeights
<1>1. ASSUME IInv, phase = "done"
      PROVE  /\ Cardinality(Plan!Tickets) = numSlabs
             /\ \A d \in Plan!Devices :
                  Plan!CapRem[d] \in 1 - Plan!Total(weight) .. Plan!Total(weight) - 1
  <2>1. /\ numSlabs \in Nat /\ Parts(weight) /\ Len(weight) = Len(devs)
        /\ Plan!Devices = 1 .. Len(devs)
        /\ Plan!CapRem = Rem(numSlabs, weight, cap)
    BY <1>1, CallFacts, RemsAgree
  <2>2. Handing(numSlabs, weight, cap) /\ Total(cap) >= numSlabs
    BY <1>1 DEF IInv, PlanInv
  <2>3. /\ Total(cap) = numSlabs
        /\ \A d \in 1 .. Len(weight) :
             /\ cap[d] <= numSlabs
             /\ Rem(numSlabs, weight, cap)[d] \in 1 - Total(weight) .. Total(weight) - 1
    BY <2>1, <2>2, AllHandedOut
  <2>4. cap \in Seq(Nat) /\ Len(cap) = Len(devs)
    BY <2>1, <2>2 DEF Handing
  <2>5. Cardinality({t \in (1 .. Len(cap)) \X (0 .. numSlabs - 1) : t[2] < cap[t[1]]})
          = Total(cap)
    BY <2>1, <2>3, <2>4, TicketsAddUp
  <2>6. Cardinality(Plan!Tickets) = numSlabs
    BY <2>1, <2>3, <2>4, <2>5 DEF Plan!Tickets
  <2>7. QED BY <2>1, <2>3, <2>6 DEF Total
<1>2. IInv => CapsFollowWeights
  BY <1>1, SameCount DEF CapsFollowWeights, Plan!CapsFollowWeights
<1>3. QED BY <1>2, Invariance, PTL

\* The slabs a device owns are the home[d] consecutive ones from its base, none
\* of them beyond the map and none another's: region[s - homeBase] is the buffer
\* of every one (pull_scheduler.cpp:169-182).
THEOREM RegionsMatch == Spec => []RegionsLineUp
<1>1. ASSUME IInv PROVE RegionsLineUp
  <2>1. SUFFICES ASSUME phase = "done", NEW d \in Plan!Devices
                 PROVE  {s \in DOMAIN ownerOf : ownerOf[s] = d}
                          = Plan!HomeBase(d) .. Plan!HomeBase(d) + home[d] - 1
    BY DEF RegionsLineUp, Plan!RegionsLineUp
  <2>2. /\ numSlabs \in Nat /\ Plan!Devices = 1 .. Len(devs) /\ Len(backing) = Len(devs)
        /\ DOMAIN backing = 1 .. Len(devs)
    BY <1>1, <2>1, CallFacts DEF Plan!Devices
  <2>3. home \in Seq(Nat) /\ Len(home) = Len(devs) /\ Total(home) <= numSlabs
    BY <1>1, <2>1, PlanNow DEF IInv, PlanInv
  <2>4. \A e \in 1 .. Len(home) :
          /\ BlockOf(home, e) \subseteq 0 .. numSlabs - 1
          /\ \A f \in 1 .. Len(home) :
               e # f => BlockOf(home, e) \intersect BlockOf(home, f) = {}
    BY <2>2, <2>3, BlocksAreApart
  <2> DEFINE at(s) == {e \in 1 .. Len(devs) : s \in BlockOf(home, e)}
  <2>5. ownerOf = [s \in 0 .. numSlabs - 1 |->
                     IF at(s) = {} THEN 0 ELSE CHOOSE e \in at(s) : TRUE]
    BY <1>1, <2>1, <2>2 DEF IInv, PlanInv, OwnersSet, BlockOf, Plan!Homeless
  <2>6. ASSUME NEW s \in 0 .. numSlabs - 1
        PROVE  ownerOf[s] = d <=> s \in BlockOf(home, d)
    <3>1. CASE s \in BlockOf(home, d)
      <4>1. at(s) = {d}
        BY <2>1, <2>2, <2>3, <2>4, <3>1
      <4>2. QED BY <2>5, <3>1, <4>1
    <3>2. CASE s \notin BlockOf(home, d)
      <4>1. d \notin at(s) /\ d # 0
        BY <2>1, <2>2, <3>2
      <4> HIDE DEF at
      <4>2. CASE at(s) = {}
        BY <2>5, <3>2, <4>1, <4>2
      <4>3. CASE at(s) # {}
        <5>1. ownerOf[s] \in at(s)
          BY <2>5, <4>3
        <5>2. QED BY <3>2, <4>1, <5>1
      <4>4. QED BY <4>2, <4>3
    <3>3. QED BY <3>1, <3>2
  <2>7. DOMAIN ownerOf = 0 .. numSlabs - 1
    BY <2>5
  <2>8. {s \in DOMAIN ownerOf : ownerOf[s] = d} = BlockOf(home, d)
    <3>1. BlockOf(home, d) \subseteq 0 .. numSlabs - 1
      BY <2>1, <2>2, <2>3, <2>4
    <3>2. QED BY <2>6, <2>7, <3>1
  <2>9. BlockOf(home, d) = Plan!HomeBase(d) .. Plan!HomeBase(d) + home[d] - 1
    BY DEF BlockOf, Base, PartialSums, Plan!HomeBase
  <2>10. QED BY <2>8, <2>9
<1>2. QED BY <1>1, Invariance, PTL
=============================================================================
