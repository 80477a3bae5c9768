------------------------------- MODULE Wheel -------------------------------
(***************************************************************************)
(* Which numbers are prime, as the program asks the prime map: the wheel-30 *)
(* layout with one bit for each residue prime to 30 (source/geometry.h),    *)
(* its canonical form with one bit for each odd number, and the three       *)
(* readers: dev_IsPrime of the device (source/m4/gpu_search_kernel.h),      *)
(* Wheel30Verdict of the emission (source/m4/wheel_verdict.h) and GpuPrime  *)
(* of the host (source/gpu_prime.cpp).                                      *)
(*                                                                          *)
(* A map is the set of its bits that are set, a bit a pair of a byte and a  *)
(* position.  A word of the machine has R values: its arithmetic is modulo  *)
(* R where the code's is modulo 2^64.                                       *)
(***************************************************************************)
EXTENDS Integers, Sequences, FiniteSets, SequencesExt

CONSTANTS
  R,        \* 2^64 in the code
  Magic     \* the reciprocal of 30: (16 * R + 14) / 30

ASSUME WordAssumption == R \in Nat \ {0} /\ Magic \in Nat /\ 30 * Magic = 16 * R + 14

-----------------------------------------------------------------------------
(* The layouts *)

WheelResidues == <<1, 7, 11, 13, 17, 19, 23, 29>>
CoprimeMask == {1, 7, 11, 13, 17, 19, 23, 29}

\* The high word of the product, then four bits to the right.
Quotient(n) == ((n * Magic) \div R) \div 16
Rest(n) == n - 30 * Quotient(n)

\* The rank of a residue: the population count of the mask below it.
Slot(r) == Cardinality({x \in CoprimeMask : x < r})

\* Slab s of the packed map begins where its canonical bytes will.
MutPlacement(q, slabBytes) ==
  LET s == q \div slabBytes
  IN s * slabBytes + (q - s * slabBytes)
Placement(q, slabBytes) ==
  LET s == q \div slabBytes
  IN ((s * slabBytes) \div 8) * 15 + (q - s * slabBytes)

CanonicalBit(v) == <<v \div 16, (v \div 2) % 8>>
InternalMapBytes(span) == (span + 29) \div 30

\* 3 and 5 have no bit in the wheel layout and are put back; of the last byte
\* the bits past the span are padding.
ExpandWheel30ToCanonical(src, span) ==
  {CanonicalBit(v) : v \in {x \in {3, 5} : x < span}
     \union {v \in {30 * b[1] + WheelResidues[b[2] + 1] : b \in src} : v < span}}

CompactCanonicalToWheel30(src, span) ==
  {b \in (0 .. InternalMapBytes(span) - 1) \X (0 .. 7) :
     LET v == 30 * b[1] + WheelResidues[b[2] + 1]
     IN v < span /\ CanonicalBit(v) \in src}

-----------------------------------------------------------------------------
(* Montgomery arithmetic modulo an odd m *)

Iterate(f(_), x, n) == FoldLeft(LAMBDA y, i : f(y), x, [i \in 1 .. n |-> i])

\* The negated inverse of m, by Newton's iteration: the seed has three bits
\* right, each of the five rounds doubles them.
DevMontMinv(m) ==
  LET round(inv) == (inv * ((2 - m * inv) % R)) % R
  IN (R - Iterate(round, m % R, 5)) % R

\* A sum that wraps is at least m: it is reduced all the same.
MutDevMontAddMod(a, b, m) ==
  LET s == (a + b) % R IN IF s >= m THEN s - m ELSE s
DevMontAddMod(a, b, m) ==
  LET s == (a + b) % R IN IF s < a \/ s >= m THEN (s - m) % R ELSE s

\* R^2 modulo m, by as many doublings of 1 as two words have bits.
DevMontR2(m) ==
  LET bits == CHOOSE k \in 1 .. 64 : 2 ^ k = R
  IN Iterate(LAMBDA r : DevMontAddMod(r, r, m), 1, 2 * bits)

\* The words of a * b, of u * m and of their sum, with the two carries.
DevMontMul(a, b, m, minv) ==
  LET lo == (a * b) % R
      u == (lo * minv) % R
      c0 == IF lo + ((u * m) % R) >= R THEN 1 ELSE 0
      sum == (a * b) \div R + (u * m) \div R + c0
      t == sum % R
  IN IF sum >= R \/ t >= m THEN (t - m) % R ELSE t

-----------------------------------------------------------------------------
(* Miller-Rabin *)

\* For numbers below 3215031751 the first four witnesses are enough.
Witnesses == {2, 3, 5, 7}

\* n - 1 is an odd number times two to this power.
Power2(n) == CHOOSE k \in 1 .. n : (n - 1) % 2 ^ k = 0 /\ (n - 1) % 2 ^ (k + 1) # 0
OddPart(n) == n \div 2 ^ Power2(n)

\* x, its square, and so on: power2 numbers in all.
SquaresOf(x, square(_), k) == {Iterate(square, x, i) : i \in 0 .. k - 1}

\* The bits of an exponent, the lowest first.
BitsOf(e) ==
  LET len == IF e = 0 THEN 0 ELSE CHOOSE k \in 1 .. 64 : 2 ^ (k - 1) <= e /\ e < 2 ^ k
  IN [i \in 1 .. len |-> (e \div 2 ^ (i - 1)) % 2]

\* The device: in the Montgomery domain, where 1 and n - 1 have images of
\* their own.
DevAskMillerRabin(n) ==
  LET minv == DevMontMinv(n)
      r2 == DevMontR2(n)
      mul(a, b) == DevMontMul(a, b, n, minv)
      one == mul(1, r2)
      power(p) == FoldLeft(LAMBDA x, bit : <<IF bit = 1 THEN mul(x[1], x[2]) ELSE x[1],
                                             mul(x[2], x[2])>>,
                           <<one, mul(p % n, r2)>>, BitsOf(OddPart(n)))[1]
  IN \A p \in Witnesses :
       \/ power(p) = one
       \/ mul(n - 1, r2) \in SquaresOf(power(p), LAMBDA x : mul(x, x), Power2(n))

\* The host: plain modular arithmetic.
ModularPower(b, e, n) ==
  FoldLeft(LAMBDA x, bit : <<IF bit = 1 THEN (x[1] * x[2]) % n ELSE x[1],
                             (x[2] * x[2]) % n>>,
           <<1, b>>, BitsOf(e))[1]

AskMillerRabin(n) ==
  \A p \in Witnesses :
    \/ ModularPower(p, OddPart(n), n) = 1
    \/ n - 1 \in SquaresOf(ModularPower(p, OddPart(n), n), LAMBDA x : (x * x) % n,
                           Power2(n))

-----------------------------------------------------------------------------
(* The three readers *)

InWheel(n) == Rest(n) \in CoprimeMask

DevIsPrime(n, primeMap, maxPrimeMapValue) ==
  \/ n = 2
  \/ /\ n % 2 = 1
     /\ IF n > maxPrimeMapValue THEN DevAskMillerRabin(n)
        ELSE \/ n \in {3, 5}
             \/ InWheel(n) /\ <<Quotient(n), Slot(Rest(n))>> \in primeMap

Wheel30VerdictIsPrime(n, packedMap, slabBytes) ==
  \/ n = 2
  \/ /\ n % 2 = 1
     /\ \/ n \in {3, 5}
        \/ /\ InWheel(n)
           /\ <<Placement(Quotient(n), slabBytes), Slot(Rest(n))>> \in packedMap

GpuPrimeIsPrime(n, primeMap, maxPrimeMapValue) ==
  \/ n = 2
  \/ /\ n % 2 = 1
     /\ IF n > maxPrimeMapValue THEN AskMillerRabin(n) ELSE CanonicalBit(n) \in primeMap
=============================================================================
