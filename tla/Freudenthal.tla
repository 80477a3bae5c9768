---------------------------- MODULE Freudenthal ----------------------------
(***************************************************************************)
(* The test a searcher applies to one odd sum: Sammy2Loopy and              *)
(* FreudenthalTools (source/cpu_search.cpp), and the body of the search     *)
(* kernel that replays them on a GPU (source/m4/gpu_search_kernel.h).       *)
(*                                                                          *)
(* The four phases go through the ways to write the sum as an even and an   *)
(* odd term and count those whose product would tell Peter both terms,      *)
(* giving up at the second one.  The trial of one product enumerates its    *)
(* factor pairs from its prime factors; one pass of that loop is one step.  *)
(* CPU and GPU differ in the list of small primes they walk: the GPU's has  *)
(* lost its 2, and is guarded at its end.  Arithmetic is exact; a map       *)
(* lookup or a Miller-Rabin test is primality.                              *)
(***************************************************************************)
EXTENDS Integers, Sequences, FiniteSets

CONSTANTS
  SumLimit,   \* the leg: its geometry and prime list follow from it
  TestedSums, \* the odd sums of the leg that are tested
  Idle        \* no trial under way

\* What a trial keeps: the factors stand in an array, the first `settled` of them
\* without the prime in hand.
Trials == [power2 : Nat, oddProduct : Nat, limit : Nat, test : Nat, temp : Nat,
           prime : Nat, factor : Nat, index : Nat,
           factors : Seq(Nat), settled : Nat, multiple : Nat]

ASSUME TestedAssumption ==
  /\ SumLimit \in Nat \ {0}
  /\ TestedSums \subseteq {s \in 5 .. SumLimit : s % 2 = 1}
  /\ Idle \notin Trials

VARIABLES
  side,        \* who tests: "cpu" or "gpu"
  sum,
  phase,       \* the phase of the test, or how it ended
  power2,      \* the even term under trial is odd * 2^power2
  odd,
  valid,       \* numProductsWithOnlyOneMultipleFactorPair_, numValid
  terms,       \* termA_, termB_, or NoTerms
  composites,  \* compositePower2_, compositeMask: powers still to be tried
  trial        \* the factor enumeration under way, or Idle

testVars == <<side, sum, phase, power2, odd, valid, terms, composites, trial>>

NoTerms == << >>

-----------------------------------------------------------------------------
(* The leg *)

\* 1 << k
TwoTo[k \in Nat] == IF k = 0 THEN 1 ELSE 2 * TwoTo[k - 1]

\* Half the largest sum bounds both the smaller term of a pair and the square
\* root of its product.
MaxGeneratedPrime == (SumLimit + 1) \div 2

\* The largest value whose primality is ever asked: the sum of the factor pair
\* a power of two takes part in.
LargestAsked == (MaxGeneratedPrime * MaxGeneratedPrime) \div 2 + 2

Primes ==
  (2 .. LargestAsked) \
    UNION {{p * q : q \in 2 .. LargestAsked \div p} :
             p \in {d \in 2 .. LargestAsked : d * d <= LargestAsked}}

IsPrime(n) == n \in Primes

\* smallPrimes, from index 0; the one the GPU gets starts at 3.
MutSmallPrimes ==
  LET list == {p \in Primes : p * p <= MaxGeneratedPrime}
      all == [i \in 1 .. Cardinality(list) |->
                CHOOSE p \in list : Cardinality({q \in list : q <= p}) = i]
  IN [cpu |-> all, gpu |-> Tail(all)]
SmallPrimes ==
  LET list == {p \in Primes : p <= MaxGeneratedPrime}
      all == [i \in 1 .. Cardinality(list) |->
                CHOOSE p \in list : Cardinality({q \in list : q <= p}) = i]
  IN [cpu |-> all, gpu |-> Tail(all)]

\* The index both start from is that of 3: the loop has it in hand already.
FirstIndex == [cpu |-> 1, gpu |-> 0]

\* Sizes of the fixed tables: log2, rounded to the nearest, of the leg.
Log2Rounded(n) == CHOOSE g \in 0 .. n : /\ g = 0 \/ TwoTo[2 * g - 1] <= n * n
                                        /\ TwoTo[2 * g + 1] > n * n
FactorSlots ==
  LET g == Log2Rounded(MaxGeneratedPrime * MaxGeneratedPrime + 1)
  IN [cpu |-> g * (g - 1) * 2, gpu |-> 32]
MutCompositeSlots == [cpu |-> Log2Rounded(SumLimit - 2) \div 2, gpu |-> 32]
CompositeSlots == [cpu |-> Log2Rounded(SumLimit - 2), gpu |-> 32]

\* The powers of two a loop over them meets, the one that ends it included.
Powers == 2 .. Log2Rounded(SumLimit) + 1

isqrt64(n) == CHOOSE r \in 0 .. n : r * r <= n /\ (r + 1) * (r + 1) > n

\* ProductOfTermPairsHasSingleFactorPair: some way to split the sum has a
\* product that nothing else factors into.
SingleFactorPair(s) == s % 2 = 0 \/ IsPrime(s - 2)

-----------------------------------------------------------------------------
(* The trial of one product 2^power2 * oddProduct: does all but one of its  *)
(* factor pairs have a sum that Sammy could not have spoken of?             *)

Product(t) == TwoTo[t.power2] * t.oddProduct

\* How many of these factors stand in a pair whose sum has no single factor
\* pair.
Multiples(product, factors) ==
  Cardinality({i \in DOMAIN factors :
                 ~SingleFactorPair(factors[i] + product \div factors[i])})

StartTrial(k, oddProduct) ==
  LET product == TwoTo[k] * oddProduct
      limit == isqrt64(product)
      own == IF TwoTo[k] <= limit THEN <<TwoTo[k]>> ELSE << >>
  IN trial' = [power2 |-> k, oddProduct |-> oddProduct, limit |-> limit,
               test |-> oddProduct, temp |-> oddProduct \div 3,
               prime |-> 3, factor |-> 3, index |-> FirstIndex[side],
               factors |-> own, settled |-> Len(own),
               multiple |-> Multiples(product, own)]

\* The settled factors times the new one, as far as the limit.  Settled
\* factors come in ascending runs: one that is too large takes the rest of its
\* run with it.
RunEnd(t, f) ==
  CHOOSE e \in f .. t.settled :
    /\ \A g \in f .. e : t.factors[g] >= t.factors[f]
    /\ e = t.settled \/ t.factors[e + 1] < t.factors[f]
Walk(t) ==
  LET walk[f \in 1 .. t.settled + 1] ==
        IF f > t.settled THEN << >>
        ELSE IF t.factors[f] * t.factor <= t.limit
             THEN <<t.factors[f] * t.factor>> \o walk[f + 1]
             ELSE walk[RunEnd(t, f) + 1]
  IN walk
Extended(t) == <<t.factor>> \o Walk(t)[1]

\* The prime in hand divides what is left of the product once more.
Divides(t) == t.temp * t.prime = t.test
Divide(t) ==
  LET new == IF t.factor <= t.limit THEN Extended(t) ELSE << >>
  IN [t EXCEPT !.factors = @ \o new,
               !.multiple = @ + Multiples(Product(t), new),
               !.test = t.temp,
               !.temp = @ \div t.prime,
               !.factor = @ * t.prime]

\* The next prime: what is left, if it is one, or the next of the list.
NextOfList(t) == SmallPrimes[side][t.index + 2]
ListEnds(t) == side = "gpu" /\ t.index + 1 >= Len(SmallPrimes.gpu)
MutAdvance(t) ==
  LET last == IsPrime(t.test)
      p == IF last THEN t.test ELSE NextOfList(t)
  IN [t EXCEPT !.prime = p,
               !.factor = p,
               !.temp = IF last THEN 1 ELSE t.test \div p,
               !.index = IF last THEN @ ELSE @ + 1]
Advance(t) ==
  LET last == IsPrime(t.test)
      p == IF last THEN t.test ELSE NextOfList(t)
  IN [t EXCEPT !.prime = p,
               !.factor = p,
               !.temp = IF last THEN 1 ELSE t.test \div p,
               !.index = IF last THEN @ ELSE @ + 1,
               !.settled = Len(t.factors)]

\* Nothing is left, or no prime up to the limit can divide it.
Over(t) ==
  t.test # 1 =>
    IF IsPrime(t.test) THEN t.test > t.limit
    ELSE ListEnds(t) \/ NextOfList(t) > t.limit

-----------------------------------------------------------------------------
(* The four phases *)

TestInit ==
  /\ side \in {"cpu", "gpu"}
  /\ sum \in TestedSums
  /\ phase = "filter"
  /\ power2 = 0
  /\ odd = 0
  /\ valid = 0
  /\ terms = NoTerms
  /\ composites = {}
  /\ trial = Idle

\* Sammy could not have spoken of some sums, and no multiple of 3 but thrice a
\* prime is answered.
Screened == ~SingleFactorPair(sum) /\ (sum % 3 = 0 => IsPrime(sum \div 3))

Filter ==
  /\ phase = "filter"
  /\ phase' = IF Screened THEN "power2prime" ELSE "skipped"
  /\ UNCHANGED <<side, sum, power2, odd, valid, terms, composites, trial>>

\* The largest power of the right parity at which `from`, the least odd part,
\* still fits under the sum; below 2 if there is none.
FitsUnder(from, k) == from * TwoTo[k] < sum - 2
FirstPower(from, parity) ==
  LET k == CHOOSE k \in Powers : ~FitsUnder(from, k) /\ \A j \in 2 .. k - 1 : FitsUnder(from, j)
  IN CHOOSE j \in {k - 1, k - 2} : j % 2 = parity

\* A pair of oddPartOfEven * 2^power2 and the rest of the sum.
LeastPart == [power2odd |-> 5, power2even |-> 3]
MutParity == [power2odd |-> 1, power2even |-> 1]
Parity == [power2odd |-> 1, power2even |-> 0]

\* Begin the loops of a phase.
Enter(next) ==
  /\ phase' = next
  /\ IF next \in DOMAIN LeastPart
     THEN /\ power2' = FirstPower(LeastPart[next], Parity[next])
          /\ odd' = LeastPart[next]
     ELSE power2' = 0 /\ odd' = 1

\* A phase that has seen two products ends the test.
Leave(next) == Enter(IF valid' > 1 THEN "decided" ELSE next)

\* Powers of two whose partner is prime.
Power2Prime ==
  /\ phase = "power2prime"
  /\ LET powers == {k \in Powers : TwoTo[k] < sum - 2}
         hits == {k \in powers : IsPrime(sum - TwoTo[k])}
         before(k) == {h \in hits : h < k}
     IN /\ valid' = IF Cardinality(hits) > 1 THEN 2 ELSE Cardinality(hits)
        /\ terms' = IF hits = {} THEN NoTerms
                    ELSE LET k == CHOOSE h \in hits : before(h) = {}
                         IN <<TwoTo[k], sum - TwoTo[k]>>
        /\ composites' = {k \in powers \ hits : Cardinality(before(k)) <= 1}
  /\ Leave("power2odd")
  /\ UNCHANGED <<side, sum, trial>>

Looping == phase \in DOMAIN LeastPart /\ trial = Idle
EvenTerm == odd * TwoTo[power2]
OddTerm == sum - EvenTerm
OddProduct == odd * OddTerm

\* Which pairs of a phase are tried at all.
Eligible ==
  IF phase = "power2odd" THEN OddProduct % 3 # 0
  ELSE OddProduct % 3 = 0 \/ IsPrime(OddTerm)

\* DoesPeterKnow looks at the two pairs that need no factoring first.
Plausible ==
  /\ SingleFactorPair(TwoTo[power2] + OddProduct)
  /\ odd # OddTerm => SingleFactorPair(odd + TwoTo[power2] * OddTerm)

NextRow == power2' = power2 - 2 /\ odd' = LeastPart[phase]

\* One turn of the two loops: a new row, a pair that is passed over, or one
\* that goes to trial.  Once two products are counted a row ends at its first
\* eligible pair.
Pair ==
  /\ Looping /\ power2 >= 2
  /\ \/ /\ ~FitsUnder(odd, power2) \/ (Eligible /\ ~Plausible /\ valid > 1)
        /\ NextRow
        /\ UNCHANGED trial
     \/ /\ FitsUnder(odd, power2)
        /\ ~Eligible \/ (~Plausible /\ valid <= 1)
        /\ odd' = odd + 2
        /\ UNCHANGED <<power2, trial>>
     \/ /\ FitsUnder(odd, power2) /\ Eligible /\ Plausible
        /\ StartTrial(power2, OddProduct)
        /\ UNCHANGED <<power2, odd>>
  /\ UNCHANGED <<side, sum, phase, valid, terms, composites>>

\* The powers that Power2Prime left over, from the largest.
CompositePower ==
  /\ phase = "power2composite" /\ trial = Idle
  /\ composites # {} /\ valid <= 1
  /\ LET k == CHOOSE k \in composites : \A j \in composites : j <= k
     IN /\ composites' = composites \ {k}
        /\ power2' = k
        /\ StartTrial(k, sum - TwoTo[k])
  /\ UNCHANGED <<side, sum, phase, odd, valid, terms>>

LeavePhase ==
  /\ trial = Idle
  /\ UNCHANGED valid
  /\ \/ phase = "power2odd" /\ power2 < 2 /\ Leave("power2composite")
     \/ /\ phase = "power2composite" /\ (composites = {} \/ valid > 1)
        /\ Leave("power2even")
     \/ phase = "power2even" /\ power2 < 2 /\ Enter("decided")
  /\ UNCHANGED <<side, sum, terms, composites, trial>>

\* One pass of the factor loop that goes on.
Factor ==
  /\ trial # Idle /\ trial.multiple <= 1
  /\ \/ Divides(trial) /\ trial' = Divide(trial)
     \/ ~Divides(trial) /\ ~Over(trial) /\ trial' = Advance(trial)
  /\ UNCHANGED <<side, sum, phase, power2, odd, valid, terms, composites>>

\* The trial is over: Peter knows if exactly one pair was a multiple one.
Known == IF trial.multiple = 1 THEN 1 ELSE 0

Count ==
  /\ trial # Idle
  /\ trial.multiple > 1 \/ (~Divides(trial) /\ Over(trial))
  /\ trial' = Idle
  /\ valid' = valid + Known
  /\ terms' = IF terms = NoTerms /\ valid' = 1 THEN <<EvenTerm, OddTerm>>
              ELSE terms
  /\ IF phase = "power2composite" THEN UNCHANGED <<power2, odd>>
     ELSE IF valid' > 1 THEN NextRow
     ELSE odd' = odd + 2 /\ UNCHANGED power2
  /\ UNCHANGED <<side, sum, phase, composites>>

Ended == phase \in {"skipped", "decided"} /\ UNCHANGED testVars

TestNext == Filter \/ Power2Prime \/ Pair \/ CompositePower \/ LeavePhase
              \/ Factor \/ Count \/ Ended

TestSpec == TestInit /\ [][TestNext]_testVars

-----------------------------------------------------------------------------
(* The riddle (reference/fastFreudenthalSegmentedSieve.C:1) *)

\* A product has one factor pair only when it is that of two primes or of a
\* prime and its square.
Unmistakable(a, b) ==
  (IsPrime(a) /\ IsPrime(b)) \/ (IsPrime(a) /\ b = a * a)

\* Every even number from 4 on is the sum of two primes (cpu_search.cpp:47).
Goldbach ==
  \A s \in 4 .. LargestAsked :
    s % 2 = 0 => \E a \in 2 .. s \div 2 : IsPrime(a) /\ IsPrime(s - a)

\* "Peter, you do not know": no split of the sum has an unmistakable product.
SammyIsSure ==
  [s \in 4 .. LargestAsked |->
     \A a \in 2 .. s \div 2 : ~Unmistakable(a, s - a)]

\* "Now I do know": one factor pair of the product has such a sum.
PeterKnows(product) ==
  Cardinality({f \in 2 .. isqrt64(product) :
                 /\ product % f = 0
                 /\ SammyIsSure[f + product \div f]}) = 1

\* "Now I know them also": one split of the sum has such a product.
Solutions(s) ==
  IF SammyIsSure[s]
  THEN {<<a, s - a>> : a \in {x \in 2 .. s \div 2 : PeterKnows(x * (s - x))}}
  ELSE {}

\* A sum is printed exactly when the riddle has one solution with it, and with
\* that solution, by the CPU and by the GPU: what the phases pass over, the
\* trials they cut short and the phases they skip never change the verdict.
Printed == phase = "decided" /\ valid = 1
Ordered == IF terms[1] < terms[2] THEN terms ELSE <<terms[2], terms[1]>>
VerdictIsTheRiddles ==
  phase \in {"skipped", "decided"} =>
    IF Cardinality(Solutions(sum)) = 1
    THEN Printed /\ Solutions(sum) = {Ordered}
    ELSE ~Printed

\* A trial counts a product exactly when Peter would know from it, whatever the
\* early exits and the skipped runs of the factor enumeration
\* (cpu_search.cpp:72-80).
TrialsAreRight ==
  [][trial # Idle /\ trial' = Idle =>
       (valid' = valid + 1 <=> PeterKnows(Product(trial)))]_testVars

\* The small primes last until the trial is decided: neither the CPU's
\* unguarded read nor the GPU's guard meets the end of the list
\* (cpu_search.cpp:104; gpu_search_kernel.h:396).
WalksTheList(t) ==
  t.multiple <= 1 /\ ~Divides(t) /\ t.test # 1 /\ ~IsPrime(t.test)
PrimesLast ==
  trial # Idle /\ WalksTheList(trial) => trial.index + 1 < Len(SmallPrimes[side])

\* The composite powers fit the array and the bits they are kept in, the factors
\* their array (cpu_search.cpp:36-39, 127; gpu_search_kernel.h:353, 409-415,
\* 508-516).
CompositesFit ==
  IF side = "cpu" THEN Cardinality(composites) <= CompositeSlots.cpu
  ELSE \A k \in composites : k < CompositeSlots.gpu
FactorsFit == trial # Idle => Len(trial.factors) <= FactorSlots[side]
TablesSuffice == CompositesFit /\ FactorsFit
=============================================================================
