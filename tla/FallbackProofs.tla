--------------------------- MODULE FallbackProofs ---------------------------
(***************************************************************************)
(* Theorems about Fallback, for every leg, grid, answer and set of failing  *)
(* calls: how the CPU's chunks cut the range, how the grid shares out the    *)
(* odd sums, and what its answer count says.                                *)
(***************************************************************************)
EXTENDS Fallback, ListLemmas

-----------------------------------------------------------------------------
(* The chunks of the CPU search *)

\* Where the c-th of K chunks of N sums starts.
Share(c, N, K) == (2 * c * N + K) \div (2 * K)

\* The chunks follow one another from the first sum to the last, and when there
\* is a sum for each of them none is empty.
LEMMA SharesTile ==
  ASSUME NEW N \in Nat, NEW K \in Nat, 0 < K, K <= N
  PROVE  /\ Share(0, N, K) = 0 /\ Share(K, N, K) = N
         /\ \A c \in 0 .. K : Share(c, N, K) \in Nat
         /\ \A c \in 0 .. K - 1 :
              /\ Share(c, N, K) < Share(c + 1, N, K)
              /\ Share(c + 1, N, K) <= N
              /\ 2 * (c + 1) * N - K >= 0
              /\ (2 * (c + 1) * N - K) \div (2 * K) = Share(c + 1, N, K) - 1
         /\ \A b, c \in 0 .. K : b <= c => Share(b, N, K) <= Share(c, N, K)
<1> DEFINE D == 2 * K
           P(c) == 2 * c * N
<1>1. D \in Nat /\ D > 0
  OBVIOUS
<1>2. \A c \in 0 .. K : P(c) \in Nat
  OBVIOUS
<1>3. \A b, c \in 0 .. K : b <= c => P(b) <= P(c)
  <2> TAKE b, c \in 0 .. K
  <2> HAVE b <= c
  <2>1. c - b \in Nat
    OBVIOUS
  <2>2. 2 * (c - b) * N \in Nat
    BY <2>1
  <2>3. 2 * c * N = 2 * b * N + 2 * (c - b) * N
    OBVIOUS
  <2>4. QED BY <1>2, <2>2, <2>3
<1>4. \A c \in 0 .. K - 1 : P(c + 1) = P(c) + 2 * N /\ c + 1 \in 0 .. K /\ c \in 0 .. K
  OBVIOUS
<1>5. P(0) = 0 /\ P(K) = D * N
  OBVIOUS
<1> HIDE DEF P
<1>6. \A c : Share(c, N, K) = (P(c) + K) \div D
  BY DEF Share, P
<1>7. \A b, c \in 0 .. K : b <= c => Share(b, N, K) <= Share(c, N, K)
  <2> TAKE b, c \in 0 .. K
  <2> HAVE b <= c
  <2>1. P(b) + K \in Int /\ P(c) + K \in Int /\ P(b) + K <= P(c) + K
    BY <1>2, <1>3
  <2> HIDE DEF D
  <2>2. QED BY <1>1, <1>6, <2>1, DivMonotonic
<1>8. Share(0, N, K) = 0
  <2>1. D * 0 <= P(0) + K /\ P(0) + K < D * 0 + D
    BY <1>5
  <2> HIDE DEF D
  <2>2. (P(0) + K) \div D = 0
    BY <1>1, <1>5, <2>1, DivUnique
  <2>3. QED BY <1>6, <2>2
<1>9. Share(K, N, K) = N
  <2>1. D * N <= P(K) + K /\ P(K) + K < D * N + D /\ P(K) + K \in Int
    BY <1>5
  <2> HIDE DEF D
  <2>2. (P(K) + K) \div D = N
    BY <1>1, <2>1, DivUnique
  <2>3. QED BY <1>6, <2>2
<1>10. ASSUME NEW c \in 0 .. K
       PROVE  Share(c, N, K) \in Nat
  <2>1. Share(0, N, K) <= Share(c, N, K)
    BY <1>7
  <2>2. (P(c) + K) \div D \in Int
    <3>1. P(c) + K \in Int
      BY <1>2
    <3> HIDE DEF D
    <3>2. QED BY <1>1, <3>1, DivBounds
  <2>3. QED BY <1>6, <1>8, <2>1, <2>2
<1>11. ASSUME NEW c \in 0 .. K - 1
       PROVE  /\ Share(c, N, K) < Share(c + 1, N, K)
              /\ Share(c + 1, N, K) <= N
              /\ 2 * (c + 1) * N - K >= 0
              /\ (2 * (c + 1) * N - K) \div (2 * K) = Share(c + 1, N, K) - 1
  <2>1. /\ P(c) \in Nat /\ P(c + 1) = P(c) + 2 * N /\ c + 1 \in 0 .. K /\ c \in 0 .. K
        /\ c + 1 <= K
    BY <1>2, <1>4
  <2>2. (P(c) + K + D) \div D = Share(c, N, K) + 1
    <3>1. P(c) + K \in Int
      BY <2>1
    <3> HIDE DEF D
    <3>2. QED BY <1>1, <1>6, <3>1, DivShift
  <2>3. (P(c) + K + D) \div D <= Share(c + 1, N, K)
    <3>1. P(c) + K + D <= P(c + 1) + K /\ P(c) + K + D \in Int /\ P(c + 1) + K \in Int
      BY <2>1
    <3> HIDE DEF D
    <3>2. QED BY <1>1, <1>6, <3>1, DivMonotonic
  <2>4. P(c + 1) - K >= 0 /\ P(c + 1) - K \in Int
    BY <2>1
  <2>5. (P(c + 1) - K) \div D = Share(c + 1, N, K) - 1
    <3>1. P(c + 1) + K = (P(c + 1) - K) + D
      BY <2>1
    <3> HIDE DEF D
    <3>2. ((P(c + 1) - K) + D) \div D = (P(c + 1) - K) \div D + 1
      BY <1>1, <2>4, DivShift
    <3>3. (P(c + 1) - K) \div D \in Int
      BY <1>1, <2>4, DivBounds
    <3>4. Share(c + 1, N, K) = (P(c + 1) - K) \div D + 1
      BY <1>6, <3>1, <3>2
    <3>5. QED BY <3>3, <3>4
  <2>6. P(c + 1) = 2 * (c + 1) * N
    BY DEF P
  <2>7. Share(c + 1, N, K) <= N
    BY <1>7, <1>9, <2>1
  <2>8. Share(c, N, K) \in Nat /\ Share(c + 1, N, K) \in Nat
    BY <1>10, <2>1
  <2>9. QED BY <2>2, <2>3, <2>4, <2>5, <2>6, <2>7, <2>8
<1>12. QED BY <1>7, <1>8, <1>9, <1>10, <1>11

\* A call of RunIt has a sum for every chunk, two for each thread.
SharedOut(i) ==
  /\ i.start \in Nat /\ i.limit \in Nat /\ i.threads \in Nat \ {0}
  /\ i.limit - i.start + 1 >= 2 * i.threads

LEMMA ChunkBounds ==
  ASSUME SharedOut(input)
  PROVE  /\ Cpu!NumChunks \in Nat /\ Cpu!NumChunks > 0 /\ Cpu!NumSum \in Nat
         /\ Cpu!NumChunks <= Cpu!NumSum
         /\ \A c \in Cpu!Chunks :
              /\ Cpu!ChunkStart(c) = input.start + Share(c, Cpu!NumSum, Cpu!NumChunks)
              /\ Cpu!ChunkLimit(c) = input.start + Share(c + 1, Cpu!NumSum, Cpu!NumChunks) - 1
<1> DEFINE N == Cpu!NumSum
           K == Cpu!NumChunks
<1>1. /\ N \in Nat /\ K \in Nat /\ 0 < K /\ K <= N
      /\ input.start \in Nat /\ input.limit = input.start + N - 1
  BY DEF SharedOut, Cpu!NumSum, Cpu!NumChunks
<1>2. Cpu!Chunks = 0 .. K - 1
  BY DEF Cpu!Chunks
<1>3. ASSUME NEW c \in Cpu!Chunks
      PROVE  /\ Cpu!ChunkStart(c) = input.start + Share(c, N, K)
             /\ Cpu!ChunkLimit(c) = input.start + Share(c + 1, N, K) - 1
  <2>1. Cpu!ChunkStart(c) = input.start + Share(c, N, K)
    BY DEF Cpu!ChunkStart, Share
  <2> DEFINE x == 2 * (c + 1) * N - K
  <2> HIDE DEF N, K
  <2>2. /\ x >= 0 /\ x \div (2 * K) = Share(c + 1, N, K) - 1
        /\ Share(c, N, K) < Share(c + 1, N, K) /\ Share(c + 1, N, K) <= N
        /\ Share(c, N, K) \in Nat /\ Share(c + 1, N, K) \in Nat
    <3>1. c \in 0 .. K - 1 /\ c \in 0 .. K /\ c + 1 \in 0 .. K
      BY <1>1, <1>2
    <3>2. QED BY <1>1, <3>1, SharesTile
  <2>3. Cpu!LimitOffset(c) = Cpu!Larger(x, 0) \div (2 * K)
    BY DEF Cpu!LimitOffset, N, K
  <2>4. Cpu!Larger(x, 0) = x
    BY <2>2 DEF Cpu!Larger
  <2>5. Cpu!LimitOffset(c) = Share(c + 1, N, K) - 1
    BY <2>2, <2>3, <2>4
  <2>6. Cpu!Larger(Cpu!ChunkStart(c), input.start + Cpu!LimitOffset(c))
          = input.start + Share(c + 1, N, K) - 1
    BY <1>1, <2>1, <2>2, <2>5 DEF Cpu!Larger
  <2>7. Cpu!Smaller(input.limit, input.start + Share(c + 1, N, K) - 1)
          = input.start + Share(c + 1, N, K) - 1
    BY <1>1, <2>2 DEF Cpu!Smaller
  <2>8. QED BY <2>1, <2>6, <2>7 DEF Cpu!ChunkLimit
<1>4. QED BY <1>1, <1>3

\* Every sum is in the last chunk that does not start after it, and in no other.
LEMMA ChunksCut ==
  ASSUME SharedOut(input)
  PROVE  ChunksTile
<1> DEFINE N == Cpu!NumSum
           K == Cpu!NumChunks
           S(c) == Share(c, N, K)
<1>1. N \in Nat /\ K \in Nat /\ 0 < K /\ K <= N
  BY ChunkBounds
<1>2. /\ Cpu!Chunks = 0 .. K - 1
      /\ input.start \in Nat /\ input.limit = input.start + N - 1
  BY DEF Cpu!Chunks, SharedOut, Cpu!NumSum
<1>3. \A c \in 0 .. K - 1 : /\ Cpu!ChunkStart(c) = input.start + S(c)
                            /\ Cpu!ChunkLimit(c) = input.start + S(c + 1) - 1
  BY <1>2, ChunkBounds
<1> HIDE DEF N, K
<1>4. /\ S(0) = 0 /\ S(K) = N
      /\ \A c \in 0 .. K : S(c) \in Nat
      /\ \A b, c \in 0 .. K : b <= c => S(b) <= S(c)
  BY <1>1, SharesTile
<1> HIDE DEF S
<1> SUFFICES ASSUME NEW s \in Cpu!OddSums
             PROVE  \E c \in Cpu!Chunks : \A b \in Cpu!Chunks :
                      s \in Cpu!ChunkStart(b) .. Cpu!ChunkLimit(b) <=> b = c
  BY DEF ChunksTile, Cpu!ChunksTile
<1>5. s \in Int /\ input.start <= s /\ s <= input.start + N - 1
  BY <1>1, <1>2 DEF Cpu!OddSums
<1> DEFINE after == {c \in 0 .. K - 1 : s < input.start + S(c + 1)}
<1>6. PICK c \in after : \A d \in after : c <= d
  <2>1. K - 1 \in after
    <3>1. K - 1 \in 0 .. K - 1 /\ (K - 1) + 1 = K
      BY <1>1
    <3>2. QED BY <1>1, <1>2, <1>4, <1>5, <3>1
  <2>2. after \in SUBSET Nat
    BY <1>1
  <2> HIDE DEF after
  <2>3. QED BY <2>1, <2>2, LeastElement
<1>7. c \in 0 .. K - 1 /\ s < input.start + S(c + 1)
  OBVIOUS
<1>8. input.start + S(c) <= s
  <2>1. CASE c = 0
    BY <1>2, <1>4, <1>5, <2>1
  <2>2. CASE c > 0
    <3>1. c - 1 \in 0 .. K - 1 /\ (c - 1) + 1 = c /\ c - 1 < c
      BY <1>1, <1>7, <2>2
    <3>2. c - 1 \notin after
      BY <1>1, <1>6, <1>7, <3>1
    <3>3. ~(s < input.start + S(c))
      BY <3>1, <3>2
    <3>4. S(c) \in Nat
      BY <1>1, <1>4, <1>7
    <3>5. QED BY <1>2, <1>5, <3>3, <3>4
  <2>3. QED BY <1>1, <1>7, <2>1, <2>2
<1>9. ASSUME NEW b \in 0 .. K - 1
      PROVE  s \in input.start + S(b) .. input.start + S(b + 1) - 1 <=> b = c
  <2>1. /\ b \in 0 .. K /\ c \in 0 .. K /\ b + 1 \in 0 .. K /\ c + 1 \in 0 .. K
        /\ b \in Int /\ c \in Int
    BY <1>1, <1>7
  <2>2. S(b) \in Nat /\ S(c) \in Nat /\ S(b + 1) \in Nat /\ S(c + 1) \in Nat
    BY <1>4, <2>1
  <2>3. b < c => S(b + 1) <= S(c)
    BY <1>4, <2>1
  <2>4. c < b => S(c + 1) <= S(b)
    BY <1>4, <2>1
  <2> DEFINE in == s \in input.start + S(b) .. input.start + S(b + 1) - 1
  <2>5. /\ input.start \in Int /\ s \in Int
        /\ input.start + S(c) <= s /\ s < input.start + S(c + 1)
    BY <1>2, <1>5, <1>7, <1>8
  <2>6. ASSUME b < c PROVE ~in
    <3>1. S(b + 1) <= S(c)
      BY <2>3, <2>6
    <3>2. ~(s <= input.start + S(b + 1) - 1)
      BY <2>2, <2>5, <3>1
    <3>3. QED BY <3>2
  <2>7. ASSUME c < b PROVE ~in
    <3>1. S(c + 1) <= S(b)
      BY <2>4, <2>7
    <3>2. ~(input.start + S(b) <= s)
      BY <2>2, <2>5, <3>1
    <3>3. QED BY <3>2
  <2>8. ASSUME b = c PROVE in
    <3>1. input.start + S(b) <= s /\ s <= input.start + S(b + 1) - 1
      BY <2>2, <2>5, <2>8
    <3>2. QED BY <2>2, <2>5, <3>1
  <2>9. b < c \/ c < b \/ b = c
    BY <2>1
  <2>10. QED BY <2>1, <2>6, <2>7, <2>8, <2>9
<1>10. QED BY <1>2, <1>3, <1>7, <1>9

\* The call is one of the calls considered, and stays it.
InputInv == input \in Inputs \union {Leg}

LEMMA InputInvariance == Spec => []InputInv
<1>1. Init => InputInv
  BY DEF Init, Cpu!Init, InputInv
<1>2. ASSUME InputInv, [Next]_vars PROVE InputInv'
  <2>1. UNCHANGED input
    <3>1. CASE GpuStep /\ Gpu!Next
      BY <3>1 DEF GpuStep, cpuVars
    <3>2. CASE TakeOver
      BY <3>2 DEF TakeOver, cpuVars
    <3>3. CASE CpuStep /\ Cpu!Next
      BY <3>3 DEF Cpu!Next, Cpu!Main, Cpu!Begin, Cpu!SearchAlone, Cpu!Spawn, Cpu!Join,
         Cpu!PrintFront, Cpu!PrintBack, Cpu!Return, Cpu!Worker, Cpu!Try, Cpu!NextChunk,
         Cpu!Done, Cpu!vars
    <3>4. CASE UNCHANGED vars
      BY <3>4 DEF vars, cpuVars
    <3>5. QED BY <1>2, <3>1, <3>2, <3>3, <3>4 DEF Next
  <2>2. QED BY <1>2, <2>1 DEF InputInv
<1>3. QED BY <1>1, <1>2, PTL DEF Spec

\* Of every call that has at least one sum for each of its chunks, every odd sum
\* is in exactly one chunk (cpu_search.cpp:428-431).  Narrower chunks overlap:
\* nothing in the code prevents them.
THEOREM ChunksCutTheRange ==
  ASSUME \A i \in Inputs \union {Leg} : i.limit - i.start + 1 >= 2 * i.threads
  PROVE  Spec => []ChunksTile
<1>1. \A i \in Inputs \union {Leg} : SharedOut(i)
  <2>1. \A i \in Inputs : SharedOut(i)
    BY InputsAssumption DEF SharedOut
  <2>2. SharedOut(Leg)
    <3>1. Leg.start = First /\ Leg.limit = Last /\ Leg.threads = Helpers
      BY DEF Leg
    <3>2. First \in Nat /\ Last \in Nat /\ Helpers \in Nat \ {0}
      BY LegAssumption DEF Last
    <3>3. Leg.limit - Leg.start + 1 >= 2 * Leg.threads
      OBVIOUS
    <3>4. QED BY <3>1, <3>2, <3>3 DEF SharedOut
  <2>3. QED BY <2>1, <2>2
<1>2. InputInv => ChunksTile
  BY <1>1, ChunksCut DEF InputInv
<1>3. QED BY InputInvariance, <1>2, PTL

-----------------------------------------------------------------------------
(* The grid *)

Exited == {t \in GridThreads : pc[t] = "exited"}
Writing == {t \in GridThreads : pc[t] = "write"}
Recorded == {i \in Gpu!Indices : record[i]}

GridTyped ==
  /\ gpuPhase \in {"zero", "reset", "launch", "running", "copy", "print", "done", "declined"}
  /\ work \in Nat /\ count \in Nat
  /\ pc \in [GridThreads -> {"off", "mark", "draw", "judge", "count", "write", "exited"}]
  /\ index \in [GridThreads -> Gpu!Indices]
  /\ drawn \in [Gpu!Indices -> SUBSET GridThreads]
  /\ record \in [Gpu!Indices -> BOOLEAN]

\* While the grid runs the counter is the number of indices drawn, and once there
\* is none left, of the threads that have found that out.  When all have, it may
\* have wrapped.
DrawInv ==
  /\ \A i \in Gpu!Indices : drawn[i] = {} \/ \E t \in GridThreads : drawn[i] = {t}
  /\ gpuPhase = "launch" => work = 0
  /\ gpuPhase = "running" /\ Exited # GridThreads =>
       /\ \A i \in Gpu!Indices : drawn[i] # {} <=> i < work
       /\ Cardinality(Exited) = IF work > NumOddSums THEN work - NumOddSums ELSE 0
  /\ \/ gpuPhase = "running" /\ Exited = GridThreads
     \/ gpuPhase \in {"copy", "print", "done"}
     => \A i \in Gpu!Indices : drawn[i] # {}

\* The count is ahead of the records by the threads between the two, and behind
\* by the leader's marker until it is added.
CountInv ==
  /\ gpuPhase \in {"reset", "launch"} => count = 0 /\ Recorded = {}
  /\ gpuPhase = "running" =>
       /\ \A t \in GridThreads : pc[t] # "off" /\ (pc[t] = "mark" => t = Leader)
       /\ \A t \in GridThreads : pc[t] \in {"judge", "count", "write"} =>
            drawn[index[t]] = {t} /\ ~record[index[t]]
       /\ \A i \in Gpu!Indices : record[i] => drawn[i] # {}
       /\ count = (IF pc[Leader] = "mark" THEN 0 ELSE Marker)
                    + Cardinality(Recorded) + Cardinality(Writing)
  /\ gpuPhase \in {"copy", "print", "done"} => count = Marker + Cardinality(Recorded)

GridInv ==
  /\ stage \in {"gpu", "cpu"} /\ GridTyped /\ DrawInv /\ CountInv
  /\ stage = "cpu" => gpuPhase = "declined"

LEMMA ModSmall ==
  ASSUME NEW x \in Nat, NEW d \in Nat, x < d
  PROVE  x % d = x
  OBVIOUS

\* The sets that are counted are finite.
LEMMA GridFinite ==
  ASSUME GridTyped
  PROVE  /\ IsFiniteSet(Gpu!Indices) /\ IsFiniteSet(GridThreads)
         /\ IsFiniteSet(Exited) /\ IsFiniteSet(Writing) /\ IsFiniteSet(Recorded)
         /\ Cardinality(Exited) \in Nat /\ Cardinality(Writing) \in Nat
         /\ Cardinality(Recorded) \in Nat /\ Cardinality(GridThreads) \in Nat
         /\ Gpu!Indices = 0 .. NumOddSums - 1 /\ NumOddSums \in Nat \ {0}
         /\ Leader \in GridThreads /\ Wrap \in Nat /\ Marker \in Nat
         /\ NumOddSums + Cardinality(GridThreads) <= Wrap
         /\ Exited # GridThreads => Cardinality(Exited) < Cardinality(GridThreads)
<1>1. Gpu!Indices = 0 .. NumOddSums - 1 /\ NumOddSums \in Nat \ {0}
  BY LegAssumption DEF Gpu!Indices
<1>2. IsFiniteSet(Gpu!Indices)
  <2>1. 0 \in Int /\ NumOddSums - 1 \in Int
    BY <1>1
  <2>2. QED BY <1>1, <2>1, FS_Interval
<1>3. IsFiniteSet(Exited) /\ IsFiniteSet(Writing)
  <2>1. Exited \in SUBSET GridThreads /\ Writing \in SUBSET GridThreads
    BY DEF Exited, Writing
  <2>2. QED BY <2>1, FS_Subset, GridAssumption
<1>4. IsFiniteSet(Recorded)
  <2>1. Recorded \in SUBSET Gpu!Indices
    BY DEF Recorded
  <2>2. QED BY <1>2, <2>1, FS_Subset
<1>5. /\ Cardinality(Exited) \in Nat /\ Cardinality(Writing) \in Nat
      /\ Cardinality(Recorded) \in Nat /\ Cardinality(GridThreads) \in Nat
  BY <1>3, <1>4, FS_CardinalityType, GridAssumption
<1>6. Exited # GridThreads => Cardinality(Exited) < Cardinality(GridThreads)
  <2>1. Exited \in SUBSET GridThreads
    BY DEF Exited
  <2>2. Cardinality(Exited) <= Cardinality(GridThreads)
    BY <2>1, FS_Subset, GridAssumption
  <2>3. Cardinality(GridThreads) = Cardinality(Exited) => GridThreads = Exited
    BY <2>1, FS_Subset, GridAssumption
  <2>4. QED BY <1>5, <2>2, <2>3
<1>7. Wrap \in Nat /\ Marker \in Nat /\ NumOddSums + Cardinality(GridThreads) <= Wrap
  BY <1>1, <1>5, CountersAssumption
<1>8. QED BY <1>1, <1>2, <1>3, <1>4, <1>5, <1>6, <1>7, GridAssumption

\* A thread draws the next index, which nobody has drawn, or finds none left.
LEMMA DrawStep ==
  ASSUME GridInv, gpuPhase = "running", UNCHANGED <<stage, gpuPhase>>,
         NEW t \in GridThreads, Gpu!Draw(t)
  PROVE  GridInv'
<1>1. /\ pc[t] = "draw" /\ Exited # GridThreads /\ GridTyped /\ DrawInv /\ CountInv
      /\ stage = "gpu"
  BY DEF GridInv, Gpu!Draw, Exited
<1>2. /\ \A i \in Gpu!Indices : drawn[i] # {} <=> i < work
      /\ Cardinality(Exited) = IF work > NumOddSums THEN work - NumOddSums ELSE 0
      /\ work \in Nat /\ UNCHANGED <<count, record>> /\ work' = (work + 1) % Wrap
  BY <1>1 DEF DrawInv, GridTyped, Gpu!Draw
<1>3. CASE work >= NumOddSums
  <2>1. pc' = [pc EXCEPT ![t] = "exited"] /\ UNCHANGED <<index, drawn>>
    BY <1>3 DEF Gpu!Draw, Gpu!Goto
  <2>2. /\ Exited' = Exited \union {t} /\ t \notin Exited
        /\ Writing' = Writing /\ Recorded' = Recorded
    BY <1>1, <1>2, <2>1 DEF Exited, Writing, Recorded, GridTyped
  <2>3. Cardinality(Exited') = work - NumOddSums + 1
    <3>1. Cardinality(Exited) = work - NumOddSums
      BY <1>2, <1>3, LegAssumption
    <3>2. Cardinality(Exited') = Cardinality(Exited) + 1
      BY <1>1, <2>2, GridFinite, FS_AddElement
    <3>3. QED BY <3>1, <3>2
  <2>4. work' \in Nat
    BY <1>2, GridFinite, <1>1
  <2>5. GridTyped'
    BY <1>1, <1>2, <2>1, <2>4 DEF GridTyped
  <2>6. Exited' # GridThreads => work' = work + 1
    <3> SUFFICES ASSUME Exited' # GridThreads PROVE work' = work + 1
      OBVIOUS
    <3>1. Exited' \in SUBSET GridThreads /\ IsFiniteSet(GridThreads)
      BY <1>1, GridFinite DEF Exited
    <3>2. Cardinality(Exited') < Cardinality(GridThreads)
      <4>1. Cardinality(Exited') <= Cardinality(GridThreads)
        BY <3>1, FS_Subset
      <4>2. Cardinality(Exited') # Cardinality(GridThreads)
        BY <3>1, FS_Subset
      <4>3. QED BY <1>1, <1>2, <2>3, <4>1, <4>2, GridFinite
    <3>3. work + 1 < Wrap
      BY <1>1, <1>2, <1>3, <2>3, <3>2, GridFinite
    <3>4. QED BY <1>1, <1>2, <3>3, GridFinite, ModSmall
  <2>7. \A i \in Gpu!Indices : drawn[i] # {} /\ i < work
    <3>1. \A i \in Gpu!Indices : i < work
      BY <1>2, <1>3, LegAssumption DEF Gpu!Indices
    <3>2. QED BY <1>2, <3>1
  <2>8. DrawInv'
    <3>1. work + 1 > NumOddSums /\ (work + 1) - NumOddSums = work - NumOddSums + 1
      BY <1>2, <1>3, LegAssumption
    <3>2. \A i \in Gpu!Indices : i < work + 1
      BY <1>2, <1>3, LegAssumption DEF Gpu!Indices
    <3>3. \A i \in Gpu!Indices : drawn'[i] # {}
      BY <2>1, <2>7
    <3>4. \A i \in Gpu!Indices : drawn'[i] = {} \/ \E s \in GridThreads : drawn'[i] = {s}
      BY <1>1, <2>1 DEF DrawInv
    <3>5. QED BY <1>1, <2>3, <2>6, <3>1, <3>2, <3>3, <3>4 DEF DrawInv
  <2>9. CountInv'
    <3>1. \A s \in GridThreads : s # t => pc'[s] = pc[s]
      BY <1>1, <2>1 DEF GridTyped
    <3>2. pc'[t] = "exited"
      BY <1>1, <2>1 DEF GridTyped
    <3>3. pc'[Leader] = "mark" <=> pc[Leader] = "mark"
      BY <1>1, <3>1, <3>2, GridFinite
    <3>4. QED BY <1>1, <1>2, <2>1, <2>2, <3>1, <3>2, <3>3 DEF CountInv
  <2>10. QED BY <1>1, <2>5, <2>8, <2>9 DEF GridInv
<1>4. CASE work < NumOddSums
  <2>1. /\ pc' = [pc EXCEPT ![t] = "judge"] /\ index' = [index EXCEPT ![t] = work]
        /\ drawn' = [drawn EXCEPT ![work] = @ \union {t}]
    BY <1>2, <1>4, LegAssumption DEF Gpu!Draw, Gpu!Goto
  <2>2. work \in Gpu!Indices /\ drawn[work] = {} /\ work' = work + 1
    <3>1. work \in Gpu!Indices
      BY <1>1, <1>2, <1>4, GridFinite
    <3>2. ~(work < work)
      BY <1>2
    <3>3. Cardinality(GridThreads) > 0
      <4>1. Cardinality(GridThreads) # 0
        BY <1>1, GridFinite, FS_EmptySet
      <4>2. QED BY <1>1, <4>1, GridFinite
    <3>4. work + 1 < Wrap
      BY <1>1, <1>2, <1>4, <3>3, GridFinite
    <3>5. QED BY <1>1, <1>2, <3>1, <3>2, <3>4, GridFinite, ModSmall
  <2>3. /\ Exited' = Exited /\ Writing' = Writing /\ Recorded' = Recorded
    BY <1>1, <1>2, <2>1 DEF Exited, Writing, Recorded, GridTyped
  <2>4. drawn'[work] = {t} /\ \A i \in Gpu!Indices : i # work => drawn'[i] = drawn[i]
    BY <1>1, <2>1, <2>2 DEF GridTyped
  <2>5. GridTyped'
    BY <1>1, <1>2, <2>1, <2>2 DEF GridTyped
  <2>6. DrawInv'
    <3>1. \A i \in Gpu!Indices : i < work + 1 <=> i < work \/ i = work
      BY <1>1, <1>2, GridFinite
    <3>2. work + 1 <= NumOddSums /\ Cardinality(Exited) = 0
      BY <1>1, <1>2, <1>4, GridFinite
    <3>3. ~(work + 1 > NumOddSums)
      BY <1>1, <1>2, <3>2, GridFinite
    <3>4. \A i \in Gpu!Indices : drawn'[i] # {} <=> i < work'
      BY <1>2, <2>2, <2>4, <3>1
    <3>5. \A i \in Gpu!Indices : drawn'[i] = {} \/ \E s \in GridThreads : drawn'[i] = {s}
      BY <1>1, <2>4 DEF DrawInv
    <3>6. QED BY <1>1, <2>2, <2>3, <3>2, <3>3, <3>4, <3>5 DEF DrawInv
  <2>7. CountInv'
    <3>1. \A s \in GridThreads : s # t => pc'[s] = pc[s] /\ index'[s] = index[s]
      BY <1>1, <2>1 DEF GridTyped
    <3>2. pc'[t] = "judge" /\ index'[t] = work
      BY <1>1, <2>1 DEF GridTyped
    <3>3. pc'[Leader] = "mark" <=> pc[Leader] = "mark"
      BY <1>1, <3>1, <3>2, GridFinite
    <3>4. ~record[work]
      BY <1>1, <2>2 DEF CountInv
    <3>5. \A s \in GridThreads : s # t /\ pc[s] \in {"judge", "count", "write"} =>
            index[s] \in Gpu!Indices /\ index[s] # work /\ drawn[index[s]] = {s} /\ ~record[index[s]]
      BY <1>1, <2>2 DEF CountInv, GridTyped
    <3>6. \A s \in GridThreads : pc'[s] \in {"judge", "count", "write"} =>
            drawn'[index'[s]] = {s} /\ ~record'[index'[s]]
      <4> TAKE s \in GridThreads
      <4>1. CASE s = t
        BY <1>2, <2>4, <3>2, <3>4, <4>1
      <4>2. CASE s # t
        BY <1>2, <2>4, <3>1, <3>5, <4>2
      <4>3. QED BY <4>1, <4>2
    <3>7. \A i \in Gpu!Indices : record[i] => drawn'[i] # {}
      BY <1>1, <2>4 DEF CountInv
    <3>8. \A s \in GridThreads : pc'[s] # "off" /\ (pc'[s] = "mark" => s = Leader)
      BY <1>1, <3>1, <3>2 DEF CountInv
    <3>9. QED BY <1>1, <1>2, <2>3, <3>3, <3>6, <3>7, <3>8 DEF CountInv
  <2>8. QED BY <1>1, <2>5, <2>6, <2>7 DEF GridInv
<1>5. QED BY <1>1, <1>2, <1>3, <1>4, GridFinite

\* What the steps of a thread that draw nothing leave alone.
LEMMA NoDraw ==
  ASSUME GridInv, gpuPhase = "running", UNCHANGED <<stage, gpuPhase, work, drawn, index>>,
         Exited' = Exited, GridTyped', CountInv'
  PROVE  GridInv'
<1>1. DrawInv'
  BY DEF GridInv, DrawInv
<1>2. QED BY <1>1 DEF GridInv

\* Between its draws a thread judges the sum it has drawn, counts the answer and
\* writes its record, the leader after it has added the marker.
LEMMA ThreadStep ==
  ASSUME GridInv, gpuPhase = "running", UNCHANGED <<stage, gpuPhase>>, NEW t \in GridThreads,
         Gpu!Mark(t) \/ Gpu!Judge(t) \/ Gpu!Count(t) \/ Gpu!Write(t)
  PROVE  GridInv'
<1>1. /\ GridTyped /\ DrawInv /\ CountInv /\ stage = "gpu"
      /\ pc[t] # "exited" /\ index[t] \in Gpu!Indices
      /\ UNCHANGED <<work, drawn, index>>
  BY DEF GridInv, GridTyped, Gpu!Mark, Gpu!Judge, Gpu!Count, Gpu!Write
<1>2. PICK p \in {"draw", "count", "write"} : pc' = [pc EXCEPT ![t] = p]
  BY DEF Gpu!Mark, Gpu!Judge, Gpu!Count, Gpu!Write, Gpu!Goto
<1>3. /\ pc' \in [GridThreads -> {"off", "mark", "draw", "judge", "count", "write", "exited"}]
      /\ pc'[t] = p /\ \A s \in GridThreads : s # t => pc'[s] = pc[s]
      /\ Exited' = Exited
  BY <1>1, <1>2 DEF GridTyped, Exited
<1>4. \A s \in GridThreads : pc'[s] # "off" /\ (pc'[s] = "mark" => s = Leader)
  BY <1>1, <1>3 DEF CountInv
<1>5. CASE Gpu!Mark(t)
  <2>1. /\ t = Leader /\ pc[Leader] = "mark" /\ pc'[t] = "draw" /\ p = "draw"
        /\ count' = count + Marker /\ UNCHANGED record
    BY <1>1, <1>2, <1>3, <1>5 DEF Gpu!Mark, Gpu!Goto, CountInv, GridTyped
  <2>2. Writing' = Writing /\ Recorded' = Recorded
    BY <1>3, <2>1 DEF Writing, Recorded
  <2>3. count' = Marker + Cardinality(Recorded) + Cardinality(Writing)
    BY <1>1, <2>1, GridFinite DEF CountInv
  <2>4. CountInv'
    BY <1>1, <1>3, <1>4, <2>1, <2>2, <2>3 DEF CountInv
  <2>5. count' \in Nat
    BY <1>1, <2>3, GridFinite
  <2>6. GridTyped'
    BY <1>1, <1>3, <2>1, <2>5 DEF GridTyped
  <2>7. QED BY <1>1, <1>3, <2>4, <2>6, NoDraw
<1>6. CASE Gpu!Judge(t)
  <2>1. pc[t] = "judge" /\ pc'[t] \in {"count", "draw"} /\ UNCHANGED <<count, record>>
    BY <1>1, <1>2, <1>3, <1>6 DEF Gpu!Judge, Gpu!Goto, GridTyped
  <2>2. Writing' = Writing /\ Recorded' = Recorded
    BY <1>3, <2>1 DEF Writing, Recorded
  <2>3. pc'[Leader] = "mark" <=> pc[Leader] = "mark"
    BY <1>1, <1>3, <2>1, GridFinite
  <2>4. \A s \in GridThreads : pc'[s] \in {"judge", "count", "write"} =>
          drawn'[index'[s]] = {s} /\ ~record'[index'[s]]
    BY <1>1, <1>3, <2>1 DEF CountInv
  <2>5. CountInv'
    BY <1>1, <1>3, <1>4, <2>1, <2>2, <2>3, <2>4 DEF CountInv
  <2>6. GridTyped'
    BY <1>1, <1>3, <2>1 DEF GridTyped
  <2>7. QED BY <1>1, <1>3, <2>5, <2>6, NoDraw
<1>7. CASE Gpu!Count(t)
  <2>1. pc[t] = "count" /\ pc'[t] = "write" /\ count' = count + 1 /\ UNCHANGED record
    BY <1>1, <1>2, <1>3, <1>7 DEF Gpu!Count, Gpu!Goto, GridTyped
  <2>2. Writing' = Writing \union {t} /\ t \notin Writing /\ Recorded' = Recorded
    BY <1>3, <2>1 DEF Writing, Recorded
  <2>3. Cardinality(Writing') = Cardinality(Writing) + 1
    BY <1>1, <2>2, GridFinite, FS_AddElement
  <2>4. pc'[Leader] = "mark" <=> pc[Leader] = "mark"
    BY <1>1, <1>3, <2>1, GridFinite
  <2>5. count' = (IF pc'[Leader] = "mark" THEN 0 ELSE Marker)
                   + Cardinality(Recorded') + Cardinality(Writing')
    <3> DEFINE m == IF pc[Leader] = "mark" THEN 0 ELSE Marker
    <3>1. count = m + Cardinality(Recorded) + Cardinality(Writing)
      BY <1>1 DEF CountInv
    <3>2. /\ m \in Nat /\ Cardinality(Recorded) \in Nat /\ Cardinality(Writing) \in Nat
          /\ (IF pc'[Leader] = "mark" THEN 0 ELSE Marker) = m
      BY <1>1, <2>4, GridFinite
    <3> HIDE DEF m
    <3>3. QED BY <2>1, <2>2, <2>3, <3>1, <3>2
  <2>6. \A s \in GridThreads : pc'[s] \in {"judge", "count", "write"} =>
          drawn'[index'[s]] = {s} /\ ~record'[index'[s]]
    BY <1>1, <1>3, <2>1 DEF CountInv
  <2>7. CountInv'
    BY <1>1, <1>4, <2>1, <2>5, <2>6 DEF CountInv
  <2>8. GridTyped'
    BY <1>1, <1>3, <2>1 DEF GridTyped
  <2>9. QED BY <1>1, <1>3, <2>7, <2>8, NoDraw
<1>8. CASE Gpu!Write(t)
  <2>1. /\ pc[t] = "write" /\ pc'[t] = "draw" /\ UNCHANGED count
        /\ record' = [record EXCEPT ![index[t]] = TRUE]
        /\ drawn[index[t]] = {t} /\ ~record[index[t]]
    BY <1>1, <1>2, <1>3, <1>8 DEF Gpu!Write, Gpu!Goto, GridTyped, CountInv
  <2>2. /\ Writing' = Writing \ {t} /\ t \in Writing
        /\ Recorded' = Recorded \union {index[t]} /\ index[t] \notin Recorded
    <3>1. Writing' = Writing \ {t} /\ t \in Writing
      BY <1>3, <2>1 DEF Writing
    <3>2. record'[index[t]] /\ \A i \in Gpu!Indices : i # index[t] => record'[i] = record[i]
      BY <1>1, <2>1 DEF GridTyped
    <3>3. Recorded' = Recorded \union {index[t]} /\ index[t] \notin Recorded
      BY <1>1, <2>1, <3>2 DEF Recorded
    <3>4. QED BY <3>1, <3>3
  <2>3. /\ Cardinality(Writing') = Cardinality(Writing) - 1
        /\ Cardinality(Recorded') = Cardinality(Recorded) + 1
    BY <1>1, <2>2, GridFinite, FS_AddElement, FS_RemoveElement
  <2>4. pc'[Leader] = "mark" <=> pc[Leader] = "mark"
    BY <1>1, <1>3, <2>1, GridFinite
  <2>5. count' = (IF pc'[Leader] = "mark" THEN 0 ELSE Marker)
                   + Cardinality(Recorded') + Cardinality(Writing')
    <3> DEFINE m == IF pc[Leader] = "mark" THEN 0 ELSE Marker
    <3>1. count = m + Cardinality(Recorded) + Cardinality(Writing)
      BY <1>1 DEF CountInv
    <3>2. /\ m \in Nat /\ Cardinality(Recorded) \in Nat /\ Cardinality(Writing) \in Nat
          /\ (IF pc'[Leader] = "mark" THEN 0 ELSE Marker) = m
      BY <1>1, <2>4, GridFinite
    <3> HIDE DEF m
    <3>3. QED BY <2>1, <2>3, <3>1, <3>2
  <2>6. \A s \in GridThreads : pc'[s] \in {"judge", "count", "write"} =>
          drawn'[index'[s]] = {s} /\ ~record'[index'[s]]
    <3> TAKE s \in GridThreads
    <3> HAVE pc'[s] \in {"judge", "count", "write"}
    <3>1. s # t /\ index[s] \in Gpu!Indices
      BY <1>1, <2>1 DEF GridTyped
    <3>2. drawn[index[s]] = {s} /\ ~record[index[s]]
      BY <1>1, <1>3, <3>1 DEF CountInv
    <3>3. index[s] # index[t]
      BY <2>1, <3>1, <3>2
    <3>4. QED BY <1>1, <2>1, <3>1, <3>2, <3>3 DEF GridTyped
  <2>7. \A i \in Gpu!Indices : record'[i] => drawn[i] # {}
    BY <1>1, <2>1 DEF CountInv, GridTyped
  <2>8. CountInv'
    BY <1>1, <1>4, <2>5, <2>6, <2>7 DEF CountInv
  <2>9. record' \in [Gpu!Indices -> BOOLEAN]
    BY <1>1, <2>1 DEF GridTyped
  <2>10. GridTyped'
    BY <1>1, <1>3, <2>1, <2>9 DEF GridTyped
  <2>11. QED BY <1>1, <1>3, <2>8, <2>10, NoDraw
<1>9. QED BY <1>5, <1>6, <1>7, <1>8

\* The host zeroes the buffers, resets the counter, launches, waits and copies.
LEMMA HostStep ==
  ASSUME GridInv, stage = "gpu", UNCHANGED stage, Gpu!Host
  PROVE  GridInv'
<1> USE DEF Gpu!threadVars, Gpu!hostVars
<1>1. GridTyped /\ DrawInv /\ CountInv /\ stage' = "gpu"
  BY DEF GridInv
<1>2. CASE Gpu!Zero
  <2>1. /\ record' = [i \in Gpu!Indices |-> FALSE] /\ count' = 0 /\ gpuPhase' = "reset"
        /\ gpuPhase = "zero" /\ UNCHANGED <<work, pc, index, drawn>>
    BY <1>2 DEF Gpu!Zero
  <2>2. Recorded' = {}
    BY <2>1 DEF Recorded
  <2>3. GridTyped'
    BY <1>1, <2>1 DEF GridTyped
  <2>4. DrawInv' /\ CountInv'
    BY <1>1, <2>1, <2>2 DEF DrawInv, CountInv
  <2>5. QED BY <1>1, <2>3, <2>4 DEF GridInv
<1>3. CASE Gpu!ResetCounter
  <2>1. /\ gpuPhase = "reset" /\ UNCHANGED <<count, record, pc, index, drawn>>
        /\ \/ gpuPhase' = "launch" /\ work' = 0
           \/ gpuPhase' = "declined" /\ work' = work
    BY <1>3 DEF Gpu!ResetCounter, Gpu!Fails
  <2>2. Recorded' = Recorded
    BY <2>1 DEF Recorded
  <2>3. GridTyped'
    BY <1>1, <2>1 DEF GridTyped
  <2>4. DrawInv' /\ CountInv'
    BY <1>1, <2>1, <2>2 DEF DrawInv, CountInv
  <2>5. QED BY <1>1, <2>3, <2>4 DEF GridInv
<1>4. CASE Gpu!Launch
  <2>1. CASE gpuPhase' = "declined"
    <3>1. UNCHANGED <<work, count, record, pc, index, drawn>>
      BY <1>4, <2>1 DEF Gpu!Launch, Gpu!Fails
    <3>2. GridTyped'
      BY <1>1, <2>1, <3>1 DEF GridTyped
    <3>3. DrawInv' /\ CountInv'
      BY <1>1, <2>1, <3>1 DEF DrawInv, CountInv
    <3>4. QED BY <1>1, <2>1, <3>2, <3>3 DEF GridInv
  <2>2. CASE gpuPhase' # "declined"
    <3>1. /\ gpuPhase = "launch" /\ gpuPhase' = "running"
          /\ pc' = [t \in GridThreads |-> IF t = Leader THEN "mark" ELSE "draw"]
          /\ drawn' = [i \in Gpu!Indices |-> {}]
          /\ UNCHANGED <<work, index, count, record>>
      BY <1>4, <2>2 DEF Gpu!Launch, Gpu!Fails
    <3>2. work = 0 /\ count = 0 /\ Recorded' = {}
      BY <1>1, <3>1 DEF DrawInv, CountInv, Recorded
    <3>3. Exited' = {} /\ Writing' = {} /\ Exited' # GridThreads
      BY <3>1, GridAssumption DEF Exited, Writing
    <3>4. GridTyped'
      BY <1>1, <3>1 DEF GridTyped
    <3>5. \A i \in Gpu!Indices : drawn'[i] = {} /\ ~(i < 0) /\ ~record'[i]
      BY <3>1, <3>2, LegAssumption DEF Gpu!Indices, Recorded
    <3>6. DrawInv'
      BY <1>1, <3>1, <3>2, <3>3, <3>5, FS_EmptySet, LegAssumption DEF DrawInv
    <3>7. pc'[Leader] = "mark" /\ Cardinality(Recorded') = 0 /\ Cardinality(Writing') = 0
      BY <3>1, <3>2, <3>3, FS_EmptySet, GridAssumption
    <3>8. CountInv'
      BY <3>1, <3>2, <3>5, <3>7 DEF CountInv
    <3>9. QED BY <1>1, <3>4, <3>6, <3>8 DEF GridInv
  <2>3. QED BY <2>1, <2>2
<1>5. CASE Gpu!Sync
  <2>1. /\ gpuPhase = "running" /\ gpuPhase' \in {"copy", "declined"}
        /\ UNCHANGED <<work, count, record, pc, index, drawn>>
        /\ gpuPhase' = "copy" => Exited = GridThreads
    BY <1>5 DEF Gpu!Sync, Exited
  <2>2. gpuPhase' = "copy" => Writing = {} /\ pc[Leader] # "mark"
    BY <2>1, GridAssumption DEF Writing, Exited
  <2>3. Recorded' = Recorded
    BY <2>1 DEF Recorded
  <2>4. gpuPhase' = "copy" => count = Marker + Cardinality(Recorded)
    <3> SUFFICES ASSUME gpuPhase' = "copy" PROVE count = Marker + Cardinality(Recorded)
      OBVIOUS
    <3>1. Cardinality(Writing) = 0
      BY <2>2, FS_EmptySet
    <3>2. count = Marker + Cardinality(Recorded) + Cardinality(Writing)
      BY <1>1, <2>1, <2>2 DEF CountInv
    <3>3. QED BY <1>1, <3>1, <3>2, GridFinite
  <2>5. GridTyped'
    BY <1>1, <2>1 DEF GridTyped
  <2>6. DrawInv' /\ CountInv'
    BY <1>1, <2>1, <2>3, <2>4 DEF DrawInv, CountInv
  <2>7. QED BY <1>1, <2>5, <2>6 DEF GridInv
<1>6. CASE Gpu!CopyBack \/ Gpu!PrintSlot
  <2>1. /\ gpuPhase \in {"copy", "print"} /\ gpuPhase' \in {"print", "done"}
        /\ UNCHANGED <<work, count, record, pc, index, drawn>>
    BY <1>6 DEF Gpu!CopyBack, Gpu!PrintSlot
  <2>2. Recorded' = Recorded
    BY <2>1 DEF Recorded
  <2>3. GridTyped'
    BY <1>1, <2>1 DEF GridTyped
  <2>4. DrawInv' /\ CountInv'
    BY <1>1, <2>1, <2>2 DEF DrawInv, CountInv
  <2>5. QED BY <1>1, <2>3, <2>4 DEF GridInv
<1>7. CASE Gpu!Again
  <2>1. /\ gpuPhase = "done" /\ gpuPhase' = "zero" /\ pc' = [t \in GridThreads |-> "off"]
        /\ UNCHANGED <<work, count, record, index, drawn>>
    BY <1>7 DEF Gpu!Again
  <2>2. GridTyped'
    BY <1>1, <2>1 DEF GridTyped
  <2>3. DrawInv' /\ CountInv'
    BY <1>1, <2>1 DEF DrawInv, CountInv
  <2>4. QED BY <1>1, <2>2, <2>3 DEF GridInv
<1>8. QED BY <1>2, <1>3, <1>4, <1>5, <1>6, <1>7 DEF Gpu!Host

LEMMA GridStep == GridInv /\ [Next]_vars => GridInv'
<1> SUFFICES ASSUME GridInv, [Next]_vars PROVE GridInv'
  OBVIOUS
<1>1. CASE GpuStep /\ Gpu!Next
  <2>1. stage = "gpu" /\ UNCHANGED stage
    BY <1>1 DEF GpuStep
  <2>2. CASE Gpu!Host
    BY <2>1, <2>2, HostStep
  <2>3. ASSUME NEW t \in GridThreads, Gpu!Thread(t) PROVE GridInv'
    BY <2>1, <2>3, DrawStep, ThreadStep DEF Gpu!Thread
  <2>4. CASE Gpu!Idle
    BY <2>1, <2>4 DEF Gpu!Idle, Gpu!vars, GridInv, GridTyped, DrawInv, CountInv, Exited,
                      Writing, Recorded
  <2>5. QED BY <1>1, <2>2, <2>3, <2>4 DEF Gpu!Next
<1>2. CASE TakeOver
  <2>1. /\ gpuPhase = "declined" /\ gpuPhase' = "declined" /\ stage' = "cpu"
        /\ work' = 0 /\ count' = 0 /\ pc' = Nobody /\ index' = NoIndex /\ drawn' = Undrawn
        /\ record' = NoRecords
    BY <1>2 DEF TakeOver
  <2>2. 0 \in Gpu!Indices /\ Gpu!Indices = 0 .. NumOddSums - 1
    BY LegAssumption DEF Gpu!Indices
  <2>3. GridTyped'
    BY <2>1, <2>2 DEF GridTyped, Nobody, NoIndex, Undrawn, NoRecords
  <2>4. DrawInv' /\ CountInv'
    BY <2>1, <2>2 DEF DrawInv, CountInv, Undrawn
  <2>5. QED BY <2>1, <2>3, <2>4 DEF GridInv
<1>3. CASE CpuStep \/ UNCHANGED vars
  <2>1. UNCHANGED <<stage, gpuPhase, work, count, pc, index, drawn, record>>
    BY <1>3 DEF CpuStep, vars, gpuVars
  <2>2. Exited' = Exited /\ Writing' = Writing /\ Recorded' = Recorded
    BY <2>1 DEF Exited, Writing, Recorded
  <2>3. QED BY <2>1, <2>2 DEF GridInv, GridTyped, DrawInv, CountInv
<1>4. QED BY <1>1, <1>2, <1>3 DEF Next

LEMMA InitGrid == Init => GridInv
<1> SUFFICES ASSUME Init PROVE GridInv
  OBVIOUS
<1>1. 0 \in Gpu!Indices /\ Gpu!Indices = 0 .. NumOddSums - 1
  BY LegAssumption DEF Gpu!Indices
<1>2. CASE stage = "gpu" /\ Gpu!Init
  <2>1. GridTyped
    BY <1>1, <1>2, CountersAssumption DEF Gpu!Init, GridTyped
  <2>2. DrawInv /\ CountInv
    BY <1>2 DEF Gpu!Init, DrawInv, CountInv
  <2>3. QED BY <1>2, <2>1, <2>2 DEF GridInv
<1>3. CASE stage = "cpu" /\ gpuPhase = "declined" /\ pc = Nobody
  <2>1. work = 0 /\ count = 0 /\ index = NoIndex /\ drawn = Undrawn /\ record = NoRecords
    BY <1>3 DEF Init
  <2>2. GridTyped
    BY <1>1, <1>3, <2>1 DEF GridTyped, Nobody, NoIndex, Undrawn, NoRecords
  <2>3. DrawInv /\ CountInv
    BY <1>1, <1>3, <2>1 DEF DrawInv, CountInv, Undrawn
  <2>4. QED BY <1>3, <2>2, <2>3 DEF GridInv
<1>4. QED BY <1>2, <1>3 DEF Init

LEMMA GridInvariance == Spec => []GridInv
  BY InitGrid, GridStep, PTL DEF Spec

\* The instance of the GPU search counts as this module does.
LEMMA SameCardinality ==
  ASSUME NEW S
  PROVE  Gpu!Cardinality(S) = Cardinality(S)
  BY Zenon DEF Gpu!Cardinality, Cardinality

\* No odd sum of a leg is drawn by two threads of the grid, and none is left out
\* by the time it has ended, however the threads are scheduled, in every launch
\* of a process; the counter is wide enough that it does not wrap before the
\* last thread has left (gpu_search_kernel.h:442-453).
THEOREM SumsDrawnOnce == Spec => []DrawnOnce
<1>1. ASSUME GridInv PROVE DrawnOnce
  <2>1. ASSUME NEW i \in Gpu!Indices
        PROVE  /\ drawn[i] = {} => Gpu!Cardinality(drawn[i]) = 0
               /\ drawn[i] # {} => Gpu!Cardinality(drawn[i]) = 1
    <3>1. drawn[i] = {} \/ \E t \in GridThreads : drawn[i] = {t}
      BY <1>1 DEF GridInv, DrawInv
    <3>2. QED BY <3>1, FS_EmptySet, FS_Singleton, SameCardinality
  <2>2. gpuPhase \in {"copy", "print", "done"} => \A i \in Gpu!Indices : drawn[i] # {}
    BY <1>1 DEF GridInv, DrawInv
  <2>3. QED BY <2>1, <2>2 DEF DrawnOnce, Gpu!DrawnOnce
<1>2. QED BY GridInvariance, <1>1, PTL

\* When a launch has ended the answer count reads the marker and one for each
\* slot that holds a record (gpu_search_kernel.h:468-470).
THEOREM CountIsRecords == Spec => []CountMatchesRecords
<1>1. GridInv => CountMatchesRecords
  BY SameCardinality DEF GridInv, CountInv, CountMatchesRecords, Gpu!CountMatchesRecords,
     Recorded
<1>2. QED BY GridInvariance, <1>1, PTL

-----------------------------------------------------------------------------
(* What has been printed *)

\* A call that RunIt does not cut, or cuts into chunks that are wide enough.
Divides(i) ==
  \/ i.threads <= 1
  \/ (i.limit - Cpu!Odd(i.start)) \div 2 + 1 <= 2
  \/ i.limit - i.start + 1 >= 2 * i.threads

\* The answers below a bound, and those of one chunk.
Upto(b) == {s \in Cpu!Solved : s < b}
ChunkSums(c) == {s \in Cpu!Solved : s \in Cpu!ChunkStart(c) .. Cpu!ChunkLimit(c)}

GpuSolved == {i \in Gpu!Indices : First + 2 * i \in Answered}

\* Where the solved sums that have been drawn are: in a record, or in the hands
\* of a thread; and what the host makes of the records.
RecordInv ==
  /\ gpuPhase = "running" =>
       /\ \A i \in Gpu!Indices : record[i] => i \in GpuSolved
       /\ \A t \in GridThreads : pc[t] \in {"count", "write"} => index[t] \in GpuSolved
       /\ \A i \in GpuSolved : drawn[i] # {} /\ ~record[i] =>
            \E t \in GridThreads : index[t] = i /\ pc[t] \in {"judge", "count", "write"}
  /\ gpuPhase = "copy" => Recorded = GpuSolved
  /\ gpuPhase \in {"print", "done"} =>
       /\ \A i \in Gpu!Indices : hRecord[i] <=> i \in GpuSolved
       /\ slot \in 0 .. NumOddSums /\ (gpuPhase = "done" => slot = NumOddSums)
       /\ Lists(gpuOut, {i \in GpuSolved : i < slot})
  /\ gpuPhase \notin {"print", "done"} => gpuOut = << >>

\* What thread t has found in the chunk it is on, and in the one before.
On(t, c) ==
  /\ sum[t] % 2 = 1 /\ sum[t] >= Cpu!ChunkStart(c)
  /\ Lists(buffer[c], {s \in ChunkSums(c) : s < sum[t]})

Found(t) ==
  LET front == Cpu!FrontChunk(t)  back == Cpu!BackChunk(t)
  IN \/ /\ chunk[t] = front /\ buffer[back] = << >>
        /\ IF t < spawned THEN On(t, front) ELSE buffer[front] = << >>
     \/ /\ t < spawned /\ chunk[t] = back
        /\ Lists(buffer[front], ChunkSums(front)) /\ On(t, back)
     \/ /\ t < spawned /\ chunk[t] = Cpu!NumChunks
        /\ Lists(buffer[front], ChunkSums(front)) /\ Lists(buffer[back], ChunkSums(back))

CpuTyped ==
  /\ spawned \in Nat
  /\ chunk \in [Cpu!Threads -> Nat] /\ sum \in [Cpu!Threads -> Nat]
  /\ buffer = [c \in Cpu!Chunks |-> buffer[c]]

\* No thread has a chunk left.
Ended == \A t \in Cpu!Threads : chunk[t] = Cpu!NumChunks

CpuInv ==
  /\ InputInv /\ CpuTyped
  /\ cpuPhase \in {"start", "alone", "spawn", "front", "back", "return", "done"}
  /\ cpuPhase = "start" =>
       /\ spawned = 0 /\ cpuOut = << >>
       /\ \A t \in Cpu!Threads : chunk[t] = Cpu!FrontChunk(t) /\ sum[t] = Cpu!Odd(input.start)
       /\ \A c \in Cpu!Chunks : buffer[c] = << >>
  /\ cpuPhase = "alone" =>
       /\ spawned = 0
       /\ sum[0] % 2 = 1 /\ sum[0] >= input.start /\ Lists(cpuOut, Upto(sum[0]))
  /\ cpuPhase = "spawn" =>
       SharedOut(input) /\ spawned <= input.threads /\ cpuOut = << >>
         /\ \A t \in Cpu!Threads : Found(t)
  /\ cpuPhase \in {"front", "back"} =>
       /\ SharedOut(input) /\ spawned < input.threads
       /\ \A c \in Cpu!Chunks : Lists(buffer[c], ChunkSums(c))
       /\ Lists(cpuOut, Upto(Cpu!ChunkStart(IF cpuPhase = "front" THEN Cpu!FrontChunk(spawned)
                                            ELSE Cpu!BackChunk(spawned))))
  /\ cpuPhase \in {"return", "done"} => Lists(cpuOut, Cpu!Solved)
  /\ cpuPhase \in {"front", "back", "return"} => Ended
  /\ cpuPhase = "done" => spawned = 0 \/ Ended

SearchInv ==
  /\ GridInv /\ CpuInv
  /\ stage = "gpu" => RecordInv /\ input = Leg /\ cpuPhase = "start"

\* The sums of a call are finitely many numbers.
LEMMA SumsOfACall ==
  ASSUME InputInv
  PROVE  /\ input.start \in Nat /\ input.limit \in Nat /\ input.threads \in Nat \ {0}
         /\ input.start <= input.limit
         /\ Cpu!Solved \in SUBSET Nat /\ IsFiniteSet(Cpu!Solved)
         /\ \A s \in Cpu!Solved : input.start <= s /\ s <= input.limit /\ s % 2 = 1
<1>1. /\ input.start \in Nat /\ input.limit \in Nat /\ input.threads \in Nat \ {0}
      /\ input.start <= input.limit
  <2>1. CASE input \in Inputs
    BY <2>1, InputsAssumption
  <2>2. CASE input = Leg
    BY <2>2, LegAssumption DEF Leg, Last
  <2>3. QED BY <2>1, <2>2 DEF InputInv
<1>2. \A s \in Cpu!Solved : s \in input.start .. input.limit /\ s % 2 = 1
  BY DEF Cpu!Solved, Cpu!OddSums
<1>3. Cpu!Solved \subseteq input.start .. input.limit
  BY <1>2
<1>4. IsFiniteSet(Cpu!Solved)
  <2>1. IsFiniteSet(input.start .. input.limit)
    <3>1. input.start \in Int /\ input.limit \in Int
      BY <1>1
    <3>2. QED BY <3>1, FS_Interval
  <2>2. QED BY <1>3, <2>1, FS_Subset
<1>5. QED BY <1>1, <1>2, <1>4

LEMMA SearchCardinality ==
  ASSUME NEW S
  PROVE  Search!Cardinality(S) = Cardinality(S)
  BY Zenon DEF Search!Cardinality, Cardinality

\* What the search promises to print is all the answers.
LEMMA AnswersInOrder ==
  ASSUME InputInv
  PROVE  Lists(Search!Answers, Cpu!Solved)
<1> DEFINE S == Cpu!Solved
           F(i) == CHOOSE s \in S : Search!Cardinality({r \in S : r < s}) = i - 1
           A == [i \in 1 .. Cardinality(S) |-> F(i)]
<1>1. Search!Answers = A
  BY SearchCardinality DEF Search!Answers
<1>2. S \in SUBSET Nat /\ IsFiniteSet(S)
  BY SumsOfACall
<1> HIDE DEF S
<1>3. ASSUME NEW i \in 1 .. Cardinality(S)
      PROVE  A[i] \in S /\ Cardinality(Below(S, A[i])) = i - 1
  <2>1. \E s \in S : Search!Cardinality({r \in S : r < s}) = i - 1
    BY <1>2, RankTaken, SearchCardinality DEF Below
  <2>2. F(i) \in S /\ Search!Cardinality({r \in S : r < F(i)}) = i - 1
    BY <2>1
  <2>3. QED BY <2>2, SearchCardinality DEF Below
<1>4. A = [i \in 1 .. Cardinality(S) |-> A[i]]
  OBVIOUS
<1> HIDE DEF A
<1>5. QED BY <1>1, <1>2, <1>3, <1>4, ListsByRank DEF S

LEMMA UptoLists ==
  ASSUME InputInv, NEW b \in Nat, NEW p, Lists(p, Upto(b))
  PROVE  /\ p \in Seq(Nat) /\ Len(p) \in Nat
         /\ Len(p) <= Len(Search!Answers) /\ p = SubSeq(Search!Answers, 1, Len(p))
<1>1. Upto(b) \subseteq Cpu!Solved /\ Cpu!Solved \in SUBSET Nat
  BY SumsOfACall DEF Upto
<1>2. \A s \in Upto(b) : \A t \in Cpu!Solved \ Upto(b) : s < t
  BY <1>1 DEF Upto
<1>3. p \in Seq(Nat) /\ Len(p) \in Nat
  BY DEF Lists
<1>4. Lists(Search!Answers, Cpu!Solved)
  BY AnswersInOrder
<1> DEFINE A == Search!Answers
           T == Cpu!Solved
           S == Upto(b)
<1>5. Lists(A, T) /\ Lists(p, S) /\ S \subseteq T /\ \A s \in S : \A t \in T \ S : s < t
  BY <1>1, <1>2, <1>4
<1> HIDE DEF A, T, S
<1>6. Len(p) <= Len(A) /\ p = SubSeq(A, 1, Len(p))
  BY <1>5, ListsPrefix
<1>7. QED BY <1>3, <1>6 DEF A

\* Printing the answers up to a higher bound is a step of the promised search.
LEMMA PrintsMore ==
  ASSUME InputInv, UNCHANGED input, NEW a \in Nat, NEW b \in Nat, a <= b,
         Lists(Printed, Upto(a)), Lists(Printed', Upto(b)),
         ~(stage = "cpu" /\ cpuPhase = "done"), ~(stage = "cpu" /\ cpuPhase = "done")',
         ~(stage = "gpu" /\ gpuPhase = "done" /\ left = 0),
         ~(stage = "gpu" /\ gpuPhase = "done" /\ left = 0)'
  PROVE  [Search!Next]_Search!vars
<1> DEFINE A == Search!Answers
<1>1. /\ Printed \in Seq(Nat) /\ Len(Printed) \in Nat /\ Len(Printed) <= Len(A)
      /\ Printed = SubSeq(A, 1, Len(Printed))
  BY UptoLists
<1>2. /\ Printed' \in Seq(Nat) /\ Len(Printed') \in Nat /\ Len(Printed') <= Len(A)
      /\ Printed' = SubSeq(A, 1, Len(Printed'))
  BY UptoLists
<1>3. Len(Printed) <= Len(Printed')
  <2>1. /\ Upto(a) \subseteq Upto(b) /\ Upto(a) \in SUBSET Nat /\ Upto(b) \in SUBSET Nat
        /\ \A s \in Upto(a) : \A t \in Upto(b) \ Upto(a) : s < t
    BY SumsOfACall DEF Upto
  <2>2. QED BY <2>1, ListsPrefix
<1>4. UNCHANGED Cpu!Solved
  BY DEF Cpu!Solved, Cpu!OddSums
<1>5. CASE Len(Printed') = Len(Printed)
  <2>1. Printed' = Printed
    BY <1>1, <1>2, <1>5
  <2>2. QED BY <1>4, <2>1 DEF Search!vars
<1>6. CASE Len(Printed') # Len(Printed)
  <2>1. Len(Printed') \in Len(Printed) + 1 .. Len(A)
    <3> DEFINE m == Len(Printed)
               n == Len(Printed')
               k == Len(A)
    <3>1. k \in Nat
      BY AnswersInOrder DEF Lists
    <3> HIDE DEF m, n, k, A
    <3>2. m \in Nat /\ n \in Nat /\ m <= n /\ n <= k /\ m # n
      BY <1>1, <1>2, <1>3, <1>6 DEF m, n, k
    <3>3. n \in m + 1 .. k
      BY <3>1, <3>2
    <3>4. QED BY <3>3 DEF m, n, k
  <2>2. Search!Emit
    BY <1>2, <1>4, <2>1 DEF Search!Emit
  <2>3. QED BY <2>2 DEF Search!Next
<1>7. QED BY <1>5, <1>6

\* The end of the search that has printed them all.
LEMMA PrintsLast ==
  ASSUME InputInv, UNCHANGED <<input, Printed>>, Lists(Printed, Cpu!Solved),
         ~(stage = "cpu" /\ cpuPhase = "done"),
         ~(stage = "gpu" /\ gpuPhase = "done" /\ left = 0),
         \/ (stage = "cpu" /\ cpuPhase = "done")'
         \/ (stage = "gpu" /\ gpuPhase = "done" /\ left = 0)'
  PROVE  Search!Next
<1>1. Printed = Search!Answers
  <2>1. Cpu!Solved \subseteq Cpu!Solved /\ Cpu!Solved \ Cpu!Solved = {}
    OBVIOUS
  <2>2. QED BY <2>1, AnswersInOrder, ListsPrefix
<1>2. UNCHANGED Cpu!Solved
  BY DEF Cpu!Solved, Cpu!OddSums
<1>3. QED BY <1>1, <1>2 DEF Search!Next, Search!Finish

\* What depends on the call alone stays what it is.
LEMMA SameCall ==
  ASSUME UNCHANGED input
  PROVE  /\ UNCHANGED <<Cpu!Threads, Cpu!NumChunks, Cpu!Chunks, Cpu!Solved>>
         /\ \A c : /\ UNCHANGED <<Cpu!ChunkStart(c), Cpu!ChunkLimit(c), ChunkSums(c)>>
                   /\ UNCHANGED <<Cpu!FrontChunk(c), Cpu!BackChunk(c), Upto(c)>>
<1>1. UNCHANGED <<Cpu!Threads, Cpu!NumChunks, Cpu!NumSum>>
  BY DEF Cpu!Threads, Cpu!NumChunks, Cpu!NumSum
<1>2. UNCHANGED <<Cpu!Chunks, Cpu!Solved>>
  BY <1>1 DEF Cpu!Chunks, Cpu!Solved, Cpu!OddSums
<1>3. \A c : UNCHANGED Cpu!ChunkStart(c)
  BY <1>1 DEF Cpu!ChunkStart
<1>4. \A c : UNCHANGED Cpu!LimitOffset(c)
  BY <1>1 DEF Cpu!LimitOffset, Cpu!Larger
<1>5. \A c : UNCHANGED Cpu!ChunkLimit(c)
  BY <1>3, <1>4 DEF Cpu!ChunkLimit, Cpu!Larger, Cpu!Smaller
<1>6. \A c : UNCHANGED ChunkSums(c)
  BY <1>2, <1>3, <1>5 DEF ChunkSums
<1>7. \A c : UNCHANGED <<Cpu!FrontChunk(c), Cpu!BackChunk(c), Upto(c)>>
  BY <1>1, <1>2 DEF Cpu!FrontChunk, Cpu!BackChunk, Upto
<1>8. QED BY <1>1, <1>2, <1>3, <1>5, <1>6, <1>7

LEMMA CpuKept ==
  ASSUME CpuInv, UNCHANGED cpuVars
  PROVE  CpuInv'
<1>1. UNCHANGED <<input, cpuPhase, spawned, chunk, sum, buffer, cpuOut>>
  BY DEF cpuVars
<1>2. InputInv' /\ CpuTyped'
  BY <1>1, SameCall DEF CpuInv, InputInv, CpuTyped
<1>3. ASSUME NEW t, Found(t) PROVE Found(t)'
  BY <1>1, <1>3, SameCall DEF Found, On
<1>4. UNCHANGED <<SharedOut(input), Ended>>
  BY <1>1, SameCall DEF SharedOut, Ended
<1>5. cpuPhase' \in {"front", "back"} =>
         Lists(cpuOut', Upto(Cpu!ChunkStart(IF cpuPhase = "front" THEN Cpu!FrontChunk(spawned)
                                            ELSE Cpu!BackChunk(spawned)))')
  <2> DEFINE f == Cpu!FrontChunk(spawned)
             b == Cpu!BackChunk(spawned)
  <2>1. UNCHANGED <<f, b>>
    BY <1>1, SameCall DEF Cpu!FrontChunk, Cpu!BackChunk
  <2>2. CASE cpuPhase = "front"
    <3>1. Lists(cpuOut, Upto(Cpu!ChunkStart(f)))
      BY <2>2 DEF CpuInv
    <3>2. UNCHANGED Upto(Cpu!ChunkStart(f))
      <4>1. Cpu!ChunkStart(f)' = Cpu!ChunkStart(f)
        BY <1>1, <2>1, SameCall DEF Cpu!ChunkStart, Cpu!NumSum, Cpu!NumChunks
      <4>2. QED BY <1>1, <4>1, SameCall DEF Upto
    <3>3. QED BY <1>1, <2>2, <3>1, <3>2
  <2>3. CASE cpuPhase = "back"
    <3>1. Lists(cpuOut, Upto(Cpu!ChunkStart(b)))
      BY <2>3 DEF CpuInv
    <3>2. UNCHANGED Upto(Cpu!ChunkStart(b))
      <4>1. Cpu!ChunkStart(b)' = Cpu!ChunkStart(b)
        BY <1>1, <2>1, SameCall DEF Cpu!ChunkStart, Cpu!NumSum, Cpu!NumChunks
      <4>2. QED BY <1>1, <4>1, SameCall DEF Upto
    <3>3. QED BY <1>1, <2>3, <3>1, <3>2
  <2>4. QED BY <1>1, <2>2, <2>3
<1>6. QED
  BY <1>1, <1>2, <1>3, <1>4, <1>5, SameCall DEF CpuInv, Cpu!Odd, Upto

\* The first k indices of the leg stand for the sums below First + 2 k.
LEMMA IndicesAreSums ==
  ASSUME input = Leg, NEW k \in 0 .. NumOddSums
  PROVE  /\ OddFrom(First, {i \in GpuSolved : i < k}) = Upto(First + 2 * k)
         /\ k = NumOddSums => Upto(First + 2 * k) = Cpu!Solved
<1>1. /\ First \in Nat /\ First % 2 = 1 /\ NumOddSums \in Nat \ {0} /\ k \in Nat
      /\ k <= NumOddSums
      /\ input.start = First /\ input.limit = First + 2 * (NumOddSums - 1)
  BY LegAssumption DEF Leg, Last
<1>2. Gpu!Indices = 0 .. NumOddSums - 1
  BY DEF Gpu!Indices
<1>3. Cpu!Solved = {s \in First .. First + 2 * (NumOddSums - 1) : s % 2 = 1} \intersect Answered
  BY <1>1 DEF Cpu!Solved, Cpu!OddSums
<1>4. ASSUME NEW i \in GpuSolved, i < k PROVE First + 2 * i \in Upto(First + 2 * k)
  <2>1. i \in 0 .. NumOddSums - 1 /\ First + 2 * i \in Answered
    BY <1>2 DEF GpuSolved
  <2>2. /\ First + 2 * i \in First .. First + 2 * (NumOddSums - 1)
        /\ First + 2 * i < First + 2 * k
    BY <1>1, <1>4, <2>1
  <2>3. (First + 2 * i) % 2 = 1
    BY <1>1, <2>1
  <2>4. QED BY <1>3, <2>1, <2>2, <2>3 DEF Upto
<1>5. ASSUME NEW s \in Cpu!Solved
      PROVE  \E i \in GpuSolved : s = First + 2 * i
  <2>1. /\ s \in Int /\ First <= s /\ s <= First + 2 * (NumOddSums - 1) /\ s % 2 = 1
        /\ s \in Answered
    BY <1>1, <1>3
  <2> DEFINE i == (s - First) \div 2
  <2>2. s = First + 2 * i /\ i \in Int
    BY <1>1, <2>1
  <2> HIDE DEF i
  <2>3. i \in 0 .. NumOddSums - 1
    BY <1>1, <2>1, <2>2
  <2>4. i \in GpuSolved
    BY <1>2, <2>1, <2>2, <2>3 DEF GpuSolved
  <2>5. QED BY <2>2, <2>4
<1>6. ASSUME NEW s \in Upto(First + 2 * k)
      PROVE  s \in OddFrom(First, {i \in GpuSolved : i < k})
  <2>1. PICK i \in GpuSolved : s = First + 2 * i
    BY <1>5 DEF Upto
  <2>2. i \in Int
    BY <1>1, <1>2 DEF GpuSolved
  <2>3. i < k
    BY <1>1, <2>1, <2>2 DEF Upto
  <2>4. QED BY <2>1, <2>3 DEF OddFrom
<1>7. OddFrom(First, {i \in GpuSolved : i < k}) \subseteq Upto(First + 2 * k)
  BY <1>4 DEF OddFrom
<1>8. ASSUME k = NumOddSums, NEW s \in Cpu!Solved PROVE s < First + 2 * k
  <2>1. s \in Int /\ s <= First + 2 * (NumOddSums - 1)
    BY <1>1, <1>3
  <2>2. QED BY <1>1, <1>8, <2>1
<1>9. QED BY <1>6, <1>7, <1>8 DEF Upto

\* What the GPU has printed when k slots have been gone through.
LEMMA SlotsPrinted ==
  ASSUME stage = "gpu", input = Leg, ~(left > 0), NEW k \in 0 .. NumOddSums,
         Lists(gpuOut, {i \in GpuSolved : i < k})
  PROVE  Lists(Printed, Upto(First + 2 * k))
<1>1. Printed = [i \in DOMAIN gpuOut |-> First + 2 * gpuOut[i]]
  BY DEF Printed
<1>2. First \in Nat
  BY LegAssumption
<1>3. Lists(Printed, OddFrom(First, {i \in GpuSolved : i < k}))
  BY <1>1, <1>2, ListsOdd
<1>4. QED BY <1>3, IndicesAreSums

\* Nothing is printed while there is nothing in the output or launches to come.
LEMMA NothingPrinted ==
  ASSUME stage = "gpu", gpuOut = << >> \/ left > 0
  PROVE  Printed = << >>
<1>1. CASE left > 0
  BY <1>1 DEF Printed
<1>2. CASE gpuOut = << >>
  <2>1. [i \in DOMAIN gpuOut |-> First + 2 * gpuOut[i]] = << >>
    BY <1>2
  <2>2. QED BY <2>1 DEF Printed
<1>3. QED BY <1>1, <1>2

LEMMA NothingPrintedNext ==
  ASSUME stage' = "gpu", gpuOut' = << >> \/ left' > 0
  PROVE  Printed' = << >>
<1>1. CASE left' > 0
  BY <1>1 DEF Printed
<1>2. CASE gpuOut' = << >>
  <2>1. [i \in DOMAIN gpuOut' |-> First + 2 * gpuOut'[i]] = << >>
    BY <1>2
  <2>2. QED BY <2>1 DEF Printed
<1>3. QED BY <1>1, <1>2

LEMMA ThreadRecords ==
  ASSUME GridInv, RecordInv, stage = "gpu", gpuPhase = "running",
         UNCHANGED <<gpuPhase, gpuOut>>,
         NEW t \in GridThreads,
         Gpu!Mark(t) \/ Gpu!Draw(t) \/ Gpu!Judge(t) \/ Gpu!Count(t) \/ Gpu!Write(t)
  PROVE  RecordInv'
<1>1. /\ pc \in [GridThreads -> {"off", "mark", "draw", "judge", "count", "write", "exited"}]
      /\ index \in [GridThreads -> Gpu!Indices]
      /\ drawn \in [Gpu!Indices -> SUBSET GridThreads]
      /\ record \in [Gpu!Indices -> BOOLEAN]
  BY DEF GridInv, GridTyped
<1>2. /\ \A i \in Gpu!Indices : record[i] => i \in GpuSolved
      /\ \A s \in GridThreads : pc[s] \in {"count", "write"} => index[s] \in GpuSolved
      /\ \A i \in GpuSolved : drawn[i] # {} /\ ~record[i] =>
           \E s \in GridThreads : index[s] = i /\ pc[s] \in {"judge", "count", "write"}
      /\ gpuOut = << >>
  BY DEF RecordInv
<1>3. GpuSolved \subseteq Gpu!Indices
  BY DEF GpuSolved
<1>4. SUFFICES /\ \A i \in Gpu!Indices : record'[i] => i \in GpuSolved
               /\ \A s \in GridThreads : pc'[s] \in {"count", "write"} => index'[s] \in GpuSolved
               /\ \A i \in GpuSolved : drawn'[i] # {} /\ ~record'[i] =>
                    \E s \in GridThreads : index'[s] = i /\ pc'[s] \in {"judge", "count", "write"}
  BY <1>2 DEF RecordInv
<1>5. CASE Gpu!Draw(t) /\ work >= NumOddSums
  BY <1>1, <1>2, <1>5 DEF Gpu!Draw, Gpu!Goto
<1>6. CASE Gpu!Draw(t) /\ ~(work >= NumOddSums)
  <2>1. /\ pc[t] = "draw" /\ pc' = [pc EXCEPT ![t] = "judge"]
        /\ index' = [index EXCEPT ![t] = work]
        /\ drawn' = [drawn EXCEPT ![work] = @ \union {t}] /\ UNCHANGED record
    BY <1>6 DEF Gpu!Draw, Gpu!Goto
  <2>2. \A s \in GridThreads : s # t => pc'[s] = pc[s] /\ index'[s] = index[s]
    BY <1>1, <2>1
  <2>3. pc'[t] = "judge" /\ index'[t] = work
    BY <1>1, <2>1
  <2>4. \A i \in Gpu!Indices : i # work => drawn'[i] = drawn[i]
    BY <1>1, <2>1
  <2>5. ASSUME NEW i \in GpuSolved, drawn'[i] # {}, ~record'[i]
        PROVE  \E s \in GridThreads : index'[s] = i /\ pc'[s] \in {"judge", "count", "write"}
    <3>1. CASE i = work
      BY <2>3, <3>1
    <3>2. CASE i # work
      <4>1. PICK s \in GridThreads : index[s] = i /\ pc[s] \in {"judge", "count", "write"}
        BY <1>2, <1>3, <2>1, <2>4, <2>5, <3>2
      <4>2. s # t
        BY <2>1, <4>1
      <4>3. QED BY <2>2, <4>1, <4>2
    <3>3. QED BY <3>1, <3>2
  <2>6. QED BY <1>2, <2>1, <2>2, <2>3, <2>5
<1>7. CASE Gpu!Mark(t)
  <2>1. /\ pc[t] = "mark" /\ pc' = [pc EXCEPT ![t] = "draw"] /\ UNCHANGED <<index, drawn, record>>
    BY <1>7 DEF Gpu!Mark, Gpu!Goto
  <2>2. \A s \in GridThreads : pc[s] \in {"judge", "count", "write"} => pc'[s] = pc[s]
    BY <1>1, <2>1
  <2>3. \A s \in GridThreads : pc'[s] \in {"count", "write"} => pc[s] = pc'[s]
    BY <1>1, <2>1
  <2>4. QED BY <1>2, <2>1, <2>2, <2>3
<1>8. CASE Gpu!Judge(t)
  <2>1. /\ pc[t] = "judge" /\ UNCHANGED <<index, drawn, record>>
        /\ pc' = [pc EXCEPT ![t] = IF index[t] \in GpuSolved THEN "count" ELSE "draw"]
    BY <1>8 DEF Gpu!Judge, Gpu!Goto, GpuSolved, Gpu!Indices
  <2>2. \A s \in GridThreads : s # t => pc'[s] = pc[s]
    BY <1>1, <2>1
  <2>3. pc'[t] = IF index[t] \in GpuSolved THEN "count" ELSE "draw"
    BY <1>1, <2>1
  <2>4. \A s \in GridThreads : pc'[s] \in {"count", "write"} => index[s] \in GpuSolved
    BY <1>2, <2>2, <2>3
  <2>5. ASSUME NEW i \in GpuSolved, drawn[i] # {}, ~record[i]
        PROVE  \E s \in GridThreads : index[s] = i /\ pc'[s] \in {"judge", "count", "write"}
    <3>1. PICK s \in GridThreads : index[s] = i /\ pc[s] \in {"judge", "count", "write"}
      BY <1>2, <2>5
    <3>2. pc'[s] \in {"judge", "count", "write"}
      BY <2>2, <2>3, <3>1
    <3>3. QED BY <3>1, <3>2
  <2>6. QED BY <1>2, <2>1, <2>4, <2>5
<1>9. CASE Gpu!Count(t)
  <2>1. /\ pc[t] = "count" /\ UNCHANGED <<index, drawn, record>>
        /\ pc' = [pc EXCEPT ![t] = "write"]
    BY <1>9 DEF Gpu!Count, Gpu!Goto
  <2>2. /\ \A s \in GridThreads : s # t => pc'[s] = pc[s]
        /\ pc'[t] = "write"
    BY <1>1, <2>1
  <2>3. QED BY <1>2, <2>1, <2>2
<1>10. CASE Gpu!Write(t)
  <2>1. /\ pc[t] = "write" /\ UNCHANGED <<index, drawn>>
        /\ pc' = [pc EXCEPT ![t] = "draw"] /\ record' = [record EXCEPT ![index[t]] = TRUE]
    BY <1>10 DEF Gpu!Write, Gpu!Goto
  <2>2. /\ \A s \in GridThreads : s # t => pc'[s] = pc[s]
        /\ pc'[t] = "draw" /\ index[t] \in GpuSolved /\ record'[index[t]] = TRUE
        /\ \A i \in Gpu!Indices : i # index[t] => record'[i] = record[i]
    BY <1>1, <1>2, <2>1
  <2>3. ASSUME NEW i \in GpuSolved, drawn[i] # {}, ~record'[i]
        PROVE  \E s \in GridThreads : index[s] = i /\ pc'[s] \in {"judge", "count", "write"}
    <3>1. i # index[t] /\ ~record[i]
      BY <1>3, <2>2, <2>3
    <3>2. PICK s \in GridThreads : index[s] = i /\ pc[s] \in {"judge", "count", "write"}
      BY <1>2, <2>3, <3>1
    <3>3. s # t
      BY <3>1, <3>2
    <3>4. QED BY <2>2, <3>2, <3>3
  <2>4. QED BY <1>2, <2>1, <2>2, <2>3
<1>11. QED BY <1>5, <1>6, <1>7, <1>8, <1>9, <1>10

\* A step that prints nothing and ends nothing.
LEMMA Silent ==
  ASSUME UNCHANGED <<input, Printed>>,
         ~(stage = "cpu" /\ cpuPhase = "done"), ~(stage = "cpu" /\ cpuPhase = "done")',
         ~(stage = "gpu" /\ gpuPhase = "done" /\ left = 0),
         ~(stage = "gpu" /\ gpuPhase = "done" /\ left = 0)'
  PROVE  [Search!Next]_Search!vars
<1>1. UNCHANGED Cpu!Solved
  BY SameCall
<1>2. QED BY <1>1 DEF Search!vars

\* The host on the way to the records: nothing is printed.
LEMMA HostRecords ==
  ASSUME GridInv, GridInv', RecordInv, input = Leg, UNCHANGED cpuVars, stage = "gpu", stage' = "gpu",
         \/ Gpu!Zero \/ Gpu!ResetCounter \/ Gpu!Launch \/ Gpu!Sync \/ Gpu!CopyBack \/ Gpu!Again
  PROVE  RecordInv' /\ [Search!Next]_Search!vars
<1> USE DEF Gpu!threadVars, Gpu!hostVars
<1>1. UNCHANGED input
  BY DEF cpuVars
<1>2. CASE Gpu!Zero \/ Gpu!ResetCounter \/ Gpu!Launch
  <2>1. /\ gpuPhase \in {"zero", "reset", "launch"} /\ UNCHANGED gpuOut
        /\ gpuPhase' \in {"reset", "launch", "running", "declined"}
    BY <1>2 DEF Gpu!Zero, Gpu!ResetCounter, Gpu!Launch, Gpu!Fails
  <2>2. gpuOut = << >>
    BY <2>1 DEF RecordInv
  <2>3. gpuPhase' = "running" =>
          /\ \A i \in Gpu!Indices : ~record'[i] /\ drawn'[i] = {}
          /\ \A t \in GridThreads : pc'[t] \in {"mark", "draw"}
    <3> SUFFICES ASSUME gpuPhase' = "running"
                 PROVE  /\ \A i \in Gpu!Indices : ~record'[i] /\ drawn'[i] = {}
                        /\ \A t \in GridThreads : pc'[t] \in {"mark", "draw"}
      OBVIOUS
    <3>1. /\ gpuPhase = "launch" /\ UNCHANGED record
          /\ drawn' = [i \in Gpu!Indices |-> {}]
          /\ pc' = [t \in GridThreads |-> IF t = Leader THEN "mark" ELSE "draw"]
      BY <1>2 DEF Gpu!Zero, Gpu!ResetCounter, Gpu!Launch, Gpu!Fails
    <3>2. Recorded = {}
      BY <3>1 DEF GridInv, CountInv
    <3>3. QED BY <3>1, <3>2 DEF Recorded
  <2>4. RecordInv'
    BY <2>1, <2>2, <2>3 DEF RecordInv, GpuSolved
  <2>5. Printed = << >> /\ Printed' = << >>
    BY <2>1, <2>2, NothingPrinted, NothingPrintedNext
  <2>6. QED BY <1>1, <2>1, <2>4, <2>5, Silent
<1>3. CASE Gpu!Sync
  <2>1. /\ gpuPhase = "running" /\ gpuPhase' \in {"copy", "declined"}
        /\ UNCHANGED <<gpuOut, record, pc, drawn>>
        /\ gpuPhase' = "copy" => \A t \in GridThreads : pc[t] = "exited"
    BY <1>3 DEF Gpu!Sync
  <2>2. gpuOut = << >>
    BY <2>1 DEF RecordInv
  <2>3. gpuPhase' = "copy" => Recorded' = GpuSolved
    <3> SUFFICES ASSUME gpuPhase' = "copy" PROVE Recorded' = GpuSolved
      OBVIOUS
    <3>1. \A i \in Gpu!Indices : drawn[i] # {}
      BY <2>1 DEF GridInv, DrawInv
    <3>2. \A i \in Gpu!Indices : record[i] => i \in GpuSolved
      BY <2>1 DEF RecordInv
    <3>3. \A i \in GpuSolved : i \in Gpu!Indices /\ record[i]
      BY <2>1, <3>1 DEF RecordInv, GpuSolved
    <3>4. QED BY <2>1, <3>2, <3>3 DEF Recorded
  <2>4. RecordInv'
    BY <2>1, <2>2, <2>3 DEF RecordInv, GpuSolved
  <2>5. Printed = << >> /\ Printed' = << >>
    BY <2>1, <2>2, NothingPrinted, NothingPrintedNext
  <2>6. QED BY <1>1, <2>1, <2>4, <2>5, Silent
<1>4. CASE Gpu!CopyBack
  <2>1. /\ gpuPhase = "copy" /\ gpuPhase' = "print" /\ UNCHANGED gpuOut
        /\ hRecord' = record /\ slot' = 0
    BY <1>4 DEF Gpu!CopyBack
  <2>2. gpuOut = << >> /\ Recorded = GpuSolved
    BY <2>1 DEF RecordInv
  <2>3. {i \in GpuSolved : i < 0} = {}
    BY LegAssumption DEF GpuSolved, Gpu!Indices
  <2>4. \A i \in Gpu!Indices : hRecord'[i] <=> i \in GpuSolved
    BY <2>1, <2>2 DEF Recorded
  <2>5. Lists(gpuOut', {i \in GpuSolved : i < slot'})
    BY <2>1, <2>2, <2>3, ListsNone
  <2>6. RecordInv'
    BY <2>1, <2>4, <2>5, LegAssumption DEF RecordInv, GpuSolved
  <2>7. Printed = << >> /\ Printed' = << >>
    BY <2>1, <2>2, NothingPrinted, NothingPrintedNext
  <2>8. QED BY <1>1, <2>1, <2>6, <2>7, Silent
<1>5. CASE Gpu!Again
  <2>1. gpuPhase = "done" /\ left > 0 /\ gpuPhase' = "zero" /\ gpuOut' = << >> /\ left # 0
    BY <1>5 DEF Gpu!Again
  <2>2. RecordInv'
    BY <2>1 DEF RecordInv
  <2>3. Printed = << >> /\ Printed' = << >>
    BY <2>1, NothingPrinted, NothingPrintedNext
  <2>4. QED BY <1>1, <2>1, <2>2, <2>3, Silent
<1>6. QED BY <1>2, <1>3, <1>4, <1>5

\* The ascending scan of the slots.
LEMMA SlotStep ==
  ASSUME GridInv, InputInv, RecordInv, input = Leg, UNCHANGED cpuVars, stage = "gpu", stage' = "gpu",
         Gpu!PrintSlot
  PROVE  RecordInv' /\ [Search!Next]_Search!vars
<1>1. /\ gpuPhase = "print" /\ UNCHANGED <<input, hRecord, left>>
      /\ \A i \in Gpu!Indices : hRecord[i] <=> i \in GpuSolved
      /\ slot \in 0 .. NumOddSums /\ Lists(gpuOut, {i \in GpuSolved : i < slot})
  BY DEF cpuVars, Gpu!PrintSlot, RecordInv
<1>2. GpuSolved \subseteq 0 .. NumOddSums - 1 /\ NumOddSums \in Nat \ {0}
  BY LegAssumption DEF GpuSolved, Gpu!Indices
<1>3. CASE slot = NumOddSums
  <2>1. gpuPhase' = "done" /\ UNCHANGED <<slot, gpuOut>>
    BY <1>3 DEF Gpu!PrintSlot
  <2>2. RecordInv'
    BY <1>1, <1>3, <2>1 DEF RecordInv, GpuSolved
  <2>3. UNCHANGED Printed
    BY <1>1, <2>1 DEF Printed
  <2>4. CASE left = 0
    <3>1. Lists(Printed, Cpu!Solved)
      <4>1. Lists(Printed, Upto(First + 2 * slot))
        BY <1>1, <2>4, SlotsPrinted
      <4>2. QED BY <1>1, <1>3, <4>1, IndicesAreSums
    <3>2. (stage = "gpu" /\ gpuPhase = "done" /\ left = 0)'
      BY <1>1, <2>1, <2>4
    <3>3. QED BY <1>1, <2>2, <2>3, <3>1, <3>2, PrintsLast
  <2>5. CASE left # 0
    BY <1>1, <2>1, <2>2, <2>3, <2>5, Silent
  <2>6. QED BY <2>4, <2>5
<1>4. CASE slot # NumOddSums
  <2>1. /\ slot' = slot + 1 /\ UNCHANGED gpuPhase
        /\ gpuOut' = IF hRecord[slot] THEN Append(gpuOut, slot) ELSE gpuOut
    BY <1>4 DEF Gpu!PrintSlot
  <2>2. slot \in 0 .. NumOddSums - 1 /\ slot \in Nat /\ slot + 1 \in 0 .. NumOddSums
    BY <1>1, <1>2, <1>4
  <2>3. Lists(gpuOut', {i \in GpuSolved : i < slot + 1})
    <3> DEFINE S == {i \in GpuSolved : i < slot}
    <3>0. \A i \in GpuSolved : i < slot + 1 <=> i < slot \/ i = slot
      BY <1>2, <2>2
    <3>1. CASE slot \in GpuSolved
      <4>1. {i \in GpuSolved : i < slot + 1} = S \union {slot}
        BY <3>0, <3>1
      <4>2. gpuOut' = Append(gpuOut, slot)
        BY <1>1, <2>1, <2>2, <3>1 DEF Gpu!Indices
      <4>3. \A s \in S : s < slot
        OBVIOUS
      <4>4. Lists(gpuOut, S)
        BY <1>1
      <4> HIDE DEF S
      <4>5. QED BY <2>2, <4>1, <4>2, <4>3, <4>4, ListsAppend
    <3>2. CASE slot \notin GpuSolved
      <4>1. {i \in GpuSolved : i < slot + 1} = S
        BY <3>0, <3>2
      <4>2. gpuOut' = gpuOut
        BY <1>1, <2>1, <2>2, <3>2 DEF Gpu!Indices
      <4>3. QED BY <1>1, <4>1, <4>2
    <3>3. QED BY <3>1, <3>2
  <2>4. RecordInv'
    BY <1>1, <2>1, <2>2, <2>3 DEF RecordInv, GpuSolved
  <2>5. CASE left > 0
    <3>1. Printed = << >> /\ Printed' = << >>
      BY <1>1, <2>1, <2>5, NothingPrinted, NothingPrintedNext
    <3>2. QED BY <1>1, <2>1, <2>4, <3>1, Silent
  <2>6. CASE ~(left > 0)
    <3>1. Lists(Printed, Upto(First + 2 * slot))
      BY <1>1, <2>6, SlotsPrinted
    <3>2. Lists(Printed', Upto(First + 2 * (slot + 1)))
      <4>1. Lists(Printed', OddFrom(First, {i \in GpuSolved : i < slot + 1}))
        <5>1. Printed' = [i \in DOMAIN gpuOut' |-> First + 2 * gpuOut'[i]]
          BY <1>1, <2>6 DEF Printed
        <5>2. QED BY <2>3, <5>1, ListsOdd, LegAssumption
      <4>2. QED BY <2>2, <4>1, IndicesAreSums
    <3>3. First + 2 * slot \in Nat /\ First + 2 * (slot + 1) \in Nat
          /\ First + 2 * slot <= First + 2 * (slot + 1)
      BY <2>2, LegAssumption
    <3>4. QED BY <1>1, <2>1, <2>4, <3>1, <3>2, <3>3, PrintsMore
  <2>7. QED BY <2>5, <2>6
<1>5. QED BY <1>3, <1>4

-----------------------------------------------------------------------------
(* The CPU search *)

\* The chunks follow one another from the start of the call to its limit, one
\* from the front and one from the back for each thread.
LEMMA ChunkRow ==
  ASSUME SharedOut(input)
  PROVE  /\ input.threads \in Nat \ {0} /\ Cpu!NumChunks = 2 * input.threads
         /\ Cpu!Chunks = 0 .. Cpu!NumChunks - 1 /\ Cpu!Threads = 0 .. input.threads - 1
         /\ \A c \in Cpu!Chunks :
              /\ Cpu!ChunkStart(c) \in Nat /\ Cpu!ChunkLimit(c) \in Int
              /\ input.start <= Cpu!ChunkStart(c) /\ Cpu!ChunkLimit(c) <= input.limit
              /\ Cpu!ChunkStart(c) <= Cpu!ChunkLimit(c) + 1
              /\ c + 1 \in Cpu!Chunks => Cpu!ChunkStart(c + 1) = Cpu!ChunkLimit(c) + 1
         /\ Cpu!ChunkStart(0) = input.start
         /\ Cpu!ChunkLimit(Cpu!NumChunks - 1) = input.limit
<1> DEFINE N == Cpu!NumSum
           K == Cpu!NumChunks
           S(c) == Share(c, N, K)
<1>1. /\ N \in Nat /\ K \in Nat /\ 0 < K /\ K <= N
      /\ \A c \in Cpu!Chunks : /\ Cpu!ChunkStart(c) = input.start + S(c)
                               /\ Cpu!ChunkLimit(c) = input.start + S(c + 1) - 1
  BY ChunkBounds
<1>2. /\ input.threads \in Nat \ {0} /\ K = 2 * input.threads
      /\ Cpu!Chunks = 0 .. K - 1 /\ Cpu!Threads = 0 .. input.threads - 1
      /\ input.start \in Nat /\ input.limit = input.start + N - 1
  BY DEF SharedOut, Cpu!NumSum, Cpu!NumChunks, Cpu!Chunks, Cpu!Threads
<1> HIDE DEF N, K
<1>3. /\ S(0) = 0 /\ S(K) = N
      /\ \A c \in 0 .. K : S(c) \in Nat
      /\ \A c \in 0 .. K - 1 : S(c) < S(c + 1) /\ S(c + 1) <= N
  BY <1>1, SharesTile
<1> HIDE DEF S
<1>4. ASSUME NEW c \in 0 .. K - 1
      PROVE  /\ c \in 0 .. K /\ c + 1 \in 0 .. K /\ S(c) \in Nat /\ S(c + 1) \in Nat
             /\ S(c) < S(c + 1) /\ S(c + 1) <= N
  BY <1>1, <1>3
<1>5. ASSUME NEW c \in Cpu!Chunks
      PROVE  /\ Cpu!ChunkStart(c) \in Nat /\ Cpu!ChunkLimit(c) \in Int
             /\ input.start <= Cpu!ChunkStart(c) /\ Cpu!ChunkLimit(c) <= input.limit
             /\ Cpu!ChunkStart(c) <= Cpu!ChunkLimit(c) + 1
             /\ c + 1 \in Cpu!Chunks => Cpu!ChunkStart(c + 1) = Cpu!ChunkLimit(c) + 1
  <2>1. c \in 0 .. K - 1 /\ Cpu!ChunkStart(c) = input.start + S(c)
        /\ Cpu!ChunkLimit(c) = input.start + S(c + 1) - 1
    BY <1>1, <1>2
  <2>2. c + 1 \in Cpu!Chunks => Cpu!ChunkStart(c + 1) = input.start + S(c + 1)
    BY <1>1
  <2>3. S(c) \in Nat /\ S(c + 1) \in Nat /\ S(c) < S(c + 1) /\ S(c + 1) <= N
    BY <1>4, <2>1
  <2> DEFINE x == S(c)
             y == S(c + 1)
  <2>4. /\ x \in Nat /\ y \in Nat /\ x < y /\ y <= N
        /\ Cpu!ChunkStart(c) = input.start + x /\ Cpu!ChunkLimit(c) = input.start + y - 1
        /\ c + 1 \in Cpu!Chunks => Cpu!ChunkStart(c + 1) = input.start + y
    BY <2>1, <2>2, <2>3
  <2> DEFINE a == input.start
             b == input.limit
  <2> HIDE DEF x, y, a, b
  <2>5. a \in Nat /\ N \in Nat /\ b = a + N - 1
    BY <1>1, <1>2 DEF a, b
  <2>6. x \in Nat /\ y \in Nat /\ x < y /\ y <= N
    BY <2>4
  <2>7. /\ a + x \in Nat /\ a + y - 1 \in Int
        /\ a <= a + x /\ a + y - 1 <= b
        /\ a + x <= (a + y - 1) + 1 /\ a + y = (a + y - 1) + 1
    BY <2>5, <2>6
  <2>8. QED BY <2>4, <2>7 DEF a, b
<1>6. Cpu!ChunkStart(0) = input.start
  <2>1. 0 \in Cpu!Chunks
    BY <1>1, <1>2
  <2>2. QED BY <1>1, <1>2, <1>3, <2>1
<1>7. Cpu!ChunkLimit(K - 1) = input.limit
  <2>1. K - 1 \in Cpu!Chunks /\ (K - 1) + 1 = K
    BY <1>1, <1>2
  <2>2. QED BY <1>1, <1>2, <1>3, <2>1
<1>8. QED BY <1>2, <1>5, <1>6, <1>7 DEF K

\* Each chunk is the front one or the back one of one thread.
LEMMA FrontAndBack ==
  ASSUME SharedOut(input)
  PROVE  /\ \A t \in Cpu!Threads :
              /\ Cpu!FrontChunk(t) \in Cpu!Chunks /\ Cpu!BackChunk(t) \in Cpu!Chunks
              /\ Cpu!FrontChunk(t) < input.threads /\ input.threads <= Cpu!BackChunk(t)
              /\ \A s \in Cpu!Threads :
                   /\ Cpu!FrontChunk(s) # Cpu!BackChunk(t)
                   /\ Cpu!FrontChunk(s) = Cpu!FrontChunk(t) \/ Cpu!BackChunk(s) = Cpu!BackChunk(t)
                        => s = t
         /\ \A c \in Cpu!Chunks : \E t \in Cpu!Threads : c = Cpu!FrontChunk(t) \/ c = Cpu!BackChunk(t)
         /\ Cpu!NumChunks \notin Cpu!Chunks
<1> DEFINE T == input.threads
<1>1. /\ T \in Nat \ {0} /\ Cpu!NumChunks = 2 * T /\ Cpu!Chunks = 0 .. 2 * T - 1
      /\ Cpu!Threads = 0 .. T - 1
  BY ChunkRow
<1>2. \A t : Cpu!FrontChunk(t) = t /\ Cpu!BackChunk(t) = 2 * T - 1 - t
  BY <1>1 DEF Cpu!FrontChunk, Cpu!BackChunk
<1> HIDE DEF T
<1>3. \A c \in 0 .. 2 * T - 1 : \E t \in 0 .. T - 1 : c = t \/ c = 2 * T - 1 - t
  <2> TAKE c \in 0 .. 2 * T - 1
  <2>1. CASE c < T
    <3>1. c \in 0 .. T - 1
      BY <1>1, <2>1
    <3>2. QED BY <3>1
  <2>2. CASE ~(c < T)
    <3>1. 2 * T - 1 - c \in 0 .. T - 1 /\ c = 2 * T - 1 - (2 * T - 1 - c)
      BY <1>1, <2>2
    <3>2. QED BY <3>1
  <2>3. QED BY <2>1, <2>2
<1>4. \A t \in 0 .. T - 1 :
        /\ t \in 0 .. 2 * T - 1 /\ 2 * T - 1 - t \in 0 .. 2 * T - 1
        /\ t < T /\ T <= 2 * T - 1 - t
        /\ \A s \in 0 .. T - 1 :
             /\ s # 2 * T - 1 - t
             /\ s = t \/ 2 * T - 1 - s = 2 * T - 1 - t => s = t
  BY <1>1
<1>5. 2 * T \notin 0 .. 2 * T - 1
  BY <1>1
<1>6. \A t \in Cpu!Threads :
        /\ Cpu!FrontChunk(t) \in Cpu!Chunks /\ Cpu!BackChunk(t) \in Cpu!Chunks
        /\ Cpu!FrontChunk(t) < T /\ T <= Cpu!BackChunk(t)
        /\ \A s \in Cpu!Threads :
             /\ Cpu!FrontChunk(s) # Cpu!BackChunk(t)
             /\ Cpu!FrontChunk(s) = Cpu!FrontChunk(t) \/ Cpu!BackChunk(s) = Cpu!BackChunk(t)
                  => s = t
  BY <1>1, <1>2, <1>4
<1>7. \A c \in Cpu!Chunks : \E t \in Cpu!Threads : c = Cpu!FrontChunk(t) \/ c = Cpu!BackChunk(t)
  BY <1>1, <1>2, <1>3
<1>8. QED BY <1>1, <1>5, <1>6, <1>7 DEF T

\* The next sum extends what has been found below it.
LEMMA NextSum ==
  ASSUME NEW S \in SUBSET Nat, \A s \in S : s % 2 = 1, NEW q, NEW n \in Nat, n % 2 = 1,
         Lists(q, {s \in S : s < n})
  PROVE  /\ (n + 2) % 2 = 1
         /\ n \in S => Lists(Append(q, n), {s \in S : s < n + 2})
         /\ n \notin S => Lists(q, {s \in S : s < n + 2})
<1>1. (n + 2) % 2 = 1
  OBVIOUS
<1>2. ASSUME NEW s \in S PROVE s < n + 2 <=> s < n \/ s = n
  <2>1. s \in Nat /\ s % 2 = 1
    OBVIOUS
  <2>2. s # n + 1
    BY <2>1
  <2>3. QED BY <2>1, <2>2
<1>3. ASSUME n \in S PROVE Lists(Append(q, n), {s \in S : s < n + 2})
  <2> DEFINE D == {s \in S : s < n}
  <2>1. {s \in S : s < n + 2} = D \union {n}
    BY <1>2, <1>3
  <2>2. \A s \in D : s < n
    OBVIOUS
  <2> HIDE DEF D
  <2>3. QED BY <2>1, <2>2, ListsAppend DEF D
<1>4. ASSUME n \notin S PROVE Lists(q, {s \in S : s < n + 2})
  <2>1. {s \in S : s < n + 2} = {s \in S : s < n}
    BY <1>2, <1>4
  <2>2. QED BY <2>1
<1>5. QED BY <1>1, <1>3, <1>4

LEMMA OddBounds ==
  ASSUME NEW x \in Nat
  PROVE  /\ Cpu!Odd(x) \in Nat /\ Cpu!Odd(x) % 2 = 1 /\ x <= Cpu!Odd(x)
         /\ \A s \in Nat : s % 2 = 1 /\ x <= s => Cpu!Odd(x) <= s
<1>1. CASE x % 2 = 0
  BY <1>1 DEF Cpu!Odd
<1>2. CASE x % 2 # 0
  BY <1>2 DEF Cpu!Odd
<1>3. QED BY <1>1, <1>2

-----------------------------------------------------------------------------
(* The search phase as a whole *)

LEMMA GpuStageStep ==
  ASSUME SearchInv, GpuStep, Gpu!Next
  PROVE  SearchInv' /\ [Search!Next]_Search!vars
<1>1. /\ stage = "gpu" /\ stage' = "gpu" /\ UNCHANGED cpuVars /\ GridInv /\ CpuInv /\ RecordInv
      /\ input = Leg /\ cpuPhase = "start"
  BY DEF GpuStep, SearchInv
<1>2. GridInv'
  <2>1. Next
    BY DEF Next
  <2>2. QED BY <1>1, <2>1, GridStep
<1>3. CpuInv' /\ input' = Leg /\ cpuPhase' = "start" /\ InputInv
  <2>1. UNCHANGED <<input, cpuPhase>>
    BY <1>1 DEF cpuVars
  <2>2. Leg' = Leg
    BY DEF Leg, Last
  <2>3. QED BY <1>1, <2>1, <2>2, CpuKept DEF CpuInv
<1>4. RecordInv' /\ [Search!Next]_Search!vars
  <2>1. CASE Gpu!PrintSlot
    BY <1>1, <1>3, <2>1, SlotStep
  <2>2. CASE \/ Gpu!Zero \/ Gpu!ResetCounter \/ Gpu!Launch \/ Gpu!Sync \/ Gpu!CopyBack
             \/ Gpu!Again
    BY <1>1, <1>2, <2>2, HostRecords
  <2>3. CASE \E t \in GridThreads : Gpu!Thread(t)
    <3>1. PICK t \in GridThreads : Gpu!Thread(t)
      BY <2>3
    <3>2. gpuPhase = "running" /\ UNCHANGED <<gpuPhase, left, gpuOut>>
      BY <3>1 DEF Gpu!Thread, Gpu!hostVars
    <3>3. gpuOut = << >>
      BY <1>1, <3>2 DEF RecordInv
    <3>4. UNCHANGED <<input, Printed>>
      BY <1>1, <3>2, <3>3, NothingPrinted, NothingPrintedNext DEF cpuVars
    <3>5. [Search!Next]_Search!vars
      BY <1>1, <3>2, <3>4, Silent
    <3>6. RecordInv'
      BY <1>1, <3>1, <3>2, ThreadRecords DEF Gpu!Thread
    <3>7. QED BY <3>5, <3>6
  <2>4. CASE Gpu!Idle
    <3>1. UNCHANGED <<input, vars>>
      BY <1>1, <2>4 DEF Gpu!Idle, Gpu!vars, Gpu!threadVars, Gpu!hostVars, vars, gpuVars, cpuVars
    <3>2. RecordInv'
      BY <1>1, <3>1 DEF RecordInv, vars, gpuVars, GpuSolved, Recorded
    <3>3. UNCHANGED Search!vars
      BY <3>1, SameCall DEF Search!vars, Printed, vars, gpuVars, cpuVars
    <3>4. QED BY <3>2, <3>3
  <2>5. QED BY <2>1, <2>2, <2>3, <2>4 DEF Gpu!Next, Gpu!Host
<1>5. QED BY <1>1, <1>2, <1>3, <1>4 DEF SearchInv

\* The CPU starts from the beginning.
LEMMA TakeOverStep ==
  ASSUME SearchInv, TakeOver
  PROVE  SearchInv' /\ [Search!Next]_Search!vars
<1>1. /\ stage = "gpu" /\ stage' = "cpu" /\ UNCHANGED cpuVars /\ GridInv /\ CpuInv /\ RecordInv
      /\ cpuPhase = "start" /\ gpuPhase = "declined" /\ UNCHANGED <<input, cpuPhase, cpuOut>>
  BY DEF TakeOver, SearchInv, cpuVars
<1>2. GridInv' /\ CpuInv'
  BY <1>1, GridStep, CpuKept DEF Next
<1>3. Printed = << >> /\ Printed' = << >>
  <2>1. gpuOut = << >> /\ cpuOut = << >>
    BY <1>1 DEF RecordInv, CpuInv
  <2>2. Printed = << >>
    BY <1>1, <2>1, NothingPrinted
  <2>3. QED BY <1>1, <2>1, <2>2 DEF Printed
<1>4. QED BY <1>1, <1>2, <1>3, Silent DEF SearchInv

LEMMA CpuPrinted ==
  ASSUME stage = "cpu", stage' = "cpu"
  PROVE  Printed = cpuOut /\ Printed' = cpuOut'
BY DEF Printed

LEMMA BeginStep ==
  ASSUME CpuInv, Divides(input), stage = "cpu", stage' = "cpu", Cpu!Begin
  PROVE  CpuInv' /\ [Search!Next]_Search!vars
<1>1. /\ cpuPhase = "start" /\ UNCHANGED <<input, spawned, chunk, sum, buffer, cpuOut>>
      /\ cpuPhase' = IF Cpu!Odd(input.start) > input.limit THEN "done"
                     ELSE IF Cpu!Alone THEN "alone" ELSE "spawn"
  BY DEF Cpu!Begin
<1>2. /\ InputInv /\ CpuTyped /\ spawned = 0 /\ cpuOut = << >>
      /\ \A t \in Cpu!Threads : chunk[t] = Cpu!FrontChunk(t) /\ sum[t] = Cpu!Odd(input.start)
      /\ \A c \in Cpu!Chunks : buffer[c] = << >>
  BY <1>1 DEF CpuInv
<1>3. InputInv' /\ CpuTyped'
  BY <1>1, <1>2, SameCall DEF InputInv, CpuTyped
<1>4. /\ input.start \in Nat /\ input.limit \in Nat /\ input.threads \in Nat \ {0}
      /\ \A s \in Cpu!Solved : s \in Nat /\ input.start <= s /\ s <= input.limit /\ s % 2 = 1
  BY <1>2, SumsOfACall
<1> DEFINE o == Cpu!Odd(input.start)
<1>5. /\ o \in Nat /\ o % 2 = 1 /\ input.start <= o /\ \A s \in Cpu!Solved : o <= s
  BY <1>4, OddBounds
<1>6. Printed = cpuOut /\ Printed' = cpuOut'
  BY CpuPrinted
<1>7. CASE o > input.limit
  <2>1. Cpu!Solved = {}
    BY <1>4, <1>5, <1>7
  <2>2. Lists(cpuOut, Cpu!Solved) /\ Lists(cpuOut', Cpu!Solved')
    BY <1>1, <1>2, <2>1, ListsNone, SameCall
  <2>3. cpuPhase' = "done"
    BY <1>1, <1>7
  <2>4. CpuInv'
    BY <1>1, <1>2, <1>3, <2>2, <2>3 DEF CpuInv
  <2>5. Search!Next
    BY <1>1, <1>2, <1>6, <2>2, <2>3, PrintsLast
  <2>6. QED BY <2>4, <2>5
<1>8. CASE ~(o > input.limit) /\ Cpu!Alone
  <2>1. cpuPhase' = "alone"
    BY <1>1, <1>8
  <2>2. 0 \in Cpu!Threads
    BY <1>4 DEF Cpu!Threads
  <2>3. sum[0] = o /\ sum'[0] = o
    BY <1>1, <1>2, <2>2
  <2>4. Upto(o) = {}
    BY <1>4, <1>5 DEF Upto
  <2>5. Lists(cpuOut', Upto(sum[0])')
    <3>1. Upto(sum[0])' = Upto(o)
      BY <1>1, <2>3, SameCall DEF Upto
    <3>2. QED BY <1>1, <1>2, <2>4, <3>1, ListsNone
  <2> HIDE DEF o
  <2>6. CpuInv'
    BY <1>1, <1>2, <1>3, <1>5, <2>1, <2>3, <2>5 DEF CpuInv
  <2>7. QED BY <1>1, <1>6, <2>1, <2>6, Silent
<1>9. CASE ~(o > input.limit) /\ ~Cpu!Alone
  <2>1. cpuPhase' = "spawn"
    BY <1>1, <1>9
  <2>2. SharedOut(input)
    BY <1>4, <1>9 DEF Divides, SharedOut, Cpu!Alone
  <2>3. SharedOut(input)'
    BY <1>1, <2>2 DEF SharedOut
  <2>4. ASSUME NEW t \in Cpu!Threads PROVE Found(t)'
    <3>1. /\ ~(t < spawned) /\ Cpu!FrontChunk(t) \in Cpu!Chunks /\ Cpu!BackChunk(t) \in Cpu!Chunks
      BY <1>2, <2>2, FrontAndBack DEF Cpu!Threads
    <3>2. /\ chunk'[t] = Cpu!FrontChunk(t) /\ buffer'[Cpu!FrontChunk(t)] = << >>
          /\ buffer'[Cpu!BackChunk(t)] = << >> /\ ~(t < spawned')
      BY <1>1, <1>2, <3>1
    <3>3. QED BY <1>1, <3>2, SameCall DEF Found
  <2>5. CpuInv'
    BY <1>1, <1>2, <1>3, <1>4, <2>1, <2>3, <2>4, SameCall DEF CpuInv
  <2>6. QED BY <1>1, <1>6, <2>1, <2>5, Silent
<1>10. QED BY <1>7, <1>8, <1>9

\* RunItSingle: the next sum, or the end.
LEMMA AloneStep ==
  ASSUME CpuInv, stage = "cpu", stage' = "cpu", Cpu!SearchAlone
  PROVE  CpuInv' /\ [Search!Next]_Search!vars
<1> DEFINE n == sum[0]
<1>1. /\ cpuPhase = "alone" /\ spawned = 0 /\ UNCHANGED <<input, spawned, chunk, buffer>>
      /\ InputInv /\ CpuTyped /\ n % 2 = 1 /\ n >= input.start /\ Lists(cpuOut, Upto(n))
  BY DEF Cpu!SearchAlone, CpuInv
<1>2. /\ input.start \in Nat /\ input.limit \in Nat /\ input.threads \in Nat \ {0}
      /\ Cpu!Solved \in SUBSET Nat
      /\ \A s \in Cpu!Solved : s \in Nat /\ input.start <= s /\ s <= input.limit /\ s % 2 = 1
  BY <1>1, SumsOfACall
<1>3. 0 \in Cpu!Threads /\ sum \in [Cpu!Threads -> Nat] /\ n \in Nat
  BY <1>1, <1>2 DEF Cpu!Threads, CpuTyped
<1>4. Printed = cpuOut /\ Printed' = cpuOut'
  BY CpuPrinted
<1>5. InputInv'
  BY <1>1 DEF InputInv
<1>6. CASE n > input.limit
  <2>1. cpuPhase' = "done" /\ UNCHANGED <<sum, cpuOut>>
    BY <1>6 DEF Cpu!SearchAlone
  <2>2. Upto(n) = Cpu!Solved
    <3> HIDE DEF n
    <3>1. \A s \in Cpu!Solved : s < n
      BY <1>2, <1>3, <1>6
    <3>2. QED BY <3>1 DEF Upto
  <2>3. CpuTyped'
    BY <1>1, <2>1, SameCall DEF CpuTyped
  <2>4. Lists(cpuOut, Cpu!Solved) /\ Lists(cpuOut', Cpu!Solved')
    BY <1>1, <2>1, <2>2, SameCall
  <2>5. CpuInv'
    BY <1>1, <1>5, <2>1, <2>3, <2>4 DEF CpuInv
  <2>6. Search!Next
    BY <1>1, <1>4, <2>1, <2>4, PrintsLast
  <2>7. QED BY <2>5, <2>6
<1>7. CASE ~(n > input.limit)
  <2>1. /\ cpuPhase' = "alone" /\ sum' = [sum EXCEPT ![0] = @ + 2]
        /\ cpuOut' = IF n \in Answered THEN Append(cpuOut, n) ELSE cpuOut
    BY <1>1, <1>7 DEF Cpu!SearchAlone
  <2>2. sum' \in [Cpu!Threads -> Nat] /\ sum'[0] = n + 2
    BY <1>3, <2>1
  <2>3. CpuTyped'
    BY <1>1, <2>2, SameCall DEF CpuTyped
  <2>4. n \in Answered <=> n \in Cpu!Solved
    BY <1>1, <1>2, <1>3, <1>7 DEF Cpu!Solved, Cpu!OddSums
  <2>5. Lists(cpuOut', Upto(n + 2)) /\ (n + 2) % 2 = 1
    <3> HIDE DEF n
    <3>1. /\ (n + 2) % 2 = 1
          /\ n \in Cpu!Solved => Lists(Append(cpuOut, n), {s \in Cpu!Solved : s < n + 2})
          /\ n \notin Cpu!Solved => Lists(cpuOut, {s \in Cpu!Solved : s < n + 2})
      BY <1>1, <1>2, <1>3, NextSum DEF Upto
    <3>2. QED BY <2>1, <2>4, <3>1 DEF Upto
  <2>6. Lists(cpuOut', Upto(sum[0])')
    <3>1. Upto(sum[0])' = Upto(n + 2)
      BY <1>1, <2>2, SameCall DEF Upto
    <3>2. QED BY <2>5, <3>1
  <2> HIDE DEF n
  <2>7. n + 2 >= input.start /\ n + 2 \in Nat /\ n <= n + 2
    BY <1>1, <1>2, <1>3
  <2>8. CpuInv'
    BY <1>1, <1>5, <2>1, <2>2, <2>3, <2>5, <2>6, <2>7 DEF CpuInv
  <2>9. [Search!Next]_Search!vars
    BY <1>1, <1>3, <1>4, <2>1, <2>5, <2>7, PrintsMore
  <2>10. QED BY <2>8, <2>9
<1>8. QED BY <1>6, <1>7

\* A thread starts at the first sum of its front chunk.
LEMMA SpawnStep ==
  ASSUME CpuInv, stage = "cpu", stage' = "cpu", Cpu!Spawn
  PROVE  CpuInv' /\ [Search!Next]_Search!vars
<1>0. PICK p, f, b, o : /\ p = spawned /\ f = Cpu!FrontChunk(p) /\ b = Cpu!BackChunk(p)
                        /\ o = Cpu!Odd(Cpu!ChunkStart(f))
  OBVIOUS
<1>1. /\ cpuPhase = "spawn" /\ p < input.threads /\ spawned' = p + 1
      /\ UNCHANGED <<input, cpuPhase, chunk, buffer, cpuOut>> /\ sum' = [sum EXCEPT ![p] = o]
  BY <1>0 DEF Cpu!Spawn
<1>2. /\ InputInv /\ CpuTyped /\ SharedOut(input) /\ p <= input.threads /\ cpuOut = << >>
      /\ \A t \in Cpu!Threads : Found(t)
  BY <1>0, <1>1 DEF CpuInv
<1>3. p \in Cpu!Threads /\ p \in Nat /\ input.threads \in Nat /\ p + 1 <= input.threads
  BY <1>0, <1>1, <1>2 DEF CpuTyped, SharedOut, Cpu!Threads
<1>4. f \in Cpu!Chunks /\ b \in Cpu!Chunks
  BY <1>0, <1>2, <1>3, FrontAndBack
<1>5. Cpu!ChunkStart(f) \in Nat
  BY <1>2, <1>4, ChunkRow
<1>6. o \in Nat /\ o % 2 = 1 /\ o >= Cpu!ChunkStart(f)
      /\ \A s \in Nat : s % 2 = 1 /\ Cpu!ChunkStart(f) <= s => o <= s
  BY <1>0, <1>5, OddBounds
<1>7. InputInv' /\ SharedOut(input)'
  BY <1>1, <1>2 DEF InputInv, SharedOut
<1>8. sum \in [Cpu!Threads -> Nat] /\ sum' \in [Cpu!Threads -> Nat]
      /\ sum'[p] = o /\ \A t \in Cpu!Threads : t # p => sum'[t] = sum[t]
  BY <1>1, <1>2, <1>3, <1>6 DEF CpuTyped
<1>9. CpuTyped'
  BY <1>1, <1>2, <1>3, <1>8, SameCall DEF CpuTyped
<1>10. ASSUME NEW t \in Cpu!Threads PROVE Found(t)'
  <2>0. Found(t)
    BY <1>2
  <2>1. CASE t = p
    <3>1. ~(p < spawned) /\ p < spawned'
      BY <1>0, <1>1, <1>3
    <3>2. chunk[p] = f /\ buffer[b] = << >> /\ buffer[f] = << >>
      <4>1. p # spawned + 1 /\ chunk[p] = f
        BY <1>0, <1>3, <2>0, <2>1, <3>1 DEF Found
      <4>2. QED BY <1>0, <2>0, <2>1, <3>1, <4>1 DEF Found
    <3>3. {s \in ChunkSums(f) : s < o} = {}
      <4>1. \A s \in ChunkSums(f) : s \in Nat /\ s % 2 = 1 /\ Cpu!ChunkStart(f) <= s
        BY <1>2, SumsOfACall DEF ChunkSums
      <4>2. ASSUME NEW s \in ChunkSums(f) PROVE ~(s < o)
        <5>1. s \in Nat /\ o <= s
          BY <1>6, <4>1
        <5>2. QED BY <1>6, <5>1
      <4>3. QED BY <4>2
    <3>4. On(p, f)'
      <4>1. Lists(buffer'[f], {s \in ChunkSums(f) : s < sum'[p]})
        BY <1>1, <1>8, <3>2, <3>3, ListsNone
      <4>2. QED BY <1>1, <1>6, <1>8, <4>1, SameCall DEF On
    <3>5. chunk'[p] = f /\ buffer'[b] = << >>
      BY <1>1, <3>2
    <3>6. QED BY <1>0, <1>1, <2>1, <3>1, <3>4, <3>5, SameCall DEF Found
  <2>2. CASE t # p
    <3>1. (t < spawned' <=> t < spawned) /\ sum'[t] = sum[t]
      BY <1>0, <1>1, <1>3, <1>8, <2>2 DEF Cpu!Threads
    <3>2. QED BY <1>1, <2>0, <3>1, SameCall DEF Found, On
  <2>3. QED BY <2>1, <2>2
<1>11. CpuInv'
  BY <1>1, <1>2, <1>3, <1>7, <1>9, <1>10, SameCall DEF CpuInv
<1>12. QED BY <1>1, <1>11, CpuPrinted, Silent

\* A thread is on one of its chunks, and has found there what is below its sum.
LEMMA WhereAThreadIs ==
  ASSUME CpuInv, cpuPhase = "spawn", NEW t \in Cpu!Threads, Cpu!Running(t)
  PROVE  /\ chunk[t] \in Cpu!Chunks /\ sum[t] \in Nat /\ On(t, chunk[t])
         /\ \/ chunk[t] = Cpu!FrontChunk(t) /\ buffer[Cpu!BackChunk(t)] = << >>
            \/ /\ chunk[t] = Cpu!BackChunk(t)
               /\ Lists(buffer[Cpu!FrontChunk(t)], ChunkSums(Cpu!FrontChunk(t)))
<1>1. SharedOut(input) /\ CpuTyped /\ Found(t) /\ t < spawned
  BY DEF CpuInv, Cpu!Running
<1>2. Cpu!FrontChunk(t) \in Cpu!Chunks /\ Cpu!BackChunk(t) \in Cpu!Chunks
  BY <1>1, FrontAndBack
<1>3. chunk[t] # Cpu!NumChunks
  <2>1. Cpu!NumChunks \in Nat /\ chunk[t] \in Nat /\ chunk[t] < Cpu!NumChunks
    BY <1>1, ChunkRow DEF CpuTyped, Cpu!Running
  <2>2. QED BY <2>1
<1>4. sum[t] \in Nat
  BY <1>1 DEF CpuTyped
<1>5. QED BY <1>1, <1>2, <1>3, <1>4 DEF Found

\* ProcessRange: what a thread has found grows by the sum it tries.
LEMMA TryStep ==
  ASSUME CpuInv, cpuPhase = "spawn", stage = "cpu", stage' = "cpu",
         NEW t \in Cpu!Threads, Cpu!Try(t)
  PROVE  CpuInv' /\ [Search!Next]_Search!vars
<1>0. PICK c, n : c = chunk[t] /\ n = sum[t]
  OBVIOUS
<1>1. /\ Cpu!Running(t) /\ n <= Cpu!ChunkLimit(c) /\ sum' = [sum EXCEPT ![t] = @ + 2]
      /\ buffer' = IF n \in Answered
                   THEN [buffer EXCEPT ![c] = Append(@, n)] ELSE buffer
      /\ UNCHANGED <<input, cpuPhase, spawned, chunk, cpuOut>>
  BY <1>0 DEF Cpu!Try
<1>2. /\ InputInv /\ CpuTyped /\ SharedOut(input) /\ spawned <= input.threads /\ cpuOut = << >>
      /\ \A s \in Cpu!Threads : Found(s)
  BY DEF CpuInv
<1>3. /\ c \in Cpu!Chunks /\ n \in Nat /\ n % 2 = 1 /\ n >= Cpu!ChunkStart(c)
      /\ Lists(buffer[c], {s \in ChunkSums(c) : s < n})
      /\ \/ c = Cpu!FrontChunk(t) /\ buffer[Cpu!BackChunk(t)] = << >>
         \/ c = Cpu!BackChunk(t) /\ Lists(buffer[Cpu!FrontChunk(t)], ChunkSums(Cpu!FrontChunk(t)))
  BY <1>0, <1>1, WhereAThreadIs DEF On
<1>4. n \in Answered <=> n \in ChunkSums(c)
  <2>1. /\ Cpu!ChunkStart(c) \in Nat /\ Cpu!ChunkLimit(c) \in Int
        /\ input.start <= Cpu!ChunkStart(c) /\ Cpu!ChunkLimit(c) <= input.limit
        /\ input.start \in Nat /\ input.limit \in Nat
    BY <1>2, <1>3, ChunkRow DEF SharedOut
  <2>2. n \in Cpu!ChunkStart(c) .. Cpu!ChunkLimit(c) /\ n \in input.start .. input.limit
    BY <1>1, <1>3, <2>1
  <2>3. QED BY <1>3, <2>2 DEF ChunkSums, Cpu!Solved, Cpu!OddSums
<1>5. /\ DOMAIN buffer = Cpu!Chunks
      /\ buffer' = [d \in Cpu!Chunks |-> buffer'[d]]
      /\ n \in ChunkSums(c) => buffer'[c] = Append(buffer[c], n)
      /\ n \notin ChunkSums(c) => buffer'[c] = buffer[c]
      /\ \A d \in Cpu!Chunks : d # c => buffer'[d] = buffer[d]
  <2>1. buffer = [d \in Cpu!Chunks |-> buffer[d]]
    BY <1>2 DEF CpuTyped
  <2>2. QED BY <1>1, <1>3, <1>4, <2>1
<1>6. sum' \in [Cpu!Threads -> Nat] /\ sum'[t] = n + 2
      /\ \A s \in Cpu!Threads : s # t => sum'[s] = sum[s]
  BY <1>0, <1>1, <1>2, <1>3 DEF CpuTyped
<1>7. Lists(buffer'[c], {s \in ChunkSums(c) : s < n + 2}) /\ (n + 2) % 2 = 1
  <2>1. ChunkSums(c) \in SUBSET Nat /\ \A s \in ChunkSums(c) : s % 2 = 1
    BY <1>2, SumsOfACall DEF ChunkSums
  <2>2. /\ (n + 2) % 2 = 1
        /\ n \in ChunkSums(c) => Lists(Append(buffer[c], n), {s \in ChunkSums(c) : s < n + 2})
        /\ n \notin ChunkSums(c) => Lists(buffer[c], {s \in ChunkSums(c) : s < n + 2})
    BY <1>3, <2>1, NextSum
  <2>3. QED BY <1>5, <2>2
<1>8. On(t, c)'
  <2>1. n + 2 >= Cpu!ChunkStart(c)
    <3>1. Cpu!ChunkStart(c) \in Nat
      BY <1>2, <1>3, ChunkRow
    <3>2. QED BY <1>3, <3>1
  <2>2. QED BY <1>1, <1>6, <1>7, <2>1, SameCall DEF On
<1>9. ASSUME NEW s \in Cpu!Threads PROVE Found(s)'
  <2>1. CASE s = t
    <3>1. /\ Cpu!FrontChunk(t) \in Cpu!Chunks /\ Cpu!BackChunk(t) \in Cpu!Chunks
          /\ Cpu!FrontChunk(t) # Cpu!BackChunk(t)
      BY <1>2, FrontAndBack
    <3>2. t < spawned /\ chunk'[t] = c
      BY <1>0, <1>1 DEF Cpu!Running
    <3>3. CASE c = Cpu!FrontChunk(t) /\ buffer[Cpu!BackChunk(t)] = << >>
      <4>1. buffer'[Cpu!BackChunk(t)] = << >>
        BY <1>5, <3>1, <3>3
      <4>2. QED BY <1>1, <1>8, <2>1, <3>2, <3>3, <4>1, SameCall DEF Found
    <3>4. CASE /\ c = Cpu!BackChunk(t)
               /\ Lists(buffer[Cpu!FrontChunk(t)], ChunkSums(Cpu!FrontChunk(t)))
      <4>1. Lists(buffer'[Cpu!FrontChunk(t)], ChunkSums(Cpu!FrontChunk(t)))
        BY <1>5, <3>1, <3>4
      <4>2. QED BY <1>1, <1>8, <2>1, <3>2, <3>4, <4>1, SameCall DEF Found
    <3>5. QED BY <1>3, <3>3, <3>4
  <2>2. CASE s # t
    <3>1. /\ Cpu!FrontChunk(s) \in Cpu!Chunks /\ Cpu!BackChunk(s) \in Cpu!Chunks
          /\ Cpu!FrontChunk(s) # c /\ Cpu!BackChunk(s) # c
      BY <1>2, <1>3, <2>2, FrontAndBack
    <3>2. /\ buffer'[Cpu!FrontChunk(s)] = buffer[Cpu!FrontChunk(s)]
          /\ buffer'[Cpu!BackChunk(s)] = buffer[Cpu!BackChunk(s)] /\ sum'[s] = sum[s]
      BY <1>5, <1>6, <2>2, <3>1
    <3>3. Found(s)
      BY <1>2
    <3>4. PICK f, b : f = Cpu!FrontChunk(s) /\ b = Cpu!BackChunk(s)
      OBVIOUS
    <3>5. Cpu!FrontChunk(s)' = f /\ Cpu!BackChunk(s)' = b /\ chunk'[s] = chunk[s]
          /\ buffer'[f] = buffer[f] /\ buffer'[b] = buffer[b]
      BY <1>1, <3>2, <3>4, SameCall
    <3>6. (On(s, f) => On(s, f)') /\ (On(s, b) => On(s, b)')
      BY <1>1, <3>2, <3>5, SameCall DEF On
    <3>7. ChunkSums(f)' = ChunkSums(f) /\ ChunkSums(b)' = ChunkSums(b)
          /\ Cpu!NumChunks' = Cpu!NumChunks /\ spawned' = spawned
      BY <1>1, SameCall
    <3>8. \/ /\ chunk[s] = f /\ buffer[b] = << >>
             /\ IF s < spawned THEN On(s, f) ELSE buffer[f] = << >>
          \/ /\ s < spawned /\ chunk[s] = b /\ Lists(buffer[f], ChunkSums(f)) /\ On(s, b)
          \/ /\ s < spawned /\ chunk[s] = Cpu!NumChunks
             /\ Lists(buffer[f], ChunkSums(f)) /\ Lists(buffer[b], ChunkSums(b))
      BY <3>3, <3>4 DEF Found
    <3>9. \/ /\ chunk'[s] = f /\ buffer'[b] = << >>
             /\ IF s < spawned' THEN On(s, f)' ELSE buffer'[f] = << >>
          \/ /\ s < spawned' /\ chunk'[s] = b /\ Lists(buffer'[f], ChunkSums(f)') /\ On(s, b)'
          \/ /\ s < spawned' /\ chunk'[s] = Cpu!NumChunks'
             /\ Lists(buffer'[f], ChunkSums(f)') /\ Lists(buffer'[b], ChunkSums(b)')
      BY <3>5, <3>6, <3>7, <3>8
    <3>10. QED BY <3>4, <3>5, <3>9, SameCall DEF Found
  <2>3. QED BY <2>1, <2>2
<1>10. CpuTyped'
  BY <1>1, <1>2, <1>5, <1>6, SameCall DEF CpuTyped
<1>11. InputInv' /\ SharedOut(input)'
  BY <1>1, <1>2 DEF InputInv, SharedOut
<1>12. CpuInv'
  BY <1>1, <1>2, <1>9, <1>10, <1>11, SameCall DEF CpuInv
<1>13. QED BY <1>1, <1>12, CpuPrinted, Silent

\* The chunk is exhausted: all its answers have been found.
LEMMA NextChunkStep ==
  ASSUME CpuInv, cpuPhase = "spawn", stage = "cpu", stage' = "cpu",
         NEW t \in Cpu!Threads, Cpu!NextChunk(t)
  PROVE  CpuInv' /\ [Search!Next]_Search!vars
<1>0. PICK c, n, f, b, o : /\ c = chunk[t] /\ n = sum[t]
                           /\ f = Cpu!FrontChunk(t) /\ b = Cpu!BackChunk(t)
                           /\ o = Cpu!Odd(Cpu!ChunkStart(b))
  OBVIOUS
<1>1. /\ Cpu!Running(t) /\ n > Cpu!ChunkLimit(c)
      /\ IF c = f THEN chunk' = [chunk EXCEPT ![t] = b] /\ sum' = [sum EXCEPT ![t] = o]
                  ELSE chunk' = [chunk EXCEPT ![t] = Cpu!NumChunks] /\ UNCHANGED sum
      /\ UNCHANGED <<input, cpuPhase, spawned, buffer, cpuOut>>
  BY <1>0 DEF Cpu!NextChunk
<1>2. /\ InputInv /\ CpuTyped /\ SharedOut(input) /\ spawned <= input.threads /\ cpuOut = << >>
      /\ \A s \in Cpu!Threads : Found(s)
  BY DEF CpuInv
<1>3. /\ c \in Cpu!Chunks /\ n \in Nat /\ Lists(buffer[c], {s \in ChunkSums(c) : s < n})
      /\ \/ c = f /\ buffer[b] = << >>
         \/ c = b /\ Lists(buffer[f], ChunkSums(f))
  <2>1. /\ chunk[t] \in Cpu!Chunks /\ sum[t] \in Nat /\ On(t, chunk[t])
        /\ \/ chunk[t] = Cpu!FrontChunk(t) /\ buffer[Cpu!BackChunk(t)] = << >>
           \/ /\ chunk[t] = Cpu!BackChunk(t)
              /\ Lists(buffer[Cpu!FrontChunk(t)], ChunkSums(Cpu!FrontChunk(t)))
    BY <1>1, WhereAThreadIs
  <2>2. On(t, c)
    BY <1>0, <2>1
  <2>3. Lists(buffer[c], {s \in ChunkSums(c) : s < n})
    BY <1>0, <2>2 DEF On
  <2>4. \/ c = f /\ buffer[b] = << >>
        \/ c = b /\ Lists(buffer[f], ChunkSums(f))
    BY <1>0, <2>1
  <2>5. c \in Cpu!Chunks /\ n \in Nat
    BY <1>0, <2>1
  <2>6. QED BY <2>3, <2>4, <2>5
<1>4. f \in Cpu!Chunks /\ b \in Cpu!Chunks /\ f # b
  BY <1>0, <1>2, FrontAndBack
<1>5. Lists(buffer[c], ChunkSums(c))
  <2>1. Cpu!ChunkLimit(c) \in Int
    BY <1>2, <1>3, ChunkRow
  <2>2. \A s \in ChunkSums(c) : s \in Nat /\ s <= Cpu!ChunkLimit(c)
    BY <1>2, SumsOfACall DEF ChunkSums
  <2>3. \A s \in ChunkSums(c) : s < n
    BY <1>1, <1>3, <2>1, <2>2
  <2>4. {s \in ChunkSums(c) : s < n} = ChunkSums(c)
    BY <2>3
  <2>5. QED BY <1>3, <2>4
<1>6. o \in Nat /\ o % 2 = 1 /\ o >= Cpu!ChunkStart(b)
      /\ \A s \in Nat : s % 2 = 1 /\ Cpu!ChunkStart(b) <= s => o <= s
  BY <1>0, <1>2, <1>4, ChunkRow, OddBounds
<1>7. /\ chunk' \in [Cpu!Threads -> Nat] /\ sum' \in [Cpu!Threads -> Nat]
      /\ \A s \in Cpu!Threads : s # t => chunk'[s] = chunk[s] /\ sum'[s] = sum[s]
      /\ c = f => chunk'[t] = b /\ sum'[t] = o
      /\ c # f => chunk'[t] = Cpu!NumChunks
  <2>1. /\ chunk \in [Cpu!Threads -> Nat] /\ sum \in [Cpu!Threads -> Nat]
        /\ b \in Nat /\ Cpu!NumChunks \in Nat
    BY <1>2, <1>4, ChunkRow DEF CpuTyped
  <2>2. QED BY <1>1, <1>6, <2>1
<1>8. /\ Cpu!FrontChunk(t)' = f /\ Cpu!BackChunk(t)' = b /\ ChunkSums(f)' = ChunkSums(f)
      /\ ChunkSums(b)' = ChunkSums(b) /\ Cpu!NumChunks' = Cpu!NumChunks
      /\ Cpu!ChunkStart(b)' = Cpu!ChunkStart(b)
  BY <1>0, <1>1, SameCall
<1>9. t < spawned
  BY <1>1 DEF Cpu!Running
<1>10. Found(t)'
  <2>1. CASE c = f
    <3>1. {s \in ChunkSums(b) : s < o} = {}
      <4>1. \A s \in ChunkSums(b) : s \in Nat /\ s % 2 = 1 /\ Cpu!ChunkStart(b) <= s
        BY <1>2, SumsOfACall DEF ChunkSums
      <4>2. ASSUME NEW s \in ChunkSums(b) PROVE ~(s < o)
        <5>1. s \in Nat /\ o <= s
          BY <1>6, <4>1
        <5>2. QED BY <1>6, <5>1
      <4>3. QED BY <4>2
    <3>2. buffer[b] = << >>
      BY <1>3, <1>4, <2>1
    <3>3. Lists(buffer'[b], {s \in ChunkSums(b) : s < sum'[t]})
      BY <1>1, <1>7, <2>1, <3>1, <3>2, ListsNone
    <3>4. On(t, b)'
      BY <1>6, <1>7, <1>8, <2>1, <3>3 DEF On
    <3>5. Lists(buffer'[f], ChunkSums(f)')
      BY <1>1, <1>5, <1>8, <2>1
    <3>6. QED BY <1>1, <1>7, <1>8, <1>9, <2>1, <3>4, <3>5 DEF Found
  <2>2. CASE c # f
    <3>1. Lists(buffer'[f], ChunkSums(f)') /\ Lists(buffer'[b], ChunkSums(b)')
      BY <1>1, <1>3, <1>5, <1>8, <2>2
    <3>2. QED BY <1>1, <1>7, <1>8, <1>9, <2>2, <3>1 DEF Found
  <2>3. QED BY <2>1, <2>2
<1>11. ASSUME NEW s \in Cpu!Threads PROVE Found(s)'
  <2>1. CASE s # t
    <3>1. chunk'[s] = chunk[s] /\ sum'[s] = sum[s] /\ Found(s)
      BY <1>2, <1>7, <2>1
    <3>2. QED BY <1>1, <3>1, SameCall DEF Found, On
  <2>2. QED BY <1>10, <2>1
<1>12. CpuTyped'
  BY <1>1, <1>2, <1>7, SameCall DEF CpuTyped
<1>13. InputInv' /\ SharedOut(input)'
  BY <1>1, <1>2 DEF InputInv, SharedOut
<1>14. CpuInv'
  BY <1>1, <1>2, <1>11, <1>12, <1>13, SameCall DEF CpuInv
<1>15. QED BY <1>1, <1>14, CpuPrinted, Silent

\* When all the threads have ended every chunk has been searched.
LEMMA JoinStep ==
  ASSUME CpuInv, stage = "cpu", stage' = "cpu", Cpu!Join
  PROVE  CpuInv' /\ [Search!Next]_Search!vars
<1>1. /\ cpuPhase = "spawn" /\ spawned = input.threads /\ cpuPhase' = "front" /\ spawned' = 0
      /\ \A t \in Cpu!Threads : chunk[t] = Cpu!NumChunks
      /\ UNCHANGED <<input, chunk, sum, buffer, cpuOut>>
  BY DEF Cpu!Join
<1>2. /\ InputInv /\ CpuTyped /\ SharedOut(input) /\ cpuOut = << >>
      /\ \A t \in Cpu!Threads : Found(t)
  BY <1>1 DEF CpuInv
<1>3. InputInv' /\ CpuTyped' /\ SharedOut(input)'
  BY <1>1, <1>2, SameCall DEF InputInv, CpuTyped, SharedOut
<1>4. ASSUME NEW c \in Cpu!Chunks PROVE Lists(buffer[c], ChunkSums(c))
  <2>1. PICK t \in Cpu!Threads : c = Cpu!FrontChunk(t) \/ c = Cpu!BackChunk(t)
    BY <1>2, FrontAndBack
  <2>2. Cpu!NumChunks # Cpu!FrontChunk(t) /\ Cpu!NumChunks # Cpu!BackChunk(t)
    BY <1>2, FrontAndBack
  <2>3. Found(t) /\ chunk[t] = Cpu!NumChunks
    BY <1>1, <1>2
  <2>4. /\ Lists(buffer[Cpu!FrontChunk(t)], ChunkSums(Cpu!FrontChunk(t)))
        /\ Lists(buffer[Cpu!BackChunk(t)], ChunkSums(Cpu!BackChunk(t)))
    BY <2>2, <2>3 DEF Found
  <2>5. QED BY <2>1, <2>4
<1>5. \A c \in Cpu!Chunks' : Lists(buffer'[c], ChunkSums(c)')
  BY <1>1, <1>4, SameCall
<1>6. 0 < input.threads
  BY <1>2, SumsOfACall
<1>7. Lists(cpuOut', Upto(Cpu!ChunkStart(Cpu!FrontChunk(spawned)))')
  <2>1. Cpu!ChunkStart(0) = input.start /\ Cpu!FrontChunk(spawned)' = 0
    BY <1>1, <1>2, ChunkRow DEF Cpu!FrontChunk
  <2>2. Cpu!ChunkStart(Cpu!FrontChunk(spawned))' = input.start
    <3>1. Cpu!ChunkStart(0)' = Cpu!ChunkStart(0)
      BY <1>1, SameCall
    <3>2. Cpu!ChunkStart(Cpu!FrontChunk(spawned))' = Cpu!ChunkStart(0)'
      BY <2>1 DEF Cpu!ChunkStart
    <3>3. QED BY <2>1, <3>1, <3>2
  <2>3. Upto(Cpu!ChunkStart(Cpu!FrontChunk(spawned)))' = {s \in Cpu!Solved : s < input.start}
    BY <1>1, <2>2, SameCall DEF Upto
  <2>4. {s \in Cpu!Solved : s < input.start} = {}
    BY <1>2, SumsOfACall
  <2>5. QED BY <1>1, <1>2, <2>3, <2>4, ListsNone
<1>8. Ended'
  BY <1>1, SameCall DEF Ended
<1>9. CpuInv'
  BY <1>1, <1>3, <1>5, <1>6, <1>7, <1>8 DEF CpuInv
<1>10. QED BY <1>1, <1>9, CpuPrinted, Silent

\* A chunk extends what has been printed up to its start.
LEMMA ChunkPrinted ==
  ASSUME InputInv, SharedOut(input), NEW c \in Cpu!Chunks,
         NEW p, Lists(p, Upto(Cpu!ChunkStart(c))), NEW q, Lists(q, ChunkSums(c))
  PROVE  /\ Cpu!ChunkStart(c) \in Nat /\ Cpu!ChunkLimit(c) + 1 \in Nat
         /\ Cpu!ChunkStart(c) <= Cpu!ChunkLimit(c) + 1
         /\ Lists(p \o q, Upto(Cpu!ChunkLimit(c) + 1))
         /\ c + 1 \in Cpu!Chunks => Cpu!ChunkStart(c + 1) = Cpu!ChunkLimit(c) + 1
         /\ c = Cpu!NumChunks - 1 => Upto(Cpu!ChunkLimit(c) + 1) = Cpu!Solved
<1> DEFINE a == Cpu!ChunkStart(c)
           z == Cpu!ChunkLimit(c)
<1>1. /\ a \in Nat /\ z \in Int /\ a <= z + 1
      /\ c + 1 \in Cpu!Chunks => Cpu!ChunkStart(c + 1) = z + 1
      /\ c = Cpu!NumChunks - 1 => z = input.limit
  BY ChunkRow
<1>2. \A s \in Cpu!Solved : s \in Nat /\ s <= input.limit
  BY SumsOfACall
<1>3. /\ Upto(a) = {s \in Cpu!Solved : s < a} /\ Upto(z + 1) = {s \in Cpu!Solved : s < z + 1}
      /\ ChunkSums(c) = {s \in Cpu!Solved : s \in a .. z}
  BY DEF Upto, ChunkSums
<1> HIDE DEF a, z
<1>4. z + 1 \in Nat
  BY <1>1
<1>5. ASSUME NEW s \in Cpu!Solved
      PROVE  s < z + 1 <=> s < a \/ s \in a .. z
  BY <1>1, <1>2
<1>6. Upto(z + 1) = Upto(a) \union ChunkSums(c)
  BY <1>3, <1>5
<1>7. \A s \in Upto(a) : \A t \in ChunkSums(c) : s < t
  <2> SUFFICES ASSUME NEW s \in Upto(a), NEW t \in ChunkSums(c) PROVE s < t
    OBVIOUS
  <2>1. s \in Nat /\ t \in Nat /\ s < a /\ a <= t
    BY <1>1, <1>2, <1>3
  <2>2. QED BY <1>1, <2>1
<1>8. Lists(p \o q, Upto(z + 1))
  <2>1. Lists(p, Upto(a))
    BY DEF a
  <2>2. QED BY <1>6, <1>7, <2>1, ListsConcat
<1>9. c = Cpu!NumChunks - 1 => Upto(z + 1) = Cpu!Solved
  <2> HAVE c = Cpu!NumChunks - 1
  <2>1. z = input.limit
    BY <1>1
  <2>2. \A s \in Cpu!Solved : s < z + 1
    BY <1>1, <1>2, <2>1
  <2>3. QED BY <1>3, <2>2
<1>10. QED BY <1>1, <1>4, <1>8, <1>9 DEF a, z

\* The chunk whose buffer is printed next.
Printing == IF cpuPhase = "front" THEN Cpu!FrontChunk(spawned) ELSE Cpu!BackChunk(spawned)

\* The buffers are printed in the order of their chunks, front ones first.
LEMMA BufferStep ==
  ASSUME CpuInv, stage = "cpu", stage' = "cpu", Cpu!PrintFront \/ Cpu!PrintBack
  PROVE  CpuInv' /\ [Search!Next]_Search!vars
<1>0. PICK c, z, p : c = Printing /\ z = Cpu!ChunkLimit(c) + 1 /\ p = spawned
  OBVIOUS
<1>1. /\ cpuPhase \in {"front", "back"} /\ UNCHANGED <<input, chunk, sum, buffer>>
      /\ cpuOut' = cpuOut \o buffer[c]
      /\ \/ /\ cpuPhase = "front" /\ p + 1 < input.threads
            /\ spawned' = p + 1 /\ cpuPhase' = "front"
         \/ /\ cpuPhase = "front" /\ ~(p + 1 < input.threads)
            /\ spawned' = p /\ cpuPhase' = "back"
         \/ cpuPhase = "back" /\ p > 0 /\ spawned' = p - 1 /\ cpuPhase' = "back"
         \/ cpuPhase = "back" /\ ~(p > 0) /\ spawned' = p /\ cpuPhase' = "return"
  <2>1. CASE Cpu!PrintFront
    BY <1>0, <2>1 DEF Cpu!PrintFront, Printing
  <2>2. CASE Cpu!PrintBack
    BY <1>0, <2>2 DEF Cpu!PrintBack, Printing
  <2>3. QED BY <2>1, <2>2
<1>2. /\ InputInv /\ CpuTyped /\ SharedOut(input) /\ p < input.threads /\ p \in Nat
      /\ \A d \in Cpu!Chunks : Lists(buffer[d], ChunkSums(d))
      /\ Lists(cpuOut, Upto(Cpu!ChunkStart(c)))
  BY <1>0, <1>1 DEF CpuInv, CpuTyped, Printing
<1>3. /\ input.threads \in Nat \ {0} /\ Cpu!NumChunks = 2 * input.threads
      /\ Cpu!Chunks = 0 .. Cpu!NumChunks - 1
  BY <1>2, ChunkRow
<1>4. c = IF cpuPhase = "front" THEN p ELSE 2 * input.threads - 1 - p
  BY <1>0, <1>3 DEF Printing, Cpu!FrontChunk, Cpu!BackChunk
<1>5. c \in Cpu!Chunks
  <2>1. p \in 0 .. 2 * input.threads - 1 /\ 2 * input.threads - 1 - p \in 0 .. 2 * input.threads - 1
    BY <1>2, <1>3
  <2>2. QED BY <1>3, <1>4, <2>1
<1>6. /\ Cpu!ChunkStart(c) \in Nat /\ z \in Nat /\ Cpu!ChunkStart(c) <= z
      /\ Lists(cpuOut', Upto(z))
      /\ c + 1 \in Cpu!Chunks => Cpu!ChunkStart(c + 1) = z
      /\ c = Cpu!NumChunks - 1 => Upto(z) = Cpu!Solved
  BY <1>0, <1>1, <1>2, <1>5, ChunkPrinted
<1>7. InputInv' /\ SharedOut(input)' /\ CpuTyped' /\ Ended'
  <2>1. spawned' \in Nat
    BY <1>1, <1>2
  <2>2. Ended'
    BY <1>1, SameCall DEF CpuInv, Ended
  <2>3. QED BY <2>2, <1>1, <1>2, <2>1, SameCall DEF InputInv, SharedOut, CpuTyped
<1>8. [Search!Next]_Search!vars
  <2>1. Printed = cpuOut /\ Printed' = cpuOut'
    BY CpuPrinted
  <2>2. cpuPhase # "done" /\ cpuPhase' # "done"
    BY <1>1
  <2>3. QED BY <1>1, <1>2, <1>6, <2>1, <2>2, PrintsMore
<1>9. \A d \in Cpu!Chunks' : Lists(buffer'[d], ChunkSums(d)')
  BY <1>1, <1>2, SameCall
<1>10. CASE cpuPhase' \in {"front", "back"}
  <2>1. Printing' = c + 1 /\ spawned' \in Nat /\ spawned' < input.threads
        /\ c + 1 \in 0 .. 2 * input.threads - 1
    <3>1. Printing' = IF cpuPhase' = "front" THEN spawned' ELSE 2 * input.threads - 1 - spawned'
      BY <1>1, <1>3 DEF Printing, Cpu!FrontChunk, Cpu!BackChunk, Cpu!NumChunks
    <3>2. CASE cpuPhase = "front" /\ p + 1 < input.threads
      BY <1>1, <1>2, <1>3, <1>4, <3>1, <3>2
    <3>3. CASE cpuPhase = "front" /\ ~(p + 1 < input.threads)
      BY <1>1, <1>2, <1>3, <1>4, <3>1, <3>3
    <3>4. CASE cpuPhase = "back"
      BY <1>1, <1>2, <1>3, <1>4, <1>10, <3>1, <3>4
    <3>5. QED BY <1>1, <3>2, <3>3, <3>4
  <2>2. Upto(Cpu!ChunkStart(Printing))' = Upto(z)
    <3>1. Cpu!ChunkStart(Printing)' = Cpu!ChunkStart(c + 1)
      <4>1. Cpu!ChunkStart(Printing)' = Cpu!ChunkStart(c + 1)'
        BY <2>1 DEF Cpu!ChunkStart
      <4>2. QED BY <1>1, <4>1, SameCall
    <3>2. Cpu!ChunkStart(c + 1) = z
      BY <1>3, <1>6, <2>1
    <3>3. QED BY <1>1, <3>1, <3>2, SameCall DEF Upto
  <2>3. Lists(cpuOut', Upto(Cpu!ChunkStart(Printing))')
    BY <1>6, <2>2
  <2>4. spawned' < input.threads'
    BY <1>1, <2>1
  <2>5. CpuInv'
    BY <1>7, <1>9, <1>10, <2>3, <2>4 DEF CpuInv, Printing
  <2>6. QED BY <1>8, <2>5
<1>11. CASE cpuPhase' = "return"
  <2>1. c = Cpu!NumChunks - 1
    BY <1>1, <1>2, <1>3, <1>4, <1>11
  <2>2. Lists(cpuOut', Cpu!Solved')
    BY <1>1, <1>6, <2>1, SameCall
  <2>3. CpuInv'
    BY <1>7, <1>11, <2>2 DEF CpuInv
  <2>4. QED BY <1>8, <2>3
<1>12. QED BY <1>1, <1>10, <1>11

LEMMA ReturnStep ==
  ASSUME CpuInv, stage = "cpu", stage' = "cpu", Cpu!Return
  PROVE  CpuInv' /\ [Search!Next]_Search!vars
<1>1. /\ cpuPhase = "return" /\ cpuPhase' = "done" /\ InputInv /\ CpuTyped
      /\ Lists(cpuOut, Cpu!Solved) /\ UNCHANGED <<input, spawned, chunk, sum, buffer, cpuOut>>
  BY DEF Cpu!Return, CpuInv
<1>2. InputInv' /\ CpuTyped' /\ Lists(cpuOut', Cpu!Solved') /\ Ended'
  BY <1>1, SameCall DEF CpuInv, InputInv, CpuTyped, Ended
<1>3. CpuInv'
  BY <1>1, <1>2 DEF CpuInv
<1>4. Search!Next
  BY <1>1, CpuPrinted, PrintsLast
<1>5. QED BY <1>3, <1>4

LEMMA CpuStageStep ==
  ASSUME SearchInv, Divides(input), CpuStep, Cpu!Next
  PROVE  SearchInv' /\ [Search!Next]_Search!vars
<1>1. stage = "cpu" /\ stage' = "cpu" /\ GridInv /\ CpuInv
  BY DEF CpuStep, SearchInv
<1>2. GridInv'
  BY <1>1, GridStep DEF Next
<1>3. CpuInv' /\ [Search!Next]_Search!vars
  <2>1. CASE Cpu!Main
    BY <1>1, <2>1, BeginStep, AloneStep, SpawnStep, JoinStep, BufferStep, ReturnStep
       DEF Cpu!Main
  <2>2. ASSUME NEW t \in Cpu!Threads, Cpu!Worker(t)
        PROVE  CpuInv' /\ [Search!Next]_Search!vars
    <3>1. cpuPhase = "spawn"
      <4>1. t < spawned /\ chunk[t] < Cpu!NumChunks
        BY <2>2 DEF Cpu!Worker, Cpu!Try, Cpu!NextChunk, Cpu!Running
      <4>2. t \in Nat /\ Cpu!NumChunks \in Nat
        BY <1>1, SumsOfACall DEF CpuInv, Cpu!Threads, Cpu!NumChunks
      <4>3. spawned # 0 /\ chunk[t] # Cpu!NumChunks
        BY <4>1, <4>2
      <4>4. spawned # 0 /\ ~Ended
        BY <4>3 DEF Ended
      <4>5. QED BY <1>1, <4>4 DEF CpuInv
    <3>2. QED BY <1>1, <2>2, <3>1, TryStep, NextChunkStep DEF Cpu!Worker
  <2>3. CASE Cpu!Done
    <3>1. UNCHANGED <<stage, gpuVars, cpuVars>>
      BY <2>3 DEF CpuStep, Cpu!Done, Cpu!vars, cpuVars
    <3>2. CpuInv'
      BY <1>1, <3>1, CpuKept
    <3>3. UNCHANGED Search!vars
      BY <3>1, SameCall DEF Search!vars, Printed, cpuVars, gpuVars
    <3>4. QED BY <3>2, <3>3
  <2>4. QED BY <2>1, <2>2, <2>3 DEF Cpu!Next
<1>4. QED BY <1>1, <1>2, <1>3 DEF SearchInv

LEMMA InitSearch == Init => SearchInv /\ Search!Init
<1> SUFFICES ASSUME Init PROVE SearchInv /\ Search!Init
  OBVIOUS
<1>1. GridInv
  BY InitGrid
<1>2. /\ InputInv /\ cpuPhase = "start" /\ spawned = 0 /\ cpuOut = << >>
      /\ chunk = [t \in Cpu!Threads |-> Cpu!FrontChunk(t)]
      /\ sum = [t \in Cpu!Threads |-> Cpu!Odd(input.start)]
      /\ buffer = [c \in Cpu!Chunks |-> << >>]
  BY DEF Init, Cpu!Init, InputInv
<1>3. input.start \in Nat /\ input.threads \in Nat \ {0} /\ Cpu!Solved \in SUBSET Nat
  BY <1>2, SumsOfACall
<1>4. CpuTyped
  <2>1. \A t \in Cpu!Threads : Cpu!FrontChunk(t) \in Nat
    BY <1>3 DEF Cpu!Threads, Cpu!FrontChunk
  <2>2. Cpu!Odd(input.start) \in Nat
    BY <1>3, OddBounds
  <2>3. QED BY <1>2, <2>1, <2>2 DEF CpuTyped
<1>5. CpuInv
  BY <1>2, <1>4 DEF CpuInv
<1>6. CASE stage = "gpu" /\ input = Leg /\ Gpu!Init
  <2>1. gpuPhase = "zero" /\ gpuOut = << >>
    BY <1>6 DEF Gpu!Init
  <2>2. RecordInv
    BY <2>1 DEF RecordInv
  <2>3. Printed = << >>
    BY <1>6, <2>1, NothingPrinted
  <2>4. QED BY <1>1, <1>2, <1>3, <1>5, <1>6, <2>1, <2>2, <2>3 DEF SearchInv, Search!Init
<1>7. CASE stage = "cpu"
  BY <1>1, <1>2, <1>3, <1>5, <1>7 DEF SearchInv, Search!Init, Printed
<1>8. QED BY <1>6, <1>7 DEF Init

\* The search phase of a leg prints the sums that have an answer, each once and
\* in ascending order, and ends only when it has printed them all, whatever fails
\* on the GPU and wherever the CPU takes over (main.cpp:972-1002): every step is
\* one that OrderedSearch allows, which is ImplementsSearch without its fairness.
\* A call that RunIt shares out has to have a sum for each of its chunks.
THEOREM SearchKeepsPromise ==
  ASSUME \A i \in Inputs \union {Leg} : Divides(i)
  PROVE  Spec => Search!Spec
<1>1. SearchInv /\ [Next]_vars => SearchInv' /\ [Search!Next]_Search!vars
  <2> SUFFICES ASSUME SearchInv, [Next]_vars
               PROVE  SearchInv' /\ [Search!Next]_Search!vars
    OBVIOUS
  <2>1. CASE GpuStep /\ Gpu!Next
    BY <2>1, GpuStageStep
  <2>2. CASE TakeOver
    BY <2>2, TakeOverStep
  <2>3. CASE CpuStep /\ Cpu!Next
    <3>1. Divides(input)
      BY DEF SearchInv, CpuInv, InputInv
    <3>2. QED BY <2>3, <3>1, CpuStageStep
  <2>4. CASE UNCHANGED vars
    <3>1. UNCHANGED <<stage, gpuVars, cpuVars>>
      BY <2>4 DEF vars
    <3>2. GridInv' /\ CpuInv'
      BY <2>4, <3>1, GridStep, CpuKept DEF SearchInv
    <3>3. stage = "gpu" => RecordInv' /\ input' = Leg' /\ cpuPhase' = "start"
      BY <3>1 DEF SearchInv, RecordInv, gpuVars, cpuVars, GpuSolved, Recorded, Leg, Last
    <3>4. UNCHANGED Search!vars
      BY <3>1, SameCall DEF Search!vars, Printed, cpuVars, gpuVars
    <3>5. QED BY <3>1, <3>2, <3>3, <3>4 DEF SearchInv
  <2>5. QED BY <2>1, <2>2, <2>3, <2>4 DEF Next
<1>2. QED BY InitSearch, <1>1, PTL DEF Spec, Search!Spec
=============================================================================
