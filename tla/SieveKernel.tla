---------------------------- MODULE SieveKernel ----------------------------
(***************************************************************************)
(* SIEVE_SLAB_KERNEL (source/sieve_slab_kernel.h): one launch over one      *)
(* primed slab.  The threads of a block clear a shared stage, mark the      *)
(* multiples of the primes in it (each thread its slice of the stage for    *)
(* the primes below the cut, its stride of the list for the others) and     *)
(* flush the marks to the slab, phase by phase, kept apart by three         *)
(* barriers.                                                                *)
(*                                                                          *)
(* A bit is a pair <<byte, residue>> standing for the value                 *)
(* 30 * byte + residue; a stage or a map is the set of its bits that are    *)
(* set.  A walk of one prime is one step: its marks are atomic and commute. *)
(***************************************************************************)
EXTENDS Integers, FiniteSets

CONSTANTS
  BytesPerThread,     \* FF_SIEVE_BYTES_PER_THREAD
  ThreadsPerBlock,    \* FF_SIEVE_THREADS_PER_BLOCK
  BlocksPerSubBlock,  \* FF_SIEVE_BLOCKS_PER_SUB_BLOCK
  Stages,             \* FF_SIEVE_STAGES
  SmallPrimeCut,      \* FF_SIEVE_SMALL_PRIME_CUT
  Span,               \* spanValues: the values of the whole map
  Slabs               \* the slabs a launch may be about, [lo |-> , hi |-> ]

\* The static_asserts of the header, and the runtime contract of a launch.
ASSUME GeometryAssumption ==
  /\ {BytesPerThread, ThreadsPerBlock, BlocksPerSubBlock, Stages} \subseteq Nat \ {0}
  /\ BytesPerThread % 4 = 0
  /\ (BytesPerThread * ThreadsPerBlock) % (4 * Stages) = 0
  /\ (BytesPerThread * ThreadsPerBlock) % (Stages * ThreadsPerBlock) = 0
ASSUME SlabsAssumption ==
  /\ Span \in Nat /\ Slabs \subseteq [lo : Nat, hi : Nat]
  /\ \A s \in Slabs : s.lo % 30 = 0 /\ s.lo < s.hi /\ s.hi <= Span

VARIABLES
  slab,     \* segLo and segHi of the launch
  aligned,  \* wordOk: the slab starts on a word
  pc,       \* pc[t]: where thread t is
  ph,       \* ph[t]: its phase
  next,     \* next[t]: the prime or the stage word it comes to next
  stage,    \* stage[b]: the shared stage of block b
  map       \* the slab's bits in device memory

vars == <<slab, aligned, pc, ph, next, stage, map>>

-----------------------------------------------------------------------------
(* Geometry *)

Residues == {1, 7, 11, 13, 17, 19, 23, 29}

BlockSpan == BytesPerThread * ThreadsPerBlock
StageBytes == BlockSpan \div Stages
StageWords == StageBytes \div 4
SliceBytes == StageBytes \div ThreadsPerBlock
SubBlockSize == BlockSpan * BlocksPerSubBlock

\* Blocks of the largest launch; a launch has whole sub-blocks of them.
BufMin(s) == (s.hi - s.lo + 29) \div 30
NumBlocks(s) ==
  ((BufMin(s) + SubBlockSize - 1) \div SubBlockSize) * BlocksPerSubBlock
Blocks == UNION {0 .. NumBlocks(s) - 1 : s \in Slabs}
Threads == Blocks \X (0 .. ThreadsPerBlock - 1)
Block(t) == t[1]
Lane(t) == t[2]

FullWords == BufMin(slab) \div 4

MutBlockBase(b) ==
  (b \div BlocksPerSubBlock) * SubBlockSize
    + (b % BlocksPerSubBlock) * (BlockSpan - 4)
BlockBase(b) ==
  (b \div BlocksPerSubBlock) * SubBlockSize + (b % BlocksPerSubBlock) * BlockSpan
BlockEnd(b) ==
  IF BlockBase(b) + BlockSpan < BufMin(slab) THEN BlockBase(b) + BlockSpan
  ELSE BufMin(slab)
BlockHi(b) == slab.lo + BlockEnd(b) * 30

\* The value window of thread t's phase.
PhaseLo(t) == slab.lo + (BlockBase(Block(t)) + ph[t] * StageBytes) * 30
PhaseHi(t) ==
  LET full == PhaseLo(t) + StageBytes * 30
  IN IF full < BlockHi(Block(t)) THEN full ELSE BlockHi(Block(t))

\* The marking primes, ascending from index 0: above 5, up to the root of the
\* largest value of the map (SieveEngine::prepare).
Primes ==
  (2 .. Span) \ UNION {{p * q : q \in 2 .. Span \div p} :
                        p \in {d \in 2 .. Span : d * d <= Span}}
PrimeSet == {p \in Primes : p > 5 /\ p * p <= Span - 1}
NumList == Cardinality(PrimeSet)
PrimeList ==
  [i \in 0 .. NumList - 1 |->
     CHOOSE p \in PrimeSet : Cardinality({q \in PrimeSet : q < p}) = i]
SmallCut == Cardinality({p \in PrimeSet : p < SmallPrimeCut})

-----------------------------------------------------------------------------
(* Marking *)

\* The multiples of p in one residue class are those of p * t0 modulo 30 * p,
\* t0 the residue times the inverse of p modulo 30.
Inverse30(p) == CHOOSE u \in Residues : (p * u) % 30 = 1

\* WheelMarkAP_ for all residues: the bits, relative to `base`, of the members
\* of the window [lo, hi) from p * p on.
Marks(p, base, lo, hi) ==
  LET class(r) == p * ((Inverse30(p) * r) % 30)
      from == IF lo > p * p THEN lo ELSE p * p
      start(r) == IF from > class(r)
                  THEN class(r) + 30 * p * ((from - class(r) + 30 * p - 1) \div (30 * p))
                  ELSE class(r)
      steps == 0 .. (hi - lo) \div (30 * p)
      value(r, i) == start(r) + 30 * p * i
  IN {<<(value(x[1], x[2]) - base) \div 30, x[1]>> :
        x \in {y \in Residues \X steps : value(y[1], y[2]) < hi}}

\* The slab as its owner primes it: all bits; then byte 0 of the map without
\* the value 1; then the last byte, if the slab ends inside it, without its
\* padding, which in a slab of one byte brings the value 1 back.
Padded(s) == s.lo + 30 * (BufMin(s) - 1) + 29 >= s.hi
Primed(s) ==
  {bit \in (0 .. BufMin(s) - 1) \X Residues :
     /\ s.lo + 30 * bit[1] + bit[2] < s.hi
     /\ s.lo = 0 /\ ~(BufMin(s) = 1 /\ Padded(s)) => bit # <<0, 1>>}

Init ==
  /\ slab \in Slabs
  /\ aligned \in BOOLEAN
  /\ pc = [t \in Threads |-> IF Block(t) < NumBlocks(slab) THEN "start" ELSE "exit"]
  /\ ph = [t \in Threads |-> 0]
  /\ next = [t \in Threads |-> 0]
  /\ \E garbage \in {{}, {<<0, 7>>}} : stage = [b \in Blocks |-> garbage]
  /\ map = Primed(slab)

-----------------------------------------------------------------------------
(* One thread *)

Goto(t, step, n) == pc' = [pc EXCEPT ![t] = step] /\ next' = [next EXCEPT ![t] = n]

\* A block past the slab leaves as a whole before any barrier.
Start(t) ==
  /\ pc[t] = "start"
  /\ Goto(t, IF BlockBase(Block(t)) >= BufMin(slab) THEN "exit" ELSE "phase", 0)
  /\ UNCHANGED <<slab, aligned, ph, stage, map>>

\* The words of a strided loop: thread t has every ThreadsPerBlock-th.
Word(bit) == bit[1] \div 4
Strided(t) == {w \in 0 .. StageWords - 1 : w % ThreadsPerBlock = Lane(t)}

\* A phase begins with this thread's share of the stage zeroed.
Phase(t) ==
  /\ pc[t] = "phase"
  /\ IF ph[t] < Stages /\ PhaseLo(t) < BlockHi(Block(t))
     THEN /\ stage' = [stage EXCEPT ![Block(t)] =
                         {bit \in @ : Word(bit) \notin Strided(t)}]
          /\ Goto(t, "zeroed", 0)
     ELSE Goto(t, "exit", 0) /\ UNCHANGED stage
  /\ UNCHANGED <<slab, aligned, ph, map>>

\* The next prime of its pass, and whether the pass is over for it.
Prime(t) == PrimeList[next[t]]
OutOfReach(t) == Prime(t) * Prime(t) >= BlockHi(Block(t))

Mark(t, lo, hi) ==
  stage' = [stage EXCEPT ![Block(t)] = @ \union Marks(Prime(t), PhaseLo(t), lo, hi)]

\* The primes below the cut, in the thread's slice of the stage only.
SliceLo(t) == PhaseLo(t) + Lane(t) * SliceBytes * 30
SliceHi(t) ==
  LET full == SliceLo(t) + SliceBytes * 30
  IN IF full < PhaseHi(t) THEN full ELSE PhaseHi(t)

CutPrime(t) ==
  /\ pc[t] = "cut"
  /\ IF SliceLo(t) >= PhaseHi(t) \/ next[t] >= SmallCut \/ OutOfReach(t)
     THEN Goto(t, "large", SmallCut + Lane(t)) /\ UNCHANGED stage
     ELSE Mark(t, SliceLo(t), SliceHi(t)) /\ Goto(t, "cut", next[t] + 1)
  /\ UNCHANGED <<slab, aligned, ph, map>>

\* The other primes, each by the thread whose stride it is in, over the whole
\* phase.
LargePrime(t) ==
  /\ pc[t] = "large"
  /\ IF next[t] >= NumList \/ OutOfReach(t)
     THEN Goto(t, "marked", 0) /\ UNCHANGED stage
     ELSE /\ Mark(t, PhaseLo(t), PhaseHi(t))
          /\ Goto(t, "large", next[t] + ThreadsPerBlock)
  /\ UNCHANGED <<slab, aligned, ph, map>>

\* The word of the slab a stage word is flushed to.
GlobalWord(t) == (BlockBase(Block(t)) + ph[t] * StageBytes) \div 4 + next[t]

\* SieveSlabFlushWord_: a full word at once, the bytes of the last word, or of
\* any word of an unaligned slab, as far as the slab goes.
Flushed(t) ==
  LET base == 4 * (GlobalWord(t) - next[t])
      marks == {<<base + bit[1], bit[2]>> :
                  bit \in {x \in stage[Block(t)] : Word(x) = next[t]}}
  IN IF aligned /\ GlobalWord(t) < FullWords THEN map \ marks
     ELSE map \ {bit \in marks : bit[1] < BufMin(slab)}

Flush(t) ==
  /\ pc[t] = "flush"
  /\ IF next[t] >= StageWords
     THEN Goto(t, "flushed", 0) /\ UNCHANGED map
     ELSE /\ map' = Flushed(t)
          /\ Goto(t, "flush", next[t] + ThreadsPerBlock)
  /\ UNCHANGED <<slab, aligned, ph, stage>>

-----------------------------------------------------------------------------
(* The barriers, and the launch *)

Lanes(b) == {t \in Threads : Block(t) = b}

\* All threads of a block pass a barrier together.
MutPass(b, at, to) ==
  /\ \E t \in Lanes(b) : pc[t] = at
  /\ pc' = [t \in Threads |-> IF t \in Lanes(b) /\ pc[t] = at THEN to ELSE pc[t]]
Pass(b, at, to) ==
  /\ \A t \in Lanes(b) : pc[t] = at
  /\ pc' = [t \in Threads |-> IF t \in Lanes(b) THEN to ELSE pc[t]]

Barrier(b) ==
  /\ \/ /\ Pass(b, "zeroed", "cut")
        /\ UNCHANGED <<ph, next>>
     \/ /\ Pass(b, "marked", "flush")
        /\ next' = [t \in Threads |-> IF t \in Lanes(b) THEN Lane(t) ELSE next[t]]
        /\ UNCHANGED ph
     \/ /\ Pass(b, "flushed", "phase")
        /\ ph' = [t \in Threads |-> IF t \in Lanes(b) THEN ph[t] + 1 ELSE ph[t]]
        /\ UNCHANGED next
  /\ UNCHANGED <<slab, aligned, stage, map>>

Thread(t) == Start(t) \/ Phase(t) \/ CutPrime(t) \/ LargePrime(t) \/ Flush(t)

Done == (\A t \in Threads : pc[t] = "exit") /\ UNCHANGED vars

Next == (\E t \in Threads : Thread(t)) \/ (\E b \in Blocks : Barrier(b)) \/ Done

Spec == Init /\ [][Next]_vars

-----------------------------------------------------------------------------
(* Properties *)

\* When the launch is over the slab's bits are those of its primes, none
\* missing and none to spare, in whatever order threads and blocks ran; on the
\* way there no bit of a prime is ever cleared (sieve_slab_kernel.h:15-30,
\* 62-97).
SlabPrimes ==
  {bit \in (0 .. BufMin(slab) - 1) \X Residues :
     LET v == slab.lo + 30 * bit[1] + bit[2] IN v < slab.hi /\ v \in Primes}
SlabIsSieved ==
  /\ SlabPrimes \subseteq map
  /\ (\A t \in Threads : pc[t] = "exit") => map = SlabPrimes

\* Two threads that flush at the same time, of one block or of two, are never
\* at the same word of the slab, so that the plain read and write of a word
\* loses nothing (sieve_slab_kernel.h:79-85).
Flushing == {t \in Threads : pc[t] = "flush" /\ next[t] < StageWords}
WordsHaveOneOwner ==
  \A t, u \in Flushing : GlobalWord(t) = GlobalWord(u) => t = u
=============================================================================
