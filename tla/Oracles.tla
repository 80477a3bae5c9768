------------------------------ MODULE Oracles ------------------------------
(***************************************************************************)
(* The slab sieve and the readers of what it leaves: a launch of            *)
(* SieveKernel over the last slab of a map whose other slabs are sieved,    *)
(* the map as the slab is put into it, and the answers of the three oracles *)
(* of Wheel about it and about numbers past its end.                        *)
(***************************************************************************)
EXTENDS SieveKernel, Wheel

CONSTANTS
  SlabSizeBytes,    \* bytes of a slab, all but the last one of a map
  Top               \* largest number asked about

ASSUME OraclesAssumption ==
  /\ SlabSizeBytes \in Nat \ {0} /\ SlabSizeBytes % 8 = 0
  /\ Top \in Nat /\ Top < R
  /\ \A s \in Slabs : s.lo % (30 * SlabSizeBytes) = 0 /\ s.hi % 16 = 0 /\ s.hi <= R

IsPrime(n) == n >= 2 /\ \A d \in 2 .. n - 1 : d * d > n \/ n % d # 0

SlabBase == slab.lo \div 30
OtherSlabs == {b \in (0 .. SlabBase - 1) \X (0 .. 7) :
                 IsPrime(30 * b[1] + WheelResidues[b[2] + 1])}

\* A residue is at the position the kernel has a mask for.
BitPosition(r) == CHOOSE i \in 0 .. 7 : WheelResidues[i + 1] = r

\* The slab where the device keeps it, and where deviceWorker copies it to: at
\* the canonical byte of its first value.
InternalMap ==
  OtherSlabs \union {<<SlabBase + b[1], BitPosition(b[2])>> : b \in map}
PackedMap ==
  {<<(((b[1] \div SlabSizeBytes) * SlabSizeBytes) \div 8) * 15 + (b[1] % SlabSizeBytes),
     b[2]>> : b \in InternalMap}

\* The launch is over and its slab is in the map.
LaunchIsOver == \A t \in Threads : pc[t] = "exit"

\* All three readers tell the primes of the map from its bits, for every number
\* up to its end, the ones the layouts have no bit for included; and the
\* canonical form loses nothing of the map (wheel_verdict.h:4-7,
\* gpu_search_kernel.h:306-323, gpu_prime.cpp:13-22, geometry.h:45-70).
MapTellsPrimes ==
  LaunchIsOver =>
    LET last == slab.hi - 1
        internal == InternalMap
        packed == PackedMap
        canonical == ExpandWheel30ToCanonical(internal, slab.hi)
    IN /\ \A n \in 0 .. last :
            /\ DevIsPrime(n, internal, last) = IsPrime(n)
            /\ GpuPrimeIsPrime(n, canonical, last) = IsPrime(n)
            /\ Wheel30VerdictIsPrime(n, packed, SlabSizeBytes) = IsPrime(n)
       /\ CompactCanonicalToWheel30(canonical, slab.hi) = internal

\* Past the end of the map the device, in Montgomery arithmetic, and the host,
\* without, both tell the primes by Miller-Rabin (gpu_search_kernel.h:254-322,
\* gpu_prime.cpp:13-22).
MillerRabinTellsPrimes ==
  LaunchIsOver =>
    LET last == slab.hi - 1
        internal == InternalMap
        canonical == ExpandWheel30ToCanonical(internal, slab.hi)
    IN \A n \in slab.hi .. Top :
         /\ DevIsPrime(n, internal, last) = IsPrime(n)
         /\ GpuPrimeIsPrime(n, canonical, last) = IsPrime(n)
=============================================================================
