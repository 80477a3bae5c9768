----------------------------- MODULE PrimeCache -----------------------------
(***************************************************************************)
(* The small-prime cache of poolSlabComputeAsync                            *)
(* (source/sieve_slab_engine.cpp:434-473).  The kernels of a slab read the  *)
(* sieving primes from device memory; the call uploads them when the cached *)
(* copy is not its device's.  The cache is three static variables of a      *)
(* translation unit, one unit for each GPU vendor, without a lock, and the  *)
(* owner threads of all the devices call in at the same time.               *)
(*                                                                          *)
(* Every statement that touches the cache is a step.  The primes themselves *)
(* are the same for all calls of a run.                                     *)
(***************************************************************************)
EXTENDS Integers, FiniteSets

CONSTANTS
  Devices,      \* the logical devices, each with its owner thread
  Units,        \* the translation units
  Calls,        \* home slabs each thread computes
  NoDevice,
  Faults        \* runtime calls that may fail: "malloc", "copy"

ASSUME CallsAssumption == Calls \in Nat
ASSUME DevicesAssumption == IsFiniteSet(Devices)
ASSUME SentinelAssumption == NoDevice \notin Devices
ASSUME FaultsAssumption == Faults \subseteq {"malloc", "copy"}

\* Device allocations are numbered; 0 is the null pointer.
Null == 0
Blocks == 1 .. Calls * Cardinality(Devices)

VARIABLES
  unitOf,       \* unitOf[d]: the unit whose code drives device d, never changed
  ptr,          \* ptr[u]: g_dPrimes
  counted,      \* counted[u]: g_dPrimeCount is the caller's numPrimes
  vendor,       \* vendor[u]: the device of g_primeVendor
  block,        \* block[b]: the device an allocation is on, its state
  pc,           \* pc[d]: where d's thread is in the call
  left,         \* left[d]: calls it has still to make
  reading       \* reading[d]: blocks the kernels running on d read

cacheVars == <<unitOf, ptr, counted, vendor, block, pc, left, reading>>

cache == <<ptr, counted, vendor>>

BlockStates == {"unused", "garbage", "primes", "freed", "freedTwice"}

CacheTypeOK ==
  /\ unitOf \in [Devices -> Units]
  /\ ptr \in [Units -> Blocks \union {Null}]
  /\ counted \in [Units -> BOOLEAN]
  /\ vendor \in [Units -> Devices \union {NoDevice}]
  /\ block \in [Blocks -> [on : Devices \union {NoDevice}, is : BlockStates]]
  /\ pc \in [Devices -> {"check", "free", "clear", "malloc", "copy",
                         "count", "vendor", "launch", "stopped", "uploadFailed"}]
  /\ left \in [Devices -> 0 .. Calls]
  /\ reading \in [Devices -> SUBSET (Blocks \union {Null})]

CacheInit ==
  /\ unitOf \in [Devices -> Units]
  /\ ptr = [u \in Units |-> Null]
  /\ counted = [u \in Units |-> FALSE]
  /\ vendor = [u \in Units |-> NoDevice]
  /\ block = [b \in Blocks |-> [on |-> NoDevice, is |-> "unused"]]
  /\ pc = [d \in Devices |-> "check"]
  /\ left = [d \in Devices |-> Calls]
  /\ reading = [d \in Devices |-> {}]

Cached(d) == ptr[unitOf[d]]

Goto(d, step) == pc' = [pc EXCEPT ![d] = step]

\* Is the cached copy this device's?
MutHit(d) ==
  /\ Cached(d) # Null
  /\ counted[unitOf[d]]
Hit(d) ==
  /\ Cached(d) # Null
  /\ vendor[unitOf[d]] = d
  /\ counted[unitOf[d]]

Check(d) ==
  /\ pc[d] = "check" /\ left[d] > 0
  /\ Goto(d, IF Hit(d) THEN "launch" ELSE
             IF Cached(d) # Null THEN "free" ELSE "malloc")
  /\ UNCHANGED <<unitOf, cache, block, left, reading>>

\* hipFree waits for the kernels of the device the memory is on.
MutFreeStale(d) ==
  /\ pc[d] = "free"
  /\ Goto(d, "clear")
  /\ UNCHANGED <<unitOf, cache, block, left, reading>>
FreeStale(d) ==
  /\ pc[d] = "free"
  /\ IF Cached(d) = Null THEN UNCHANGED block
     ELSE /\ \A e \in Devices : block[Cached(d)].on = e => reading[e] = {}
          /\ block' = [block EXCEPT ![Cached(d)].is =
               IF @ \in {"freed", "freedTwice"} THEN "freedTwice" ELSE "freed"]
  /\ Goto(d, "clear")
  /\ UNCHANGED <<unitOf, cache, left, reading>>

Clear(d) ==
  /\ pc[d] = "clear"
  /\ ptr' = [ptr EXCEPT ![unitOf[d]] = Null]
  /\ Goto(d, "malloc")
  /\ UNCHANGED <<unitOf, counted, vendor, block, left, reading>>

Malloc(d) ==
  /\ pc[d] = "malloc"
  /\ \/ \E b \in Blocks :
          /\ block[b].is = "unused"
          /\ \A c \in Blocks : block[c].is = "unused" => b <= c
          /\ block' = [block EXCEPT ![b] = [on |-> d, is |-> "garbage"]]
          /\ ptr' = [ptr EXCEPT ![unitOf[d]] = b]
          /\ Goto(d, "copy")
     \/ "malloc" \in Faults /\ Goto(d, "stopped") /\ UNCHANGED <<unitOf, ptr, block>>
  /\ UNCHANGED <<unitOf, counted, vendor, left, reading>>

\* The upload goes to whatever block the static points to by now; to memory
\* that is not allocated it fails.  The call returns, and leaves the block under
\* the identity of the device before.
Copy(d) ==
  /\ pc[d] = "copy"
  /\ LET usable == Cached(d) # Null /\ block[Cached(d)].is \in {"garbage", "primes"}
     IN \/ /\ usable
           /\ block' = [block EXCEPT ![Cached(d)].is = "primes"]
           /\ Goto(d, "count")
        \/ /\ ~usable \/ "copy" \in Faults
           /\ Goto(d, "uploadFailed")
           /\ UNCHANGED block
  /\ UNCHANGED <<unitOf, cache, left, reading>>

SetCount(d) ==
  /\ pc[d] = "count"
  /\ counted' = [counted EXCEPT ![unitOf[d]] = TRUE]
  /\ Goto(d, "vendor")
  /\ UNCHANGED <<unitOf, ptr, vendor, block, left, reading>>

MutSetVendor(d) ==
  /\ pc[d] = "vendor"
  /\ Goto(d, "launch")
  /\ UNCHANGED <<unitOf, cache, block, left, reading>>
SetVendor(d) ==
  /\ pc[d] = "vendor"
  /\ vendor' = [vendor EXCEPT ![unitOf[d]] = d]
  /\ Goto(d, "launch")
  /\ UNCHANGED <<unitOf, ptr, counted, block, left, reading>>

\* The kernel is given g_dPrimes as it is at the launch.
Launch(d) ==
  /\ pc[d] = "launch"
  /\ reading' = [reading EXCEPT ![d] = @ \union {Cached(d)}]
  /\ left' = [left EXCEPT ![d] = @ - 1]
  /\ Goto(d, "check")
  /\ UNCHANGED <<unitOf, cache, block>>

KernelsEnd(d) ==
  /\ reading[d] # {}
  /\ reading' = [reading EXCEPT ![d] = {}]
  /\ UNCHANGED <<unitOf, cache, block, pc, left>>

ComputeSlab(d) ==
  \/ Check(d) \/ FreeStale(d) \/ Clear(d) \/ Malloc(d) \/ Copy(d)
  \/ SetCount(d) \/ SetVendor(d) \/ Launch(d)

\* A call that fails returns -1 and the scheduler's worker leaves.
Returned(d) == pc[d] \in {"stopped", "uploadFailed"} \/ (pc[d] = "check" /\ left[d] = 0)

Idle == (\A d \in Devices : Returned(d) /\ reading[d] = {}) /\ UNCHANGED cacheVars

CacheNext == (\E d \in Devices : ComputeSlab(d) \/ KernelsEnd(d)) \/ Idle

CacheSpec == CacheInit /\ [][CacheNext]_cacheVars

\* The calls into each unit made one after another, as a lock around them would.
\* Kernels go on running between them.
InCall(d) == pc[d] \notin {"check", "stopped", "uploadFailed"}
OneAtATime ==
  \A d, e \in Devices : InCall(d) /\ InCall(e) /\ unitOf[d] = unitOf[e] => d = e

SerialSpec == CacheInit /\ [][CacheNext /\ OneAtATime']_cacheVars

-----------------------------------------------------------------------------
(* Properties *)

\* A device that has its translation unit to itself.
Alone(d) == \A e \in Devices \ {d} : unitOf[e] # unitOf[d]

ReadsItsPrimes(d) ==
  \A b \in reading[d] : b # Null /\ block[b] = [on |-> d, is |-> "primes"]

\* A kernel reads primes that are uploaded, on its own device, and not freed
\* before it ends (pull_scheduler.cpp:192, sieve_slab_engine.cpp:452-454).
KernelsReadTheirPrimes == \A d \in Devices : ReadsItsPrimes(d)

\* With the calls made in turn they do as long as no upload has failed, however
\* often the cache changes hands and whatever other calls fail.  A failed upload
\* leaves its block under the identity of the device before, whose next call
\* hits (sieve_slab_engine.cpp:456-461).
MisledByFailedUploadOnly ==
  (\A d \in Devices : pc[d] # "uploadFailed") => KernelsReadTheirPrimes

\* It does on a device that no other shares the cache with, and there the
\* primes are uploaded once and reused for every slab: the device is never
\* given a second block (sieve_slab_engine.cpp:434).
LoneDeviceKeepsItsPrimes ==
  \A d \in Devices : Alone(d) =>
    /\ ReadsItsPrimes(d)
    /\ \A b, c \in Blocks : block[b].on = d /\ block[c].on = d => b = c

\* However often the cache changes hands between the devices of a unit, and
\* whichever call fails in between, no block is freed twice and one at most is
\* left allocated: the next owner frees what the last one left
\* (sieve_slab_engine.cpp:456).
Held(u) == {b \in Blocks : /\ block[b].is \in {"garbage", "primes"}
                           /\ unitOf[block[b].on] = u}
OneBlockHeld ==
  /\ \A b \in Blocks : block[b].is # "freedTwice"
  /\ \A u \in Units : \A b, c \in Held(u) : b = c
=============================================================================
