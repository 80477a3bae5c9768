# ff-gpu in TLA+

ff-gpu finds, for every odd sum of a range, whether Freudenthal's sum-and-product riddle has an
answer with that sum.  It sieves a prime map on all the GPUs of the machine, searches the sums on
one of them, and falls back to the CPU.  This directory holds TLA+ models of its control, the TLC
configurations that check them on small instances, and proofs checked by TLAPS.  All paths
below are relative to the repository's `source/` unless they say otherwise.

## 1. Inventory

| Part | Code | State it keeps | Operations | What is hard in it |
|---|---|---|---|---|
| Leg driver | `main.cpp` `runLeg` | device list, host map and its layout, device buffers, `residency` | one leg: enumerate, gate, plan, sieve, search on GPU, fall back, dump | every call can fail; two owners of device memory; the map's layout changes in place in a background thread |
| Pull scheduler | `pull_scheduler.cpp` 1-652 | `Shared`: slab counter, tickets, flag, per-device buffers, streams, events | `runPullScheduler`, `deviceWorker`, `releasePullScheduler` | a thread per device, two asynchronous streams each, relays from one device to another's stream, failures half-way |
| Cap and home assignment | `pull_scheduler.cpp` 61-160 | `homeCount`, `homeBase`, `cap` | `assignHome`, `assignCaps` | rounding of shares, termination of the top-ups |
| Small-prime cache | `sieve_slab_engine.cpp` 434-473 | `g_dPrimes`, `g_dPrimeCount`, `g_primeVendor` per vendor | `poolSlabComputeAsync` | unsynchronised globals under concurrent owners |
| Canonical expansion | `pull_scheduler.cpp` 654-1025 | work items, arena, counter | `expandSieveMapToCanonical` | in-place widening by several threads; last group and last slab are partial |
| GPU search | `m4/gpu_search_kernel.{h,cpp}`, `m4/gpu_search_launcher.cpp`, `m4/gpu_search_emission.cpp` | work counter, answer count, record slots | launch, kernel, emit | work stealing, state that survives a launch, ordered output from unordered work |
| CPU search | `cpu_search.cpp` | per-chunk buffers | `RunIt` | chunk bounds in doubles, ordered output from unordered threads |
| Freudenthal predicates | `cpu_search.cpp` 28-257 and the device twins in `gpu_search_kernel.h` | none | sum -> answer | factor enumeration with early exits |
| Slab sieve kernel | `sieve_slab_kernel.{h,cpp}` | shared stage, slab map | one launch per slab | barriers between clear, mark, flush; word and byte tails |
| Wheel-30 codecs | `geometry.cpp`, `m4/wheel_verdict.h` | none | expand, compact, decode | reciprocal division, bit ranks, the packed placement of a slab, partial bytes |
| Sieve engine | `sieve_engine.cpp`, the rest of `sieve_slab_engine.cpp` | prime list, pool handles | `prepare`, single-device run, pool ops | thin wrappers over HIP |
| Device abstraction | `devabstraction.cpp`, `hip_devabstraction.cpp` | bus map, overrides | `DevInit`, `DevForceBackendForBus`, `Dev*` | one-time remap of indices, cached; two runtimes that number cards differently; calls that select no device |
| Enumeration, registry | `hip_enum.cpp`, `device_registry.cpp` | none | enumerate, merge | one card seen by two runtimes |
| Budget, configuration | `budget.cpp`, `config.cpp` | `Config` | load weights, parse, validate, budgets, gate | options that override one another, in any order; floors and limits |
| Geometry | `geometry.cpp` | none | leg -> byte counts | 64-bit bounds |
| Host primality | `gpu_prime.cpp` | none | `IsPrime` | 64-bit modular arithmetic |
| Benchmarks, smoke, tests, reference programs | `m0_benchmark.cpp`, `smoke/`, `../test`, `../reference` | - | - | not part of the program |

How they interact.  `runLeg` calls everything else.  It passes the scheduler a host buffer and,
when the GPU search will run on a device that holds the whole map, the wish to keep that device's
copy (`residencyDev`).  The scheduler calls the engine's pool operations through function tables,
one table per vendor; the pool's compute call goes through the prime cache.  It returns the host map
in the *wheel layout*, and possibly a `PullMapResidency` that owns the scheduler's memory until
`releasePullScheduler`.  The GPU search reads the device's map and its emission the host map in the
wheel layout; the dump and the CPU search read the *canonical layout*, produced in place by the
expansion on a thread of its own.  No part catches another's failure by exceptions: a non-zero
code either ends the leg or sends it to the CPU.  Everything a leg is given (devices, budgets, slab size, weights) comes from the command line, the
weights file and the enumeration.

What makes each part correct:

* scheduler: each slab is pulled once; no slab is copied before it is sieved; a successful return
  means a complete and quiescent map; the hand-over is final; nothing leaks or is freed under a copy;
  it returns.
* assignment: caps cover the map and follow the weights; the footprint fits; regions line up.
* prime cache: a kernel reads its own device's primes from live memory; no block of primes is left behind or freed twice.
* expansion: no source byte is overwritten before it is read, no byte is written twice or outside its
  window, the result is canonical.
* both searches: each answer printed once, in ascending order, or nothing at all (decline).
* Freudenthal test: a sum is printed exactly when the riddle has one solution with it, and the tables
  and the prime list are long enough for the walk.
* slab sieve kernel: what is left of the primed slab is its primes, whatever order threads and blocks run in.
* device abstraction: a bus keeps pointing at its card, a handle at its object, however enumerations fail; each backend is
  enumerated a bounded number of times.
* command line, budget and plan: what a device is given fits the memory the user allowed, and no sequence of options leads to
  a plan the scheduler was not written for.
* wheel codecs and the three readers of the map (device, emission, host): they agree with primality, inside the map and past it.
* leg: one of the searches prints the answers, or the leg ends with an error and nothing printed;
  every buffer is freed once; every reader finds the layout it reads.

`PROJECT.json` lists the hazards at their lines with the properties that would catch them.

## 2. Modules

| Module | Models | Composition |
|---|---|---|
| `SlabSieve` | promise of the scheduler: slabs become final in any order, success only when all are | abstract specification |
| `PullScheduler` | `runPullScheduler`, `deviceWorker`, streams | implements `SlabSieve` |
| `PullSchedulerInv` | inductive invariants | extends `PullScheduler` |
| `PullSchedulerProofs` | theorems | extend `PullSchedulerInv` |
| `CommandLine` | `loadPullWeights`, `parseArgs`, `validateConfig`, the dispatch of `main` | composed by `SlabPlan` |
| `SlabPlan` | `runLeg` up to the sieve, `computeBudget`, `computeLegGeometry` | composes `CommandLine` and `Assignment`; what the scheduler and `Leg` are called with |
| `SlabPlanProofs` | theorems | extends `SlabPlan` and `ListLemmas` |
| `Assignment` | `assignHome`, `assignCaps`, the owner table | discharges `CapAssumption` and `OwnerAssumption` of `PullScheduler` |
| `DeviceLayer` | `devabstraction.cpp`, `hip_devabstraction.cpp`, enumeration and merge | stands alone: the leg takes a device for what it is |
| `DeviceLayerProofs` | theorems | extends `DeviceLayer`, `PrimeCache` and `ListLemmas` |
| `PrimeCache` | `poolSlabComputeAsync` | refines the scheduler's atomic `Compute` |
| `SieveKernel` | `SIEVE_SLAB_KERNEL` on one primed slab | what `PullScheduler` takes as `KernelDone` and `Stage` |
| `Wheel` | `geometry.cpp`'s codecs, `wheel_verdict.h`, `dev_IsPrime`, `GpuPrime` | operators without state |
| `SieveProofs` | theorems | extends `Oracles` and `ListLemmas` |
| `Oracles` | the readers of what a launch leaves | composes `SieveKernel` and `Wheel` |
| `OrderedSearch` | promise of a search: the answers in order, or nothing | abstract specification |
| `CpuSearch` | `RunIt` | composed by `Fallback` |
| `GpuSearch` | launch protocol, kernel threads, emission | composed by `Fallback` |
| `Fallback` | the search phase of `runLeg` | composes `GpuSearch` and `CpuSearch`; implements `OrderedSearch` |
| `FallbackProofs` | theorems | extends `Fallback` and `ListLemmas` |
| `Freudenthal` | the test of one sum, as the CPU and as the GPU do it | what the searches take as `Answered` and `Solved` |
| `Leg` | `runLeg` from the sieve on, on a device list of its own | uses the promises of scheduler and searches; implements `OrderedSearch` |
| `LegProofs` | theorems | extends `Leg`, `Freudenthal` and `ListLemmas` |
| `ListLemmas` | lemmas on quotients, ranks, ascending lists, factors and primes | extended by proofs |
| `Expansion` | `expandSieveMapToCanonical` | what `Leg` takes as `StartExpansion` .. `EndExpansion` |
| `ExpansionProofs` | theorems | extends `Expansion` and `ListLemmas` |
| `MC*` | instances for TLC | |

Operators named `Mut...` stand before the definition they deviate from.  Each is that definition
with a plausible mistake; substituting it must break the property `PROJECT.json` pairs it with, which
shows that the property depends on that line of the code.  No specification uses them.

### State and actions against the code

**PullScheduler.**  `phase`, `todo`, `residencyActive`, `valid`, `ret` are the main thread's position,
its loop variable, and its outputs; `held[d]` the non-null pointers of `PerDevice`; `slots`, `nextSlab`
the two atomics; `pulls` a history counter.  Each call a worker makes into the pool is an action
(`pc` names the next one), because other workers, the streams and failures can come in between.
A stream is the sequence enqueued so far and how much of it has completed; an event is a position in
the compute stream (`mark`), so waiting for an event that was recorded earlier, or never, is expressed by
the position it holds.  Slab contents are `none/primed/sieved` on the device and `empty/raw/final` on the
host.  A synchronous copy, and a null stream, wait for the whole device (`Drained`,
`ImplicitGate`), as the legacy default stream does.  `SetupFails` leaves any prefix of the allocations, which is
what `teardown` then finds.  Copies out of a pageable host map (`main.cpp:496`; `sieve_slab_engine.h:84` notes
that asynchronous copies want pinned memory) may in fact complete before the enqueue returns; the model lets
them complete at any later time, which includes that.  A failing `syncEvent` in the fence followed by the teardown
is not counted as a free under a copy: `hipFree` waits for the device.

**CommandLine.**  `stage` is the function that runs next, `cfg` the `Config` and `positionals` the rest.  What a text parses to as a size, a fraction, a
number or a specification is a table of the instance (`Size`, `Fraction`, `Number`, `FractionSpec`, `WeightSpec`); a text missing from a table does not
parse.  Fractions are percentages.  A bare option takes the next argument, whatever it looks like, as the loop does.

**SlabPlan.**  One action per step of `runLeg` that can refuse the leg: filters, budgets, narrowing by `--sieve-device`, the capacity gate, the scheduler's own check.  `Machines`
are what an enumeration can return (its failures are `Leg`'s and `DeviceLayer`'s).  Memory is in bytes with the constants of `budget.cpp` scaled down, the chain
from the sums to the map's bytes is the code's.  No residency hand-off is planned here: with one, a device backs the whole map as well, and `Leg` decides who may.

**Assignment.**  A share is `numSlabs * part / total`, held as an exact numerator.  The double arithmetic
shows in two places: equal remainders may compare either way (any of them is chosen), and a cap whose share is
a whole number may come out one lower (`FloorCaps`).  That weights are positive and every
device backs at least one slab is what `PlanIsLegal` of `SlabPlan`, which makes the call, says.  Sums are recursive functions (`PartialSums`), so that proofs can use them.

**PrimeCache.**  One step per statement that touches the globals: with two owners of one vendor this is
a data race, so a step sees whatever another left.  `unitOf[d]` is the translation unit (vendor) that drives device `d`; `CacheInit` takes every
assignment.  `hipFree` waits for the kernels of the memory's device.  Two specifications: `Spec`, where the owner threads' calls overlap as they do in the program, and `SerialSpec`, where
the calls of one unit are made in turn (`OneAtATime`, what a lock around the function would give) while the kernels launched by earlier calls still run.

**SieveKernel.**  A stage or a map is the set of its bits that are set; a bit is a byte and a residue modulo 30.  A walk of
one prime is one step, since its marks are atomic ors that commute; so is a thread's share of clearing the stage, and the flush of one word.
The three barriers are `Barrier`.  The shared stage starts with arbitrary contents (`garbage`).  The priming by the owner of the slab
(`pull_scheduler.cpp:472-508`) is the initial map; `aligned` is the code's `wordOk`.

**Wheel, Oracles.**  A machine word has `R` values; the code's 2^64 is 2^12 in the run, with the reciprocal the same formula gives (`30 * Magic = 16 * R + 14`).  A map
is the set of its bits that are set.  Miller-Rabin has the witnesses 2, 3, 5 and 7, enough below 3215031751.  `Oracles` runs the sieve kernel on the last slab of a map,
puts it where the device and where `deviceWorker` keep it, expands it, and asks all three readers.

**DeviceLayer.**  `busMap`, `devs` and `enums` are the globals; `current` is the current device of the calling thread in each runtime.  A handle carries what the code stores in it
(`device`, `backend`, `index`) and, as a history variable, the `place` its object really lives at; `stray` collects the calls that missed their object.  An enumeration can
succeed, fail, or stop half-way.  The pool's operations select a device and leave it selected (`PoolOp`).

**CpuSearch.**  Chunk bounds are the exact quotients; a bound `c*delta + .5` and its neighbour's `(c+1)*delta - .5` come from
the same double, so rounding can move a boundary and not open a gap.  The Freudenthal test is the set `Answered`.

**GpuSearch.**  One action per atomic operation or memory write of a thread, `Solved` for the test it applies.
`Again` is a process that launches twice, as the tests under `../test` do; `left` counts the launches still to come.

**Fallback.**  A leg is tried on the GPU or not; a GPU search that declines is followed by `RunIt` over the whole range.  What a grid that is gone leaves behind is reset at the
hand-over, which keeps the states of the CPU search apart from it.

**Freudenthal.**  One step per turn of a loop: of the pair loops of the phases (`Pair`, `CompositePower`) and of the factor loop of a trial (`Factor`).
`side` selects the CPU's or the GPU's version; they differ in the list of small primes, the index they start from, and the
sizes of the tables.  The test of a product's first two pairs (`Plausible`) belongs to the turn that starts the trial.  `Power2Prime` is one step: its loop has no other
state.  The first power of a phase (`FirstPower`) is exact, where `5u << power2` and `3u << power2`
(`cpu_search.cpp:184`, `234`) are of 32 bits and wrap for sums from about 2.68 * 10^9 on, whose map fits no memory.  Primality is exact: that the readers tell it is `MapTellsPrimes`.  Powers of two are the recursive function `TwoTo`, so that proofs can use them.  The
CPU's decision that Sammy is sure rests on Goldbach's conjecture, which the comment at `cpu_search.cpp:47` cites; `Goldbach` states it for the numbers of the leg.

**Leg.**  One action per call of `runLeg` that changes state or can fail; `Configs` are command lines.  The scheduler, the
searches and the expansion are their promises.  The fault `d2h` is the copy of the answers whose result `main.cpp:924` drops (`AnswersLost`).  `filled` is what has reached the device of the kernel's input.
`selectSearchDevice` is called twice with the same inputs, so the planned device is the searching one whenever both exist.

**Expansion.**  Bytes are positions; a byte is an intact source, a canonical byte, or neither.  Geometry (`Offset`, `Base`,
`Values`, tiles) is computed as in the code, in exact arithmetic; the list of items, which the code pushes slab by slab, is given by position (`Items`).

## 3. Runs

| Run | Instance | Shows |
|---|---|---|
| `pull_faults` | 4 slabs (2 home on d1, 1 on d2, 1 homeless), 2 pulls each, residency on d1; allocations, launches, waits, enqueues and copies fail | no early copy, success is complete, the hand-off is final, no free under a copy, quiet after return; with fairness, implements `SlabSieve` and so returns |
| `pull_all_faults` | 3 slabs, every kind of call may fail, unchecked ones too | pulled once, nothing leaks, one pending producer per slab |
| `assign_caps_homes` | every command line of up to 4 arguments out of 24, three weights files, 5 machines of 1-3 devices, legs with maps of 8, 22 and 86 bytes | the memory granted fits the memory allowed; only legal plans reach the scheduler; caps, regions, termination |
| `device_calls` | 3 cards of which a backend reports 2 at most, three ways the runtimes can see them, 2 live handles, 1 override | a bus points at its card, a buffer stays on it, calls reach their objects |
| `cache_calls` | 3 devices of one vendor or of two, 3 calls each, in turn within a unit; allocations and uploads fail | a device alone on its cache reads its own primes, uploaded once; one that shares it reads its own, live, until an upload fails; a unit holds one block, the cached one |
| `cache_race` | 2 devices, 2 calls each, which overlap | violated: a kernel reads another device's or freed primes |
| `sieve_slab` | blocks of 2 threads and 16 bytes, 2 phases, slabs of 32, 14 and 3 bytes, aligned or not; words of 12 bits, numbers up to 2800 | the slab is sieved exactly; no word has two owners; the three readers tell the primes from the map and lose nothing of it; past its end Miller-Rabin tells them |
| `search_fallback` | a grid of 3 threads on 4 sums, 1-2 launches, failing calls, 2 CPU threads to take over; and all ranges from 5-6 to 7-21 on 1-4 CPU threads, at least one sum per chunk | drawn once, chunks tile; with fairness, the phase as a whole implements `OrderedSearch` and never declines |
| `freudenthal_sums` | every odd sum of the leg 257, CPU and GPU | each trial and each verdict are the riddle's; the list of primes lasts; the tables suffice |
| `leg_faults` | 3 devices (one that cannot search), 3 slabs, 10 command lines, every checked call failing, and the unchecked copy of the answers | kernel input complete and alive, right layout, freed once; with fairness, implements `OrderedSearch` |
| `expand_pool` | map of 139 bytes: two tiled slabs and a partial one, 2 threads, arena or not | canonical, no shared bytes, in the window |
| `expand_last_group` | map of 14 bytes (leg 57) | violated: a write past the end of the map |

Why these bounds are enough to be interesting.  Two devices give every kind of pull (home, foreign in both
directions, homeless) at the same time, and two pulls on one device give a stream with an earlier event on
it, which is what a wrong gate needs.  Four arguments are a leg (one or two of them) with any two or three options, so that an option meets each of those that override or contradict it, and the machines give devices with too little memory for a slab,
with no home slab, with a fractional one and with more than their share; a leg fits one device, needs several, needs the host tier, or does not fit.
The two runtimes see disjoint cards, the same cards in another order, or a part of each other's, and one sees a card more than `MaxDevices`; two handles are what the calls with two objects take.  Two cache calls give a miss and a hit, and between two devices every overlap of their statements.  With three calls in turn a device comes back to a cache that another has refilled; a third device has the other unit to itself, or frees the block of a failed upload that the cache holds under another's identity.
The sieve's 1376 values have nine marking primes on both sides of the cut (7 and 11; 13 to 37), so that threads have several primes each in both passes; its slabs
are a full one of two blocks, a last one that ends in a partial word of a block's second phase with a whole block past its end, and a map shorter than one word that ends inside a byte.
Ranges up to 17 sums and four threads give chunks of 1 to 8 sums with every remainder.  The grid has a leader (the thread that marks the launch), two more threads and
more sums than threads; the second launch is where state that survived the first would show.  The leg 257 has eleven sums with one solution
(17, 65, 89, 127, 137, ...), and sums with none and with several; a map lookup for it reaches values of over 8000.
The leg's ten command lines cover each branch of the gate, the plan and the filters.  The expansion's small tiles (16 bytes for the code's 64 MiB) keep the ratio of 8 bytes per group, so that
a slab has two tiles, a tile two groups and the last slab a partial group; the size avoids 14 modulo 15, which `expand_last_group` is about.
The words of 12 bits hold every number asked about, half of them past the map, where Miller-Rabin answers; sums that wrap the word occur from 2048 on.
No run declares a symmetry set: many check liveness, where symmetry is unsound, and the others are small enough without one.

The faults `h2d` of `Leg`, and `record`, `event`, `stream`, `fence` of `PullScheduler`, are left out of the passing runs
whose properties the code does not keep under them; so are narrow chunks and maps of one byte.  The next subsection says for each what happens.

Each run checks the properties that say something of the code.  The type invariant of `PullScheduler` is checked and proved; that of `PrimeCache` (`CacheTypeOK`), `EnumerationsAreBounded`
of `DeviceLayer` and `CountMatchesRecords` of `GpuSearch` are proved and in no run's list; and those of `CpuSearch`, `GpuSearch`, `Fallback`, `Leg` and `Expansion` are stated in their modules and are in no run's list.

### Where the code and what is said of it part

Two runs show a violation, recorded under `findings`:

1. `cache_race`: two devices of one vendor share the prime cache without a lock.  The machine the program is written for has one per vendor.
2. `expand_last_group`: when the canonical map is 14 bytes modulo 15 its last group is a full one and writes one byte too many
   (`pull_scheduler.cpp:760`, `861`).

Others are kept out of the passing runs.  TLC reports each when the run's configuration is changed as said:

* The result of `recordEvent` is dropped (`pull_scheduler.cpp:200`).  With `Faults = {"record"}` in `pull_faults`, `HandOffIsFinal` is violated: a copy gates on an older
  record of the event, or on none, and an unsieved slab reaches the map of a successful call, where the comment at 602-605 says that each copy was enqueued behind its compute-end event.
* The fence skips a device without an event (`pull_scheduler.cpp:577`), whose creation is not checked (542), although other devices may have queued copies on its stream.  With `{"event"}`,
  `SuccessIsComplete` is violated.  A missing stream is alike.
* A fence that fails makes the call fail, and teardown then meets copies still queued: with `{"fence"}`, `NoFreeUnderCopy` is violated, though `hipFree` waits for the device.
* Results of host-to-device copies are dropped (`main.cpp:783-838`): with `{"h2d"}` in `leg_faults`, `KernelReadsFilledMap` is violated.
* `frontPrev` and `backPrev` (`cpu_search.cpp:452-466`) are set and never read: chunks narrower than one sum share it and an answer is printed twice (sums 5 to 9 on four threads).  With
  `Inputs <- Narrow` in `search_fallback`, `ImplementsSearch` is violated.
* The padding of a slab's last byte is primed after the value 1 is cleared (`pull_scheduler.cpp:494-508`); in a map of a single byte, that of legs up to 14, the 1 is set again.  With
  `Slabs <- OneByteSlab` in `sieve_slab`, `SlabIsSieved` is violated.
* A failed upload of the primes leaves the new block under the identity of the device before (`sieve_slab_engine.cpp:456-461`), and that device's next call hits.  The failed worker makes
  the run return an error, but the others do not look before they are through.  With `KernelsReadTheirPrimes` in `cache_calls` TLC shows it; `MisledByFailedUploadOnly`, which the run checks, says that it is the only
  way to go wrong once calls do not overlap.
* The scan for the largest remainder starts at -1.0 (`pull_scheduler.cpp:105-117`), so "no device has room" is not the only reason a slab stays homeless.  Harmless: a
  homeless slab is sieved through staging.

Of the copies back, one that fails is not noticed (`main.cpp:924`): the leg prints nothing and exits with 0.  `leg_faults` has this fault, and its refinement says so: such a leg
ends in an outcome of its own.

About the command line (`CommandLine` does what the code does in each case; `PlanIsLegal` and `BudgetKept` hold all the same):

* `--pull-weights` replaces the weights of the file as a whole (`config.cpp:443`), the vendors it does not name get 1; the ratio computed from the file stays.
* `--host-tier-cap=auto` followed by a size: auto wins (`config.cpp:294-306`, `422`).
* `--disable-vendor` accepts only `amd`, where `config.h:35` and `main.cpp:305` speak of both vendors.
* A switch ignores a value given with `=`; a bare option swallows the next argument even if that is an option.
* `validateConfig` accepts slab sizes that are even and not a multiple of eight (`config.cpp:366`); the scheduler refuses them after the leg has been planned (`pull_scheduler.cpp:357`).
* The gate adds up the backing of all devices although `--sieve-device` then leaves one (`main.cpp:371`, `396`), and slabs without a home stay in host memory even under `--no-host-tier`: hence the exception for it in `PlanIsLegal`.
* Left out: a NaN passes `parseFraction` and both bands (`config.cpp:127`, `382`), a size of exactly 2^64 wraps (35), and thread and device numbers are cut from `long` to `int` (192, 344, 357).

About the devices:

* `hip_devabstraction.cpp:14-16` says every entry point selects the device and restores the one before.  `hipFree` and the calls on streams and events do not: a stream is created on whatever device
  the pool left current.  The model has this; a launch on such a stream is refused by the runtime, so `CallsReachTheirObjects` holds.
* After `DevForceBackendForBus` a launch resolves the device anew and its buffers stay on the old backend: the exception in `CallsReachTheirObjects`.
* `hip_enum.cpp:63-66` says the count is 0 on failure and that no device of the vendor then takes part; the devices filled in before the failure are kept, and used.

### Fairness

Weak fairness only.  `PullScheduler`: the main thread, each worker thread and each stream; the operating system schedules
threads and a device executes what is enqueued.  A step that waits (`Join`, `Fence`, a synchronous copy) is enabled once what it waits for is done
and stays enabled.  `CpuSearch`: the main thread and the pool as a
whole.  `Fallback`: the same for the CPU; for the GPU the host, and the grid as a whole, since a GPU promises progress of some resident thread and not of each one.  `Leg`: the driver and the
end of the expansion thread.  `SlabSieve`, `OrderedSearch`: the next step.  `SlabPlan`: `RunLeg` and `Assign`, the steps of the main
thread; which arguments there are is not a matter of fairness.  `SieveKernel`, `Oracles`, `PrimeCache`, `DeviceLayer`, `Expansion` and `Freudenthal`
have no liveness property (no thread of the expansion ever waits for another); `Freudenthal` has no deadlock either, so a test that stops has its verdict.

## 4. Proofs

The proofs hold for every value of the constants that satisfies the named `ASSUME`s of the component's module, which state what the caller guarantees (proved of `SlabPlan` where another
part of the program is the caller).  Some theorems have a hypothesis of their own besides.  It is the success of a call whose result the code drops, or a shape of the
input that the code does not rule out, and without it the property is false of the program, as section 3 says how to see; or it is what a comment of the code takes for granted (two
theorems on `Freudenthal`).  Each module proves an
inductive invariant `I` (`Init => I`, `I /\ [Next]_vars => I'`) by one step per action, and draws each theorem from it with the temporal step last.

### PullSchedulerProofs

For any finite set of devices, number of slabs, caps that sum to it, owner table, residency device and set of failing calls.

* `TypeCorrect`, `EverySlabPulledOnce`: `TypeOK`, `AllPulledOnce`.
* `NothingIsLeaked`, `EveryCopyIsSole`: `NothingLeaks`, `SoleProducer`.
* `CopiesFollowKernels`: `NoCopyBeforeSieve`, if recording succeeds (`RecordsSucceed`; `pull_scheduler.cpp:200` drops its result).
* `SuccessComplete`, `HandedOffFinal`, `ReturnedIsQuiet`: `SuccessIsComplete`, `HandOffIsFinal`, and the action property `QuietAfterReturn`, if besides streams and events are created
  (`StreamsCreated`; 542 does not check them, and the fence skips a device without them).
* `NoMemoryFreedUnderCopy`: `NoFreeUnderCopy`, if streams and events are created and fencing succeeds (`FencesSucceed`).
* `KeepsItsPromise`: the safety half of the refinement of `SlabSieve`, `Spec => Promise!Spec`.

Pulled once.  `pulls' [EXCEPT ![nextSlab]]` is typed only if `nextSlab` is a slab, and a worker past its
claim must have a slab in hand (`CurType`).  That a claim never runs past the map is a count: every ticket drawn (`Drawn`) is a slab already
claimed or a worker about to claim one (`Claiming`), so `Cardinality(Drawn) = nextSlab + Cardinality(Claiming)` (`CountInv`), while `Drawn` is
a subset of the tickets, of which there are `NumSlabs`.  When all workers have left without a failure all tickets are drawn and nobody is
claiming, so `nextSlab = NumSlabs`, and `pulls` is 1 everywhere.  `PhaseInv` ties the main thread's position to the workers'.
In particular the test `s >= numSlabs` after the claim can never succeed (`ClaimInsideMap`).

Copies.  `CopyInv` of `PullSchedulerInv` follows a slab from the claim to the host map.  `SourceInv`: a claimed slab is in one worker's hand or in one entry of one stream, and
until it is copied the host map is without it; this makes copies sole, and lets "arrived, in a hand, or enqueued" (`ArrivalInv`) turn into
"arrived" when all hands are empty and all streams dry.  `OrderInv`: in front of every enqueued copy stands a gate behind a kernel that sieves its slab, if the slab is not sieved yet;
it needs that the event a worker waits for is the one of its last kernel (`mark`), which is where recording must not have failed.
`CoverInv` and `FenceInv`: no kernel is left that nothing waits for, and a fenced stream has run dry.  `HomeInv` is what hand-off needs: the slab is sieved in its owner's memory.
The refinement maps a slab to final when the host map has it; a copy, a relay's landing and the return are `SlabSieve`'s steps, all others stutter.

### SlabPlanProofs

For any arguments, benchmark file, machine, sizes and memory; no assumption but that tables hold numbers of the right sort.

* `BudgetsAreKept`, `PlansAreLegal`: `BudgetKept`, `PlanIsLegal`.
* `CapsAreShares`, `RegionsMatch`: `CapsFollowWeights`, `RegionsLineUp`.

The invariant follows the leg.  `LineInv`: what `validateConfig` let through stays valid, a tier cap stands only where one was given, weights that a file was accepted with are positive.  `LegInv`: every device is wanted,
backing, scratch and headroom of each are within the fraction and the cap asked for (`Affords`), and the devices together passed the gate.  `PlanInv`: each device keeps room for its staging slab, no more homes than slabs.
The caps are the hard part.  What is left of the shares adds up to `Total(weight) * (numSlabs - Total(cap))` (`RemAddsUp`), so while slabs are left some remainder is positive and the largest is; giving it one leaves it above
`-Total(weight)`.  A floor that the rounding of the doubles has put one below a whole share leaves a remainder of exactly `Total(weight)`, which would break the bound if it were still there at the end: hence the clause
of `Handing` that while such a remainder exists none is negative, so that they all go first, and at the end, where the remainders add up to 0, there is none (`AllHandedOut`).
It also shows the scan for the largest remainder never comes up empty (`LargestExists`): the caps add up to `numSlabs` on every path.  Sums are treated by induction, which least elements stand in for (`UpTo`).

### DeviceLayerProofs

For any cards, machines whose runtimes number their cards injectively, numbers of handles, and overrides.

* `CallsReach`: `CallsReachTheirObjects`.
* `BusesReachTheirCards`, `BuffersStay`, `EnumerationsBounded`: `ReachesItsCard`, `BuffersKeepTheirDevice`, and `EnumerationsAreBounded`, which no run lists.

A call goes astray if the backend or the index in the handle is not that of its object.  For memory both agree from the allocation on; for streams and events only the backend does, as the device
is whatever was current (`HandlesOK`).  A launch resolves its logical device again, so the handle has to agree with the map's present entry: while no bus is overridden an entry never changes backend, and changes index only once, before
any handle to it exists (`MapShape`, `HandlesOK`); before initialisation there is neither (`NothingYet`, `NoDevices`).
That an entry names its card (`CardsInv`) starts with what an enumeration that is cut short reports (`EnumerationReports`), goes through the merge, whose result holds of every bus the first report of it
(`MergeReports`), and the search for the bus in its backend's own list (`SearchFinds`).  `EnumsInv` counts enumerations against reconciled buses and overrides.

### PrimeCache, in DeviceLayerProofs

For any set of devices, assignment of devices to translation units, and number of calls.

* `CacheTyped`, `LoneDeviceIsSafe`: `CacheTypeOK`, `LoneDeviceKeepsItsPrimes`.
* `SerialCallsHoldOneBlock`: `OneBlockHeld` of `SerialSpec`, whatever fails.
* `SerialCallsAreSafe`: `MisledByFailedUploadOnly` of `SerialSpec`.

A device that is alone in its unit allocates one block, which is cached from then on and never freed (`KeepsBlock`); past each statement of the upload the globals read what it wrote
(`KeepsUpload`).  For the devices of other units to leave these alone, the block cached by a unit must have been allocated by a device of it (`CachedByOwner`).
What the devices of one unit do to each other is the finding `cache_race`.  With the calls of a unit in turn, `HeldInv` says which blocks are live: outside a call the cached one, inside it also what the call's own place says it has
allocated or is yet to free.  `ReadInv` adds that the globals name a complete block of the cached device whenever no call is between allocation and the writing of the identity, and that every launched kernel either reads
such a block or has ended; freeing it waits for the device the kernels run on.  A failed upload breaks the former (section 3), so `ReadInv` is claimed as long as there has been none (`Uploaded`, which once lost stays lost).

### LegProofs

For any machine, number of slabs, command line, set of sums, and set of failing calls.

* `LayoutIsRight`, `BuffersFreedOnce`, `InputOutlives`: `RightLayout`, `FreedOnce`, `InputOutlivesKernel`.
* `KernelReadsAll`: `KernelReadsFilledMap`, if no upload is lost (`UploadsSucceed`; `main.cpp:783-838` drop the results).
* `LegKeepsPromise`: the safety half of `ImplementsSearch`, under the same hypothesis.
* `EveryAnswerOnce`, under the same hypothesis: what a leg prints is ascending, so nothing twice, whichever search prints it and whatever the other did before; a leg that returns 0 has printed every sum with an
  answer (none if it dumps or its answers were lost), one that returns 1 nothing.  `ReturnInv` ties each return of the driver to the way it got there.

`LegInv` says, place by place of `runLeg`, which layout the map has, what is allocated, and what has been freed; what decides is that a leg that dumps plans no search
(`DumpInv`), so that the dump's expansion never meets a kernel's input.

### Freudenthal, in LegProofs

For every leg (`SumLimit`) and any set of its odd sums, on the CPU and on the GPU:

* `SmallPrimesLast`: `PrimesLast`.
* `TrialsCountRight`: the action property `TrialsAreRight`, if even numbers are sums of two primes (`Goldbach`, up to the largest number asked about; the run evaluates it for its leg as `GoldbachHolds`).
* `CompositesAlwaysFit`: `CompositesFit`, one half of `TablesSuffice`, if `SumLimit <= 2^32 + 2`, the bound that the comment at `gpu_search_kernel.h:508-516` gives.

A trial takes the prime factors out of the odd part of a product in ascending order and keeps the factors found so far in an array, in runs.  `TestInv` says what the array holds at the head of
the loop (`TrialWith(t, list, a, b)`): `b` is what has been taken out, `a` the part of it without the prime in hand.  The array enumerates, each once,
`Forms(power2, limit, b)`, the odd divisors of `b` and those times the whole power of two, up to the root of the product; its settled part `Forms(.., a)`; and the count of
multiple pairs is the number of these whose pair is one that Sammy could be sure of (`FactorsHeld`).  A turn multiplies the settled part, or the last run, by the prime: what it skips because it would
pass the limit are products larger still (`WalkLists`, `RunEnd`), and what it appends is what the next `b` has and this one has not (`GainIs`, `DivideKeeps`, `AdvanceKeeps`).

* The list: the sieve definition of primality is primality (`PrimesAre`), so the list meets every prime up to its end (`ListWalk`); a rest that is not prime has a prime factor up to its root, and that
  factor is still ahead (`WalkGoesOn`).
* The verdict: Sammy is never sure of an even sum (`Goldbach`), and of an odd sum `s` just when `s - 2` is not prime (`SureIs`); a pair of factors with an odd sum has the whole power of two in one
  term, hence is one of `Forms` (`PeterLooksAt`).  When the rest is 1 or a prime nothing small is left (`NothingSmallLeft`, `OverComplete`), and when the loop stops at
  the second pair, "exactly one" is already false (`CountRight`).
* The powers: the CPU's array is as long as the rounded binary logarithm of `SumLimit - 2`, and the exponents kept lie between 2 and it (`PowersExist`, `PowersGrow`).

What this needs of numbers is in `ListLemmas`.  `VerdictIsTheRiddles` stays with TLC: it adds to the trials the screen of multiples of three and the order of the phases, which skip products by arguments the code does not give.

### FallbackProofs

For any leg, grid, number of CPU threads, answers, and set of failing calls.

* `SumsDrawnOnce`, `CountIsRecords`: `DrawnOnce`, and `CountMatchesRecords`, which no run lists.
* `ChunksCutTheRange`: `ChunksTile`, for calls with a sum for each chunk.  Narrower chunks overlap (section 3).
* `SearchKeepsPromise`: the safety half of `ImplementsSearch`, if each call has a sum for each chunk or is not cut (`Divides`).

The grid.  While it runs the counter is the number of sums drawn and, past the last, of threads that have left (`DrawInv`), so `Wrap` is never reached before all have.
`CountInv`: the count is ahead of the records by the threads between the two writes, and behind by the marker until the leader has added it.
The chunks.  A chunk starts where the one before it ends because `(c + 1) * delta - .5` and `(c + 1) * delta + .5` differ by one (`SharesTile`, from lemmas on quotients).
The output.  `Lists(q, S)` says that the sequence `q` is the set `S` in ascending order; `ListLemmas` has what happens to it when an element or a list is appended, and that
it is unique.  The promise is then one set at any time: the answers below a bound (`Upto`).  On the GPU the bound is the slot the scan has reached, and an answer that has been
drawn is in its slot or in the hands of a thread (`RecordInv`).  On the CPU each buffer lists the answers of its chunk below the sum its thread is on (`Found`), and printing a buffer moves the bound to the start of the
next chunk (`BufferStep`).  Until the GPU has an answer of its own to print nothing has been, so the CPU can take over at the start (`TakeOverStep`).

### ExpansionProofs

For any map, slab size and tile size (multiples of eight bytes), and any finite pool.

* `WindowsAreApart`: `NoSharedBytes`, without a hypothesis.
* `WritesContained`, `ExpansionIsCanonical`: `WritesStayInWindow`, `MapIsCanonical`, if `MapBytes % 15 # 14`.  At 14 the last group has all its source bytes and one target byte too few, and is
  written whole: the finding `expand_last_group`.

The plan.  A slab of `8 k` source bytes starts `15 k` bytes into the map.  `PieceShape` follows the code's capping of values for one item: the window is 15 bytes for each group and, behind them, what the
tail leaves; it is no shorter than the sources, and ends before the next item's.  `Layout` says of a list of items that their windows cut the map in ascending order; it holds of the slabs (`RegionsCut`) and
of the tiles (`ItemsCut`).  For this `Items` is given in closed form, position by position; that it is the list the planning loop pushes is `ItemsArePushed` of `MCExpansion`, which TLC evaluates.

The pool (`Control`).  Every claimed item is on one list, once (`Claims`), and in either schedule a thread's place tells which item it is on (`Place`).  Two threads are then never on the same item, and
the windows of different items are apart (`ControlSeparates`).

The bytes (`Contents`).  In the first epoch nothing is written, so a slot of the arena, once filled, is filled with sources.  Afterwards `Progress` says of each item on a list whether it is still to be
read (`Ready`), being widened, or canonical.  Widened in place, an item has its tail and its last `n` groups canonical and the sources of its other groups intact: group `q` is written to bytes `15 q` and up, while
the groups below it end at `8 q`, so from `q = 2` on the writing is above all that is still to be read and the two groups below that are the staged ones (`GroupsDone`, `TurnIsIntact`).  The order is what matters: from the first group up
it would not be so.  When the pool has been joined every list has been worked through and every item is on one (`DoneContents`).

### ListLemmas

Quotients, least elements, induction below a bound (`UpTo`), ranks and ascending lists; and of numbers: factors and their sums, Gauss's and Euclid's lemmas, what a number is without one of its primes,
least factors, and products of odd and even numbers.  All of it is proved from the integers alone.  Used by `LegProofs`, `FallbackProofs`, `DeviceLayerProofs`, `SlabPlanProofs`, `SieveProofs` and `ExpansionProofs`.

### SieveProofs

For any geometry the static asserts of the header admit, any map, slabs and cut between small and large primes:

* `WordsAreOwned`: `WordsHaveOneOwner`.
* `SlabsAreSieved`: `SlabIsSieved`, if no map is of a single byte (`NoOneByteMap`; section 3 says what happens to one).
* `MapsTellPrimes`: `MapTellsPrimes`, under the same hypothesis.

Words.  A flush is at word `StageWords * Region + next`, where regions number the stages of all blocks through (`GlobalWordIs`); places in a mixed radix are unique (`SamePlace`, `RegionUnique`),
and the word left over gives the lane.  This needs of the invariant only where a thread is (`PlaceInv`).

Marks.  A walk steps by `30 * p` through each residue class, from a start found with the inverse of `p` modulo 30; `MarksAre` shows that it meets exactly the multiples of `p` in its window, from `p * p` on, that
have a bit.  `CompositeIsStruck`: the least divisor of a composite number with a bit is above 5, prime, and its square no larger than the number, hence in the list.

Phases.  `SyncInv`: the barriers keep the threads of a block in one part of a phase.  `StageInv` then follows a stage: what is set while its block marks is struck, each thread has done what its place in the list says (`CutDone`, `LargeDone`; a prime out of
reach ends a pass because the list ascends), and when all have marked every struck bit is set: for a small prime the thread whose slice holds the byte has set it, for another the thread whose stride holds
the prime (`StageIsStruck`).  `MapInv`: no prime is ever cleared, and in a byte some thread has flushed nothing struck is left.  At the end every byte of the slab has been flushed (`EveryBytePassed`, which needs that the blocks cover
the slab, and that a thread leaves only past the end of its block), so what is left is prime.

The codecs, of words of any size `R` with the reciprocal `30 * Magic = 16 * R + 14`:

* `QuotientIsExact`: the multiplication by the reciprocal divides every word by 30.  With `n = 30 q + r` the error `14 q + r * Magic` stays below `16 R`.
* `PlacementSeparates`: with a slab size that is a multiple of eight no two bytes of the wheel map are placed at one byte of the packed map.
* `SumIsExact`: `dev_MontAddMod` is the sum modulo `m`, when the sum wraps the word too.
* `ProductIsExact`: `dev_MontMul` returns a number below `m` congruent to `a * b / R`, with both carries, given an inverse of `m`.  That `dev_MontMinv` computes one is an iteration, and TLC's.

Readers.  `MapsTellPrimes` puts the sieved slab where the device and the scheduler keep it, and follows each reader to the bit it asks for.  Rank and position of a residue are inverse
(`Positions`, by cases).  A layout is known once no two bits share a place: the device's is the wheel map (`InternalMapIs`), the packed one by `PlacementSeparates` (`PackedMapIs`), and in the canonical
one a group's eight bytes go to fifteen, its last partial group included (`CanonicalSeparates`, `CanonicalIs`).  `DeviceTells`, `VerdictTells` and `HostTells` then decide for each number whether it is 2, 3 or 5, has no
bit, or has the one the sieve left; `NothingIsLost` is the way back from the canonical layout.

### Only model-checked

* `VerdictIsTheRiddles`, for the reason given above; and `FactorsFit`, the other half of `TablesSuffice`: how many factors a product of a given size can have is number theory beyond what is proved here.
* `MillerRabinTellsPrimes`: the powers are iterations, and that the witnesses suffice below a bound is a table.
* Liveness under fairness and `ENABLED` (`Terminates`, and the liveness half of each refinement), and what a recursive definition computes for every input (the
  powers of `Wheel`), which are out of the prover's reach.
* That the closed form of `Expansion`'s items is what its loop pushes.

## 5. Plan

Done: all components of section 2 modelled and checked; the plan of a leg, the scheduler, the device layer, the prime cache, the sieve kernel and the readers of its map, the expansion, the leg, both searches and
the trials of the Freudenthal test proved.

Left to model: the `mr_diff` kernel of `gpu_search_kernel.cpp` and the single-device run of `sieve_slab_engine.cpp` (106-221), which only tests and benchmarks call.

Left to prove: the verdict of the Freudenthal test, from the trials.  It needs that a product of the phases can be skipped exactly when a trial of it would not count.

## 6. Not modelled, and why

The text of messages and reports, timers and statistics, and the pair printed with an answer: no state.  The HIP runtime: external, modelled only by what its streams, events, copies, memory and
current device do for the callers.  Numbers of 64 bits: words are scaled (`Wheel`), and what is proved of them is proved for every size.  `shrinkFractionForAlloc`: only a test calls it.
Benchmarks, smoke programs, tests and the reference programs: not part of the running program.  The single-device run of `sieve_slab_engine.cpp` and the `mr_diff` kernel: used only by
benchmarks and tests.
