-------------------------------- MODULE Leg --------------------------------
(***************************************************************************)
(* runLeg (source/main.cpp:222-1015): one leg from the device list to the   *)
(* exit code.  It asks the pull scheduler for the sieve map, and perhaps    *)
(* for a copy of it left on the device that will search; runs the search on *)
(* that GPU; and falls back to the CPU search when anything on the way      *)
(* fails.  The scheduler and the two searches are what SlabSieve and        *)
(* OrderedSearch promise of them.                                           *)
(*                                                                          *)
(* The host map is left by the scheduler in the layout of the wheel, which  *)
(* the GPU feed and the emission of the GPU's records read; every other     *)
(* reader needs the canonical layout, into which the map is widened in      *)
(* place by a thread of its own.  The state is that layout, the device      *)
(* buffers, who owns them, and what is in them.                             *)
(***************************************************************************)
EXTENDS Integers, Sequences, FiniteSets, SequencesExt

CONSTANTS
  AllDevices,   \* the devices of the machine, in enumeration order
  Vendor,       \* Vendor[d]
  Backing,      \* Backing[d]: slabs it can back
  Fits,         \* devices whose budget covers map, records and workspace
  Slabs,        \* the slabs of the map
  HostTier,     \* slabs the host tier can hold when it is enabled by itself
  Configs,      \* the command lines considered
  Sums,         \* the sums of the leg that have an answer
  None,         \* an option not given
  Faults        \* the calls that may fail

FaultKinds == {"enumerate", "prepare", "sieve", "open", "init", "alloc",
               "memset", "launch", "h2d", "d2h"}

ASSUME DevicesAssumption ==
  /\ \A d \in Range(AllDevices) : d \in DOMAIN Vendor /\ Backing[d] \in Nat
  /\ Fits \subseteq Range(AllDevices)
ASSUME SlabsAssumption == IsFiniteSet(Slabs) /\ HostTier \in Nat
ASSUME FaultsAssumption == Faults \subseteq FaultKinds
ASSUME SumsAssumption == Sums \subseteq Nat /\ IsFiniteSet(Sums)

\* What the kernel reads: the map, slab by slab, and the list of small primes.
Input == Slabs \union {"primes"}

Buffers == {"ownMap", "residentMap", "records", "atomic", "primes"}

Returns == {"return0", "return1"}

Places == Returns \union
  {"enumerate", "gate", "plan", "prepare", "sieve", "dump", "dumpJoin",
   "select", "allocMap", "allocRecords", "allocAtomic", "zero", "feed",
   "allocPrimes", "launch", "kernel", "copyBack", "emit", "free", "cleanup",
   "spawn", "join", "cpu", "report"}

VARIABLES
  cfg,          \* the command line
  pc,           \* where runLeg is
  devs,         \* allDevs: the devices left by the filters
  planned,      \* plannedSearchDev: an index into devs, None when none
  resident,     \* is residency.valid?
  home,         \* slabs left final on the planned device
  gpu,          \* gpuDeviceIndex
  layout,       \* the host map
  expander,     \* the expansion thread
  allocs, frees,\* device allocations and frees of each buffer
  filled,       \* what has reached the device of the kernel's input
  records,      \* the record slots of the device
  hRecords,     \* hRecords: the host's copy
  out           \* the sums printed

vars == <<cfg, pc, devs, planned, resident, home, gpu, layout, expander,
          allocs, frees, filled, records, hRecords, out>>

plan == <<cfg, devs, planned>>
sieved == <<resident, home>>
memory == <<allocs, frees>>
feed == <<filled, records, hRecords>>
hostMap == <<layout, expander>>

\* The copy of the records to the host failed, which nobody looks at.
AnswersLost == pc \in {"emit", "free", "return0"} /\ records = "answers" /\ hRecords = "zero"

Search == INSTANCE OrderedSearch WITH
            solved <- Sums,
            outcome <- IF pc \notin Returns THEN "running"
                       ELSE IF pc = "return1" \/ cfg.dump \/ AnswersLost THEN "declined"
                       ELSE "done"

TypeOK ==
  /\ cfg \in Configs
  /\ pc \in Places
  /\ devs \in Seq(Range(AllDevices))
  /\ planned \in Nat \union {None} /\ gpu \in Nat \union {None}
  /\ resident \in BOOLEAN /\ home \subseteq Slabs
  /\ layout \in {"unwritten", "wheel", "widening", "canonical", "ruined"}
  /\ expander \in {"none", "running", "ended", "joined"}
  /\ allocs \in [Buffers -> 0 .. 1] /\ frees \in [Buffers -> 0 .. 2]
  /\ filled \subseteq Input
  /\ records \in {"garbage", "zero", "answers", "wrong"}
  /\ hRecords \in {"zero", "answers", "wrong"}
  /\ out \in Seq(Sums)

Init ==
  /\ cfg \in Configs
  /\ pc = "enumerate"
  /\ devs = << >> /\ planned = None /\ gpu = None
  /\ resident = FALSE /\ home = {}
  /\ layout = "unwritten" /\ expander = "none"
  /\ allocs = [b \in Buffers |-> 0] /\ frees = [b \in Buffers |-> 0]
  /\ filled = {} /\ records = "garbage" /\ hRecords = "zero"
  /\ out = << >>

-----------------------------------------------------------------------------
(* Devices, the gate and the plan *)

\* --devices and --disable-vendor, applied before and after the enumeration.
Wanted(d) ==
  /\ cfg.only \in {None, Vendor[d]}
  /\ cfg.disable # Vendor[d]

\* A vendor whose enumeration fails contributes no device.
Enumerate ==
  /\ pc = "enumerate"
  /\ \E failed \in SUBSET {Vendor[d] : d \in Range(AllDevices)} :
       /\ failed = {} \/ "enumerate" \in Faults
       /\ LET kept == SelectSeq(AllDevices,
                                LAMBDA d : Wanted(d) /\ Vendor[d] \notin failed)
          IN /\ devs' = kept
             /\ pc' = IF kept = << >> THEN "return1" ELSE "gate"
  /\ UNCHANGED <<cfg, planned, gpu, sieved, hostMap, memory, feed, out>>

Capacity(tier) == FoldSeq(LAMBDA d, total : Backing[d] + total, tier, devs)

\* A device that cannot back one slab, and a --sieve-device there is not, end
\* the leg; then the aggregate gate with its remedy: the host tier is enabled
\* unless the command line settles it.
Gate ==
  /\ pc = "gate"
  /\ LET tier == IF cfg.tier = None THEN HostTier ELSE cfg.tier
         capacity == Capacity(tier)
     IN pc' = IF \/ \E d \in Range(devs) : Backing[d] = 0
                 \/ cfg.sieveDevice # None /\ cfg.sieveDevice > Len(devs)
                 \/ capacity < Cardinality(Slabs)
              THEN "return1" ELSE "plan"
  /\ UNCHANGED <<plan, gpu, sieved, hostMap, memory, feed, out>>

\* selectSearchDevice: the device asked for if it fits, or the first that does.
Selected ==
  LET fitting == {i \in DOMAIN devs : devs[i] \in Fits}
  IN IF cfg.searchDevice # None
     THEN IF cfg.searchDevice \in fitting THEN cfg.searchDevice ELSE None
     ELSE IF fitting = {} THEN None
          ELSE CHOOSE i \in fitting : \A j \in fitting : i <= j

Sieves == IF cfg.sieveDevice = None THEN DOMAIN devs ELSE {cfg.sieveDevice}

\* Residency planning, from budgets alone.
Plan ==
  /\ pc = "plan"
  /\ planned' = IF cfg.gpuSearch /\ ~cfg.dump /\ cfg.residency
                THEN Selected ELSE None
  /\ pc' = "prepare"
  /\ UNCHANGED <<cfg, devs, gpu, sieved, hostMap, memory, feed, out>>

Prepare ==
  /\ pc = "prepare"
  /\ \/ pc' = "sieve"
     \/ "prepare" \in Faults /\ pc' = "return1"
  /\ UNCHANGED <<plan, gpu, sieved, hostMap, memory, feed, out>>

\* runPullScheduler, as SlabSieve promises it: a complete map in the wheel
\* layout, and a hand-over only when one was asked for.
Sieve ==
  /\ pc = "sieve"
  /\ \/ /\ "sieve" \in Faults
        /\ pc' = "return1"
        /\ UNCHANGED <<sieved, layout, allocs>>
     \/ /\ layout' = "wheel"
        /\ pc' = IF cfg.dump THEN "dump" ELSE "select"
        /\ \/ UNCHANGED <<sieved, allocs>>
           \/ /\ planned # None /\ planned \in Sieves
              /\ resident' = TRUE
              /\ home' \in SUBSET Slabs
              /\ allocs' = [allocs EXCEPT !["residentMap"] = 1]
  /\ UNCHANGED <<plan, gpu, expander, frees, feed, out>>

-----------------------------------------------------------------------------
(* The expansion *)

\* expandSieveMapToCanonical, on the caller or on canon's thread.  It reads the
\* wheel layout and nothing else; a second entry aborts the process.
StartExpansion ==
  /\ expander' = "running"
  /\ layout' = IF layout = "wheel" /\ expander = "none" THEN "widening" ELSE "ruined"

EndExpansion ==
  /\ expander = "running"
  /\ expander' = "ended"
  /\ layout' = IF layout = "widening" THEN "canonical" ELSE "ruined"
  /\ UNCHANGED <<plan, pc, gpu, sieved, memory, feed, out>>

\* --dump-map: expand, write the file, return.
Dump ==
  /\ pc = "dump"
  /\ StartExpansion
  /\ pc' = "dumpJoin"
  /\ UNCHANGED <<plan, gpu, sieved, memory, feed, out>>

WriteDump ==
  /\ pc = "dumpJoin"
  /\ expander = "ended"
  /\ expander' = "joined"
  /\ pc' \in {"return0"} \union (IF "open" \in Faults THEN {"return1"} ELSE {})
  /\ UNCHANGED <<plan, gpu, sieved, layout, memory, feed, out>>

-----------------------------------------------------------------------------
(* The attempt on the GPU *)

Allocate(b) == allocs' = [allocs EXCEPT ![b] = @ + 1]
Freed(f, bufs) == [b \in Buffers |-> IF b \in bufs THEN f[b] + 1 ELSE f[b]]

\* The buffers runLeg itself holds, and all there are to give back.
Owned == {b \in Buffers \ {"residentMap"} : allocs[b] = 1}
Held == Owned \union (IF resident THEN {"residentMap"} ELSE {})

\* A step of the attempt that may fail with `fault': on to the clean-up.
TryCall(fault, next, Effect) ==
  \/ Effect /\ pc' = next
  \/ fault \in Faults /\ pc' = "cleanup" /\ UNCHANGED allocs

SelectDevice ==
  /\ pc = "select"
  /\ \/ /\ cfg.gpuSearch
        /\ gpu' = Selected
        /\ pc' = IF Selected = None THEN "cleanup" ELSE "allocMap"
     \/ /\ ~cfg.gpuSearch \/ "init" \in Faults
        /\ pc' = "cleanup"
        /\ UNCHANGED gpu
  /\ UNCHANGED <<plan, sieved, hostMap, memory, feed, out>>

\* Borrow the map the scheduler left, with what is final in it, or allocate.
UseResident == resident /\ planned = gpu
AllocMap ==
  /\ pc = "allocMap"
  /\ \/ UseResident /\ pc' = "allocRecords" /\ filled' = home
        /\ UNCHANGED allocs
     \/ /\ ~UseResident /\ UNCHANGED filled
        /\ TryCall("alloc", "allocRecords", Allocate("ownMap"))
  /\ UNCHANGED <<plan, gpu, sieved, hostMap, frees, records, hRecords, out>>

AllocRecords ==
  /\ pc = "allocRecords"
  /\ TryCall("alloc", "allocAtomic", Allocate("records"))
  /\ UNCHANGED <<plan, gpu, sieved, hostMap, frees, feed, out>>

AllocAtomic ==
  /\ pc = "allocAtomic"
  /\ TryCall("alloc", "zero", Allocate("atomic"))
  /\ UNCHANGED <<plan, gpu, sieved, hostMap, frees, feed, out>>

\* A host-to-device copy is attempted and its result is not looked at.
Copied(new, old) == {new} \union (IF "h2d" \in Faults THEN {old} ELSE {})

\* Clear the records and the answer count: by two memsets, or by copying
\* zeroed host memory where they fail or the map was not borrowed.
MutZero ==
  /\ pc = "zero"
  /\ records' \in (IF UseResident THEN {"garbage"} ELSE {"zero"})
  /\ pc' = "feed"
  /\ UNCHANGED <<plan, gpu, sieved, hostMap, memory, filled, hRecords, out>>
Zero ==
  /\ pc = "zero"
  /\ \/ UseResident /\ records' = "zero"
     \/ /\ UseResident => "memset" \in Faults
        /\ records' \in Copied("zero", records)
  /\ pc' = "feed"
  /\ UNCHANGED <<plan, gpu, sieved, hostMap, memory, filled, hRecords, out>>

\* Upload the slabs that are not there yet: all of them into a map of its own,
\* the foreign and homeless ones into a borrowed map.
MutFeed ==
  /\ pc = "feed"
  /\ filled' = IF UseResident THEN filled ELSE Slabs
  /\ pc' = "allocPrimes"
  /\ UNCHANGED <<plan, gpu, sieved, hostMap, memory, records, hRecords, out>>
Feed ==
  /\ pc = "feed"
  /\ \E lost \in SUBSET (Slabs \ filled) :
       /\ lost = {} \/ "h2d" \in Faults
       /\ filled' = Slabs \ lost
  /\ pc' = "allocPrimes"
  /\ UNCHANGED <<plan, gpu, sieved, hostMap, memory, records, hRecords, out>>

AllocPrimes ==
  /\ pc = "allocPrimes"
  /\ \/ /\ Allocate("primes")
        /\ filled' \in Copied(filled \union {"primes"}, filled)
        /\ pc' = "launch"
     \/ "alloc" \in Faults /\ pc' = "cleanup" /\ UNCHANGED <<allocs, filled>>
  /\ UNCHANGED <<plan, gpu, sieved, hostMap, frees, records, hRecords, out>>

MutLaunch ==
  /\ pc = "launch"
  /\ frees' = Freed(frees, IF resident THEN {"residentMap"} ELSE {})
  /\ resident' = FALSE
  /\ pc' = "kernel"
  /\ UNCHANGED <<plan, gpu, home, hostMap, allocs, feed, out>>
Launch ==
  /\ pc = "launch"
  /\ pc' \in {"kernel"} \union (IF "launch" \in Faults THEN {"cleanup"} ELSE {})
  /\ UNCHANGED <<plan, gpu, sieved, hostMap, memory, feed, out>>

\* The kernel ends, with an error or with a record for each answer: if the map
\* and the slots were what it expects.
KernelEnds ==
  /\ pc = "kernel"
  /\ \/ /\ pc' = "copyBack"
        /\ records' = IF filled = Input /\ records = "zero" THEN "answers" ELSE "wrong"
     \/ "launch" \in Faults /\ pc' = "cleanup" /\ UNCHANGED records
  /\ UNCHANGED <<plan, gpu, sieved, hostMap, memory, filled, hRecords, out>>

-----------------------------------------------------------------------------
(* What follows it *)

\* releasePullScheduler, once the resident map has been read.
ReleaseResident ==
  /\ frees' = Freed(frees, IF resident THEN {"residentMap"} ELSE {})
  /\ resident' = FALSE

CopyBack ==
  /\ pc = "copyBack"
  /\ hRecords' \in {records} \union (IF "d2h" \in Faults THEN {hRecords} ELSE {})
  /\ ReleaseResident
  /\ pc' = "emit"
  /\ UNCHANGED <<plan, gpu, home, hostMap, allocs, filled, records, out>>

\* GpuSearchEmit decodes its verdicts from the wheel layout of the host map.
Emit ==
  /\ pc = "emit"
  /\ out' = IF hRecords = "answers" THEN Search!Answers ELSE << >>
  /\ pc' = "free"
  /\ UNCHANGED <<plan, gpu, sieved, hostMap, memory, feed>>

FreeAll ==
  /\ pc = "free"
  /\ frees' = Freed(frees, Owned)
  /\ pc' = "return0"
  /\ UNCHANGED <<plan, gpu, sieved, hostMap, allocs, feed, out>>

\* Every path that gave up, or never tried, frees what it holds and gives the
\* scheduler its teardown.
MutCleanUp ==
  /\ pc = "cleanup"
  /\ frees' = Freed(frees, Owned \union (IF UseResident THEN {"residentMap"} ELSE {}))
  /\ resident' = FALSE
  /\ pc' = "spawn"
  /\ UNCHANGED <<plan, gpu, home, hostMap, allocs, feed, out>>
CleanUp ==
  /\ pc = "cleanup"
  /\ frees' = Freed(frees, Held)
  /\ resident' = FALSE
  /\ pc' = "spawn"
  /\ UNCHANGED <<plan, gpu, home, hostMap, allocs, feed, out>>

SpawnExpansion ==
  /\ pc = "spawn"
  /\ StartExpansion
  /\ pc' = "join"
  /\ UNCHANGED <<plan, gpu, sieved, memory, feed, out>>

MutJoinExpansion ==
  /\ pc = "join"
  /\ pc' = "cpu"
  /\ UNCHANGED <<plan, gpu, sieved, hostMap, memory, feed, out>>
JoinExpansion ==
  /\ pc = "join"
  /\ expander = "ended"
  /\ expander' = "joined"
  /\ pc' = "cpu"
  /\ UNCHANGED <<plan, gpu, sieved, layout, memory, feed, out>>

\* RunIt over the canonical map.
CpuSearch ==
  /\ pc = "cpu"
  /\ out' = out \o Search!Answers
  /\ pc' = "report"
  /\ UNCHANGED <<plan, gpu, sieved, hostMap, memory, feed>>

\* The timings, and exit code 0.
Report ==
  /\ pc = "report"
  /\ pc' = "return0"
  /\ UNCHANGED <<plan, gpu, sieved, hostMap, memory, feed, out>>

Main ==
  \/ Enumerate \/ Gate \/ Plan \/ Prepare \/ Sieve \/ Dump \/ WriteDump
  \/ SelectDevice \/ AllocMap \/ AllocRecords \/ AllocAtomic \/ Zero \/ Feed
  \/ AllocPrimes \/ Launch \/ KernelEnds \/ CopyBack \/ Emit \/ FreeAll
  \/ CleanUp \/ SpawnExpansion \/ JoinExpansion \/ CpuSearch
  \/ Report

Exited == pc \in Returns /\ UNCHANGED vars

Next == Main \/ EndExpansion \/ Exited

Spec == Init /\ [][Next]_vars

FairSpec == Spec /\ WF_vars(Main) /\ WF_vars(EndExpansion)
-----------------------------------------------------------------------------
(* Properties *)

MapRead == IF planned = gpu /\ allocs["residentMap"] = 1 THEN "residentMap" ELSE "ownMap"

\* While the kernel runs, the map, the record slots, the answer count and the
\* prime list it was given are allocated: the scheduler's teardown comes after
\* the launch has returned (main.cpp:697-699, 931-933).
InputOutlivesKernel ==
  pc = "kernel" =>
    \A b \in {MapRead, "records", "atomic", "primes"} :
      allocs[b] = 1 /\ frees[b] = 0

\* The kernel starts on a complete map and on zeroed slots: the slabs that were
\* not left on the device have been filled (pull_scheduler.h:38-41,
\* gpu_search_kernel.h:633-637).
KernelReadsFilledMap == pc = "kernel" => filled = Input /\ records = "zero"

\* The GPU feed and the emission read the host map as the sieve left it, the
\* dump and the CPU search after it has been widened, nobody while it is being
\* widened; and it is widened once at most (main.cpp:846-867).
RightLayout ==
  /\ pc \in {"zero", "feed", "emit"} => layout = "wheel"
  /\ pc = "cpu" \/ (pc = "dumpJoin" /\ expander = "ended") => layout = "canonical"
  /\ layout # "ruined"

\* What was allocated, by runLeg or by the scheduler it kept, is freed once on
\* every path, and a borrowed map only by its owner (main.cpp:979-989).
FreedOnce ==
  /\ \A b \in Buffers : frees[b] <= allocs[b]
  /\ pc \in Returns => frees = allocs

\* A leg implements the promise of OrderedSearch: whatever fails on the way to
\* the GPU's answers, one search and one only prints, or the leg fails having
\* printed nothing.  A dump counts as a leg that declines to search, and so
\* does one whose records were lost on their way to the host: it prints nothing,
\* not some of them, though its exit code is 0 (main.cpp:924).
ImplementsSearch == Search!FairSpec
=============================================================================
