--------------------------- MODULE PullScheduler ---------------------------
(***************************************************************************)
(* runPullScheduler (source/pull_scheduler.cpp): one owner thread per       *)
(* logical device pulls slabs from a shared counter, sieves them on its     *)
(* device and gets their bytes into the host map; the main thread prepares  *)
(* the devices, joins the workers, fences the copy streams and either hands *)
(* the scheduler's state to a residency consumer or tears it down.          *)
(*                                                                          *)
(* A device executes two asynchronous streams.  A stream is kept as the     *)
(* sequence of operations enqueued on it and the number of them that have   *)
(* completed, so "an event recorded on the stream" is a position in it.     *)
(* Slab contents are abstracted to the only distinction the scheduler       *)
(* depends on: sieved or not yet sieved.                                    *)
(***************************************************************************)
EXTENDS Integers, Sequences, FiniteSets

CONSTANTS
  Devices,        \* the logical devices
  NumSlabs,       \* number of slabs of the map
  Cap,            \* Cap[d]: slabs device d may pull (assignCaps)
  OwnerOf,        \* OwnerOf[s]: the device slab s is home on (assignHome)
  Homeless,       \* the owner of a slab no device has room for
  ResidencyDev,   \* device planned to keep the map, or NoDevice
  NoDevice,
  NoSlab,
  Faults          \* kinds of device call that may fail in this instance

Slabs == 0 .. NumSlabs - 1

\* Every unit of every cap.  The caps sum to NumSlabs when there are as many
\* tickets as slabs.
Tickets == {t \in Devices \X (0 .. NumSlabs - 1) : t[2] < Cap[t[1]]}

FaultKinds == {"alloc", "contig", "stream", "event", "compute", "record",
               "wait", "enqueue", "copy", "fence"}

ASSUME DevicesAssumption == IsFiniteSet(Devices) /\ Devices # {}
ASSUME NumSlabsAssumption == NumSlabs \in Nat \ {0}
ASSUME CapAssumption ==
  /\ Cap \in [Devices -> 0 .. NumSlabs]
  /\ Cardinality(Tickets) = NumSlabs
ASSUME OwnerAssumption == OwnerOf \in [Slabs -> Devices \union {Homeless}]
ASSUME SentinelAssumption ==
  Homeless \notin Devices /\ NoDevice \notin Devices /\ NoSlab \notin Slabs
ASSUME ResidencyAssumption == ResidencyDev \in Devices \union {NoDevice}
ASSUME FaultsAssumption == Faults \subseteq FaultKinds

VARIABLES
  \* the main thread
  phase,            \* where runPullScheduler is
  todo,             \* devices its current loop has still to visit
  residencyActive,  \* the contiguous map-sized allocation is planned / made
  valid,            \* residencyOut->valid
  ret,              \* what the call returned: "none" while it runs
  failed,           \* Shared::failed
  held,             \* held[d]: the resources of device d that are allocated
  \* the workers
  pc,               \* pc[d]: the next call of d's owner thread
  cur,              \* cur[d]: the slab it is working on
  slots,            \* slots[d]: tickets of its cap drawn so far
  nextSlab,         \* the shared slab counter
  pulls,            \* pulls[s]: how many times slab s was pulled
  staging,          \* staging[d]: the slab sieved in d's staging scratch
  pinned,           \* pinned[d]: the slab landed in d's pinned host buffer
  \* the devices
  kernels, kdone,   \* computeStream: slabs launched, how many are sieved
  copies, cdone,    \* copyStream: waits and D2H copies, how many are done
  mark,             \* mark[d]: position of computeStream evEndA was recorded at
  region,           \* region[s]: contents of slab s in its owner's memory
  hostMap           \* hostMap[s]: contents of slab s in the host map

mainVars == <<phase, todo, residencyActive, valid, ret, held>>
pullVars == <<slots, nextSlab, pulls>>
stageVars == <<staging, pinned>>
streamVars == <<kernels, kdone, copies, cdone, mark>>
vars == <<mainVars, failed, pc, cur, pullVars, stageVars, streamVars,
          region, hostMap>>

-----------------------------------------------------------------------------
(* Vocabulary *)

Resources == {"region", "stagingDev", "stagingHost", "computeStream",
              "copyStream", "evEndA"}

Phases == {"setup", "streams", "workers", "fence", "teardown", "abandon",
           "returned"}

Steps == {"off", "slot", "claim", "compute", "record", "wait", "enqueue",
          "fallback", "stage", "direct", "land", "push", "relay", "relaySync",
          "exited"}

\* A copyStream entry: a wait for the first `after` kernels of the device's
\* computeStream (slab = NoSlab), or the D2H copy of a slab.
MutWaitEntry(position) == [slab |-> NoSlab, after |-> 0]
WaitEntry(position) == [slab |-> NoSlab, after |-> position]
CopyEntry(s, position) == [slab |-> s, after |-> position]

\* What a D2H copy of slab s puts into the host map at this moment.
Image(s) == IF region[s] = "sieved" THEN "final" ELSE "raw"

\* The device has executed everything enqueued on it: what a synchronous
\* memcpy on the legacy default stream and hipDeviceSynchronize wait for.
Drained(d) == kdone[d] = Len(kernels[d]) /\ cdone[d] = Len(copies[d])

\* The kernels a copy enqueued now on d's copyStream runs behind without any
\* event: a null copyStream names the default stream, which waits for all.
ImplicitGate(d) == IF "copyStream" \in held[d] THEN 0 ELSE Len(kernels[d])

MainType ==
  /\ phase \in Phases
  /\ todo \subseteq Devices
  /\ residencyActive \in BOOLEAN
  /\ valid \in BOOLEAN
  /\ ret \in {"none", "ok", "error"}
  /\ failed \in BOOLEAN
  /\ held \in [Devices -> SUBSET Resources]

PullType ==
  /\ pc \in [Devices -> Steps]
  /\ cur \in [Devices -> Slabs \union {NoSlab}]
  /\ slots \in [Devices -> Nat]
  /\ nextSlab \in Nat
  /\ pulls \in [Slabs -> Nat]
  /\ staging \in [Devices -> Slabs \union {NoSlab}]
  /\ pinned \in [Devices -> Slabs \union {NoSlab}]

Entry == [slab : Slabs \union {NoSlab}, after : Nat]

DeviceType ==
  /\ kernels \in [Devices -> Seq(Slabs)]
  /\ kdone \in [Devices -> Nat]
  /\ copies \in [Devices -> Seq(Entry)]
  /\ cdone \in [Devices -> Nat]
  /\ mark \in [Devices -> Nat]
  /\ region \in [Slabs -> {"none", "primed", "sieved"}]
  /\ hostMap \in [Slabs -> {"empty", "raw", "final"}]

TypeOK == MainType /\ PullType /\ DeviceType

Init ==
  /\ phase = "setup"
  /\ todo = Devices
  /\ residencyActive = (ResidencyDev # NoDevice)
  /\ valid = FALSE
  /\ ret = "none"
  /\ failed = FALSE
  /\ held = [d \in Devices |-> {}]
  /\ pc = [d \in Devices |-> "off"]
  /\ cur = [d \in Devices |-> NoSlab]
  /\ slots = [d \in Devices |-> 0]
  /\ nextSlab = 0
  /\ pulls = [s \in Slabs |-> 0]
  /\ staging = [d \in Devices |-> NoSlab]
  /\ pinned = [d \in Devices |-> NoSlab]
  /\ kernels = [d \in Devices |-> << >>]
  /\ kdone = [d \in Devices |-> 0]
  /\ copies = [d \in Devices |-> << >>]
  /\ cdone = [d \in Devices |-> 0]
  /\ mark = [d \in Devices |-> 0]
  /\ region = [s \in Slabs |-> "none"]
  /\ hostMap = [s \in Slabs |-> "empty"]

-----------------------------------------------------------------------------
(* The main thread *)

\* What a device that may pull needs beyond its home slabs.
Scratch(d) == IF Cap[d] > 0 THEN {"stagingDev", "stagingHost"} ELSE {}

\* Allocate and prime device d.  A failing contiguous allocation on the
\* residency device only turns residency off: the slabs get a buffer each.
SetupDevice(d) ==
  /\ phase = "setup" /\ d \in todo
  /\ held' = [held EXCEPT ![d] = {"region"} \union Scratch(d)]
  /\ region' = [s \in Slabs |-> IF OwnerOf[s] = d THEN "primed" ELSE region[s]]
  /\ residencyActive' \in IF d = ResidencyDev /\ "contig" \in Faults
                          THEN {residencyActive, FALSE} ELSE {residencyActive}
  /\ todo' = IF todo = {d} THEN Devices ELSE todo \ {d}
  /\ phase' = IF todo = {d} THEN "streams" ELSE phase
  /\ UNCHANGED <<valid, ret, failed, pc, cur, pullVars, stageVars, streamVars,
                 hostMap>>

\* An allocation or a priming call fails: whatever was allocated so far stays
\* to be torn down and the run is over.
SetupFails(d) ==
  /\ phase = "setup" /\ d \in todo
  /\ "alloc" \in Faults
  /\ \E got \in SUBSET ({"region"} \union Scratch(d)) :
       /\ "stagingHost" \notin got
       /\ "stagingDev" \in got => "region" \in got
       /\ held' = [held EXCEPT ![d] = got]
  /\ phase' = "abandon"
  /\ UNCHANGED <<todo, residencyActive, valid, ret, failed, pc, cur, pullVars,
                 stageVars, streamVars, region, hostMap>>

\* Streams and the compute-end event; a creation that fails leaves a null
\* handle and is not looked at.
CreateStreams(d) ==
  /\ phase = "streams" /\ d \in todo
  /\ \E missing \in SUBSET {"copyStream", "evEndA"} :
       /\ "copyStream" \in missing => "stream" \in Faults
       /\ "evEndA" \in missing => "event" \in Faults
       /\ held' = [held EXCEPT ![d] =
            @ \union ({"computeStream", "copyStream", "evEndA"} \ missing)]
  /\ todo' = todo \ {d}
  /\ UNCHANGED <<phase, residencyActive, valid, ret, failed, pc, cur, pullVars,
                 stageVars, streamVars, region, hostMap>>

\* One thread for every device with a cap.
Spawn ==
  /\ phase = "streams" /\ todo = {}
  /\ phase' = "workers"
  /\ pc' = [d \in Devices |-> IF Cap[d] > 0 THEN "slot" ELSE "exited"]
  /\ UNCHANGED <<todo, residencyActive, valid, ret, held, failed, cur, pullVars,
                 stageVars, streamVars, region, hostMap>>

Join ==
  /\ phase = "workers"
  /\ \A d \in Devices : pc[d] = "exited"
  /\ phase' = "fence"
  /\ todo' = Devices
  /\ UNCHANGED <<residencyActive, valid, ret, held, failed, pc, cur, pullVars,
                 stageVars, streamVars, region, hostMap>>

\* The fence leaves out a device whose copyStream or event is null.
MutFenced(d) == ~failed /\ "copyStream" \in held[d] /\ "evEndA" \in held[d]
Fenced(d) == "copyStream" \in held[d] /\ "evEndA" \in held[d]

\* Record the event on the copyStream and wait for it on the host.
MutFence(d) ==
  /\ phase = "fence" /\ d \in todo
  /\ todo' = todo \ {d}
  /\ UNCHANGED <<phase, residencyActive, valid, ret, held, failed, pc, cur,
                 pullVars, stageVars, streamVars, region, hostMap>>
Fence(d) ==
  /\ phase = "fence" /\ d \in todo
  /\ Fenced(d) => cdone[d] = Len(copies[d])
  /\ todo' = todo \ {d}
  /\ UNCHANGED <<phase, residencyActive, valid, ret, held, failed, pc, cur,
                 pullVars, stageVars, streamVars, region, hostMap>>

FenceFails(d) ==
  /\ phase = "fence" /\ d \in todo
  /\ Fenced(d) /\ "fence" \in Faults
  /\ failed' = TRUE
  /\ todo' = todo \ {d}
  /\ UNCHANGED <<phase, residencyActive, valid, ret, held, pc, cur, pullVars,
                 stageVars, streamVars, region, hostMap>>

\* deferTeardown: the state goes to the residency consumer instead of being
\* torn down.
MutHandOff ==
  /\ phase = "fence" /\ todo = {}
  /\ residencyActive
  /\ valid' = TRUE
  /\ phase' = "returned"
  /\ ret' = "ok"
  /\ UNCHANGED <<todo, residencyActive, held, failed, pc, cur, pullVars,
                 stageVars, streamVars, region, hostMap>>
HandOff ==
  /\ phase = "fence" /\ todo = {}
  /\ residencyActive /\ ~failed
  /\ valid' = TRUE
  /\ phase' = "returned"
  /\ ret' = "ok"
  /\ UNCHANGED <<todo, residencyActive, held, failed, pc, cur, pullVars,
                 stageVars, streamVars, region, hostMap>>

KeepLocal ==
  /\ phase = "fence" /\ todo = {}
  /\ ~residencyActive \/ failed
  /\ phase' = "teardown"
  /\ UNCHANGED <<todo, residencyActive, valid, ret, held, failed, pc, cur,
                 pullVars, stageVars, streamVars, region, hostMap>>

\* teardown() frees the region (one contiguous buffer or one per slab), and
\* each other resource whose pointer is set.
MutTornDown(d) == held[d] \ ({"region", "stagingDev", "stagingHost"}
                             \union {"computeStream", "copyStream"})
TornDown(d) == held[d] \ ({"region"} \union {"stagingDev", "stagingHost"}
                          \union {"computeStream", "copyStream", "evEndA"})

Teardown ==
  /\ phase \in {"teardown", "abandon"}
  /\ held' = [d \in Devices |-> TornDown(d)]
  /\ phase' = "returned"
  /\ ret' = IF failed \/ phase = "abandon" THEN "error" ELSE "ok"
  /\ UNCHANGED <<todo, residencyActive, valid, failed, pc, cur, pullVars,
                 stageVars, streamVars, region, hostMap>>

\* releasePullScheduler, called by the consumer once it is done with the map.
Release ==
  /\ phase = "returned" /\ valid
  /\ held' = [d \in Devices |-> TornDown(d)]
  /\ valid' = FALSE
  /\ UNCHANGED <<phase, todo, residencyActive, ret, failed, pc, cur, pullVars,
                 stageVars, streamVars, region, hostMap>>

-----------------------------------------------------------------------------
(* The owner thread of device d (deviceWorker) *)

Owner(d) == OwnerOf[cur[d]]

Goto(d, step) == pc' = [pc EXCEPT ![d] = step]

\* rc != 0: the worker raises the flag and leaves; the others go on.
Fail(d) == failed' = TRUE /\ Goto(d, "exited")

\* slots[i].fetch_add(1): is there a unit of the cap left to pull for?
MutWithinCap(d) == slots[d] + 1 < Cap[d]
WithinCap(d) == slots[d] < Cap[d]

TakeSlot(d) ==
  /\ pc[d] = "slot"
  /\ slots' = [slots EXCEPT ![d] = @ + 1]
  /\ Goto(d, IF WithinCap(d) THEN "claim" ELSE "exited")
  /\ UNCHANGED <<mainVars, failed, cur, nextSlab, pulls, stageVars, streamVars,
                 region, hostMap>>

\* nextSlab.fetch_add(1): a home slab is computed in place, any other one in
\* the staging scratch.
MutClaimSlab(d) ==
  /\ pc[d] = "claim"
  /\ nextSlab' = nextSlab + 1
  /\ cur' = [cur EXCEPT ![d] = nextSlab + 1]
  /\ pulls' = [pulls EXCEPT ![nextSlab] = @ + 1]
  /\ Goto(d, IF OwnerOf[nextSlab] = d THEN "compute" ELSE "stage")
  /\ UNCHANGED <<mainVars, failed, slots, stageVars, streamVars, region,
                 hostMap>>
ClaimSlab(d) ==
  /\ pc[d] = "claim"
  /\ nextSlab' = nextSlab + 1
  /\ IF nextSlab >= NumSlabs
     THEN Goto(d, "exited") /\ UNCHANGED <<cur, pulls>>
     ELSE /\ cur' = [cur EXCEPT ![d] = nextSlab]
          /\ pulls' = [pulls EXCEPT ![nextSlab] = @ + 1]
          /\ Goto(d, IF OwnerOf[nextSlab] = d THEN "compute" ELSE "stage")
  /\ UNCHANGED <<mainVars, failed, slots, stageVars, streamVars, region,
                 hostMap>>

\* slabComputeAsync: launch the kernel for the home slab on computeStream.
MutCompute(d) ==
  /\ pc[d] = "compute"
  /\ kernels' = [kernels EXCEPT ![d] = Append(@, cur[d])]
  /\ copies' = [copies EXCEPT ![d] =
                  Append(@, CopyEntry(cur[d], Len(kernels[d]) + 1))]
  /\ Goto(d, "record")
  /\ UNCHANGED <<mainVars, failed, cur, pullVars, stageVars, kdone, cdone,
                 mark, region, hostMap>>
Compute(d) ==
  /\ pc[d] = "compute"
  /\ \/ /\ kernels' = [kernels EXCEPT ![d] = Append(@, cur[d])]
        /\ Goto(d, "record")
        /\ UNCHANGED failed
     \/ "compute" \in Faults /\ Fail(d) /\ UNCHANGED kernels
  /\ UNCHANGED <<mainVars, cur, pullVars, stageVars, kdone, copies, cdone,
                 mark, region, hostMap>>

\* recordEvent(evEndA, computeStream).  Its return value is not looked at: a
\* call that fails leaves the event as it was.
Record(d) ==
  /\ pc[d] = "record"
  /\ \/ "evEndA" \in held[d] /\ mark' = [mark EXCEPT ![d] = Len(kernels[d])]
     \/ /\ "evEndA" \notin held[d] \/ "record" \in Faults
        /\ UNCHANGED mark
  /\ Goto(d, "wait")
  /\ UNCHANGED <<mainVars, failed, cur, pullVars, stageVars, kernels, kdone,
                 copies, cdone, region, hostMap>>

\* waitEvent(evEndA, copyStream): gates the stream on what the event stands
\* for now.
WaitEvent(d) ==
  /\ pc[d] = "wait"
  /\ \/ /\ "evEndA" \in held[d]
        /\ copies' = [copies EXCEPT ![d] = Append(@, WaitEntry(mark[d]))]
        /\ Goto(d, "enqueue")
     \/ /\ "evEndA" \notin held[d] \/ "wait" \in Faults
        /\ Goto(d, "fallback")
        /\ UNCHANGED copies
  /\ UNCHANGED <<mainVars, failed, cur, pullVars, stageVars, kernels, kdone,
                 cdone, mark, region, hostMap>>

\* copyD2HAsync of the home slab on the device's own copyStream.
EnqueueCopy(d) ==
  /\ pc[d] = "enqueue"
  /\ \/ /\ copies' = [copies EXCEPT ![d] =
                        Append(@, CopyEntry(cur[d], ImplicitGate(d)))]
        /\ Goto(d, "slot")
     \/ "enqueue" \in Faults /\ Goto(d, "fallback") /\ UNCHANGED copies
  /\ UNCHANGED <<mainVars, failed, cur, pullVars, stageVars, kernels, kdone,
                 cdone, mark, region, hostMap>>

\* The synchronous copy that replaces a failed asynchronous one, from the
\* memory of device o.
SyncCopy(d, o) ==
  \/ /\ Drained(o)
     /\ hostMap' = [hostMap EXCEPT ![cur[d]] = Image(cur[d])]
     /\ Goto(d, "slot")
     /\ UNCHANGED failed
  \/ "copy" \in Faults /\ Fail(d) /\ UNCHANGED hostMap

FallbackCopy(d) ==
  /\ pc[d] = "fallback"
  /\ SyncCopy(d, d)
  /\ UNCHANGED <<mainVars, cur, pullVars, stageVars, streamVars, region>>

\* slabCompute: prime the staging scratch and sieve the slab in it,
\* synchronously.
Stage(d) ==
  /\ pc[d] = "stage"
  /\ \/ /\ Drained(d)
        /\ staging' = [staging EXCEPT ![d] = cur[d]]
        /\ Goto(d, IF Owner(d) = Homeless THEN "direct" ELSE "land")
        /\ UNCHANGED failed
     \/ "compute" \in Faults /\ Fail(d) /\ UNCHANGED staging
  /\ UNCHANGED <<mainVars, cur, pullVars, pinned, streamVars, region, hostMap>>

\* Homeless slab: straight from the staging scratch into the host map.
Direct(d) ==
  /\ pc[d] = "direct"
  /\ \/ /\ Drained(d)
        /\ hostMap' = [hostMap EXCEPT ![cur[d]] =
                         IF staging[d] = cur[d] THEN "final" ELSE "raw"]
        /\ Goto(d, "slot")
        /\ UNCHANGED failed
     \/ "copy" \in Faults /\ Fail(d) /\ UNCHANGED hostMap
  /\ UNCHANGED <<mainVars, cur, pullVars, stageVars, streamVars, region>>

\* Foreign slab: staging scratch -> pinned host buffer ...
Land(d) ==
  /\ pc[d] = "land"
  /\ \/ /\ Drained(d)
        /\ pinned' = [pinned EXCEPT ![d] = staging[d]]
        /\ Goto(d, "push")
        /\ UNCHANGED failed
     \/ "copy" \in Faults /\ Fail(d) /\ UNCHANGED pinned
  /\ UNCHANGED <<mainVars, cur, pullVars, staging, streamVars, region, hostMap>>

\* ... -> the slab's buffer in its owner's memory ...
Push(d) ==
  /\ pc[d] = "push"
  /\ \/ /\ Drained(Owner(d))
        /\ region' = [region EXCEPT ![cur[d]] =
                        IF pinned[d] = cur[d] THEN "sieved" ELSE @]
        /\ Goto(d, "relay")
        /\ UNCHANGED failed
     \/ "copy" \in Faults /\ Fail(d) /\ UNCHANGED region
  /\ UNCHANGED <<mainVars, cur, pullVars, stageVars, streamVars, hostMap>>

\* ... -> the host map, on the owner's copyStream when it has one.
Relay(d) ==
  LET o == Owner(d) IN
  /\ pc[d] = "relay"
  /\ \/ /\ "copyStream" \in held[o]
        /\ copies' = [copies EXCEPT ![o] = Append(@, CopyEntry(cur[d], 0))]
        /\ Goto(d, "slot")
     \/ /\ "copyStream" \notin held[o] \/ "enqueue" \in Faults
        /\ Goto(d, "relaySync")
        /\ UNCHANGED copies
  /\ UNCHANGED <<mainVars, failed, cur, pullVars, stageVars, kernels, kdone,
                 cdone, mark, region, hostMap>>

RelaySync(d) ==
  /\ pc[d] = "relaySync"
  /\ SyncCopy(d, Owner(d))
  /\ UNCHANGED <<mainVars, cur, pullVars, stageVars, streamVars, region>>

Worker(d) ==
  \/ TakeSlot(d) \/ ClaimSlab(d)
  \/ Compute(d) \/ Record(d) \/ WaitEvent(d) \/ EnqueueCopy(d)
  \/ FallbackCopy(d)
  \/ Stage(d) \/ Direct(d) \/ Land(d) \/ Push(d) \/ Relay(d) \/ RelaySync(d)

-----------------------------------------------------------------------------
(* The streams of device d: each runs its operations in enqueue order *)

KernelDone(d) ==
  /\ "region" \in held[d]
  /\ kdone[d] < Len(kernels[d])
  /\ kdone' = [kdone EXCEPT ![d] = @ + 1]
  /\ region' = [region EXCEPT ![kernels[d][kdone[d] + 1]] = "sieved"]
  /\ UNCHANGED <<mainVars, failed, pc, cur, pullVars, stageVars, kernels,
                 copies, cdone, mark, hostMap>>

CopyStep(d) ==
  LET entry == copies[d][cdone[d] + 1] IN
  /\ "region" \in held[d]
  /\ cdone[d] < Len(copies[d])
  /\ entry.after <= kdone[d]
  /\ cdone' = [cdone EXCEPT ![d] = @ + 1]
  /\ hostMap' = IF entry.slab = NoSlab THEN hostMap
                ELSE [hostMap EXCEPT ![entry.slab] = Image(entry.slab)]
  /\ UNCHANGED <<mainVars, failed, pc, cur, pullVars, stageVars, kernels,
                 kdone, copies, mark, region>>

-----------------------------------------------------------------------------
(* Specification *)

SetupStep(d) == SetupDevice(d) \/ SetupFails(d) \/ CreateStreams(d)

FenceStep(d) == Fence(d) \/ FenceFails(d)

Main ==
  \/ \E d \in Devices : SetupStep(d) \/ FenceStep(d)
  \/ Spawn \/ Join \/ HandOff \/ KeepLocal \/ Teardown \/ Release

Streams(d) == KernelDone(d) \/ CopyStep(d)

\* The call has returned and nothing is handed off any more.
Idle == phase = "returned" /\ ~valid /\ UNCHANGED vars

Next == Main \/ (\E d \in Devices : Worker(d) \/ Streams(d)) \/ Idle

Spec == Init /\ [][Next]_vars

\* Threads are scheduled and devices make progress on what is enqueued.
Fairness ==
  /\ WF_vars(Main)
  /\ \A d \in Devices :
       /\ WF_vars(Worker(d))
       /\ WF_vars(KernelDone(d))
       /\ WF_vars(CopyStep(d))

FairSpec == Spec /\ Fairness

-----------------------------------------------------------------------------
(* Properties *)

\* The pull counters hand out every slab, and hand it out once, whatever the
\* interleaving of the two fetch_adds: a run that reports success has pulled
\* each slab exactly once, and no run ever pulls one twice
\* (pull_scheduler.h:64-68).
AllPulledOnce ==
  /\ \A s \in Slabs : pulls[s] <= 1
  /\ ret = "ok" => \A s \in Slabs : pulls[s] = 1

\* The call returns a value only when the final bytes of every slab are in
\* the host map (pull_scheduler.h:44, 76-79).
SuccessIsComplete == ret = "ok" => \A s \in Slabs : hostMap[s] = "final"

\* No copy ever puts a slab's bytes into the host map before the slab is
\* sieved: the wait in front of a home slab's copy, and the synchronous chain
\* in front of a relayed one, order every copy behind its producer
\* (pull_scheduler.cpp:197-203, 225-229).
NoCopyBeforeSieve == \A s \in Slabs : hostMap[s] # "raw"

\* While the map is handed off, every slab the residency device owns is final
\* in its memory and nothing enqueued on that device is still to run
\* (pull_scheduler.h:32-37).
HandOffIsFinal ==
  valid => /\ Drained(ResidencyDev)
           /\ \A s \in Slabs : OwnerOf[s] = ResidencyDev => region[s] = "sieved"

\* A device's memory is not freed under an enqueued copy, on the success and
\* on the failure path (pull_scheduler.cpp:573-574).
NoFreeUnderCopy ==
  phase = "returned" =>
    \A d \in Devices : "region" \notin held[d] => cdone[d] = Len(copies[d])

\* Whatever way the call ends, and wherever a setup call failed, nothing stays
\* allocated but what is handed off (teardown, releasePullScheduler).
NothingLeaks ==
  phase = "returned" /\ ~valid => \A d \in Devices : held[d] = {}

\* A copy that is still to run is the only producer its slab has: the slab is
\* not in the host map yet, and no other pending copy writes it
\* (pull_scheduler.cpp:188-191).
Pending == {e \in Devices \X (1 .. 2 * NumSlabs) :
              /\ e[2] \in cdone[e[1]] + 1 .. Len(copies[e[1]])
              /\ copies[e[1]][e[2]].slab # NoSlab}
SoleProducer ==
  \A e \in Pending :
    LET s == copies[e[1]][e[2]].slab IN
    /\ hostMap[s] = "empty"
    /\ \A f \in Pending : copies[f[1]][f[2]].slab = s => f = e

\* Once the call has returned, no copy and no kernel changes the host map or
\* the resident slabs behind the caller's back (pull_scheduler.h:76-79).
QuietAfterReturn ==
  [][phase = "returned" => UNCHANGED <<hostMap, region>>]_vars

\* The scheduler implements the promise of SlabSieve, and so returns, whichever
\* device calls fail (pull_scheduler.h:57-96).
Promise == INSTANCE SlabSieve WITH
             done <- {s \in Slabs : hostMap[s] = "final"},
             outcome <- IF ret = "none" THEN "running" ELSE ret
ImplementsPromise == Promise!FairSpec
=============================================================================
