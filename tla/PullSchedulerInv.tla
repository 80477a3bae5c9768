-------------------------- MODULE PullSchedulerInv -------------------------
(***************************************************************************)
(* The inductive invariants behind the theorems of PullSchedulerProofs.     *)
(***************************************************************************)
EXTENDS PullScheduler

\* Tickets drawn so far, and devices that have drawn one and not yet claimed
\* a slab for it.
Drawn == {t \in Tickets : t[2] < slots[t[1]]}
Claiming == {d \in Devices : pc[d] = "claim"}

\* How the main thread's phase, the workers and the result go together.
PhaseInv ==
  /\ phase \in {"setup", "streams", "abandon"} => \A d \in Devices : pc[d] = "off"
  /\ phase = "workers" => \A d \in Devices : pc[d] # "off"
  /\ phase \in {"fence", "teardown"} => \A d \in Devices : pc[d] = "exited"
  /\ ret = "ok" => /\ phase = "returned" /\ ~failed
                   /\ \A d \in Devices : pc[d] = "exited"
  /\ ret # "none" => phase = "returned"
  /\ phase = "returned" => \A d \in Devices : pc[d] \in {"off", "exited"}

\* Every ticket drawn is a slab claimed or about to be, so the counter hands
\* out each slab once and never runs past the map; a worker that leaves
\* without a failure has used up its cap.
CountInv ==
  /\ \A s \in Slabs : pulls[s] = IF s < nextSlab THEN 1 ELSE 0
  /\ Cardinality(Drawn) = nextSlab + Cardinality(Claiming)
  /\ ~failed => \A d \in Devices : pc[d] = "exited" => slots[d] >= Cap[d]

PullInv == PhaseInv /\ CountInv

\* A worker past its claim works on a slab of the map.
CurType == \A d \in Devices : pc[d] \notin {"off", "slot", "claim", "exited"}
                                => cur[d] \in Slabs

-----------------------------------------------------------------------------
(* What the theorems about the map need of the device calls whose results    *)
(* the code drops                                                            *)

\* Recording the compute-end event does not fail.
RecordsSucceed == "record" \notin Faults

\* Streams and events are created.
StreamsCreated == Faults \intersect {"stream", "event"} = {}

\* Fencing a copy stream does not fail.
FencesSucceed == "fence" \notin Faults

-----------------------------------------------------------------------------
(* Vocabulary *)

\* Worker d has slab s in hand: claimed, and not yet passed on or given up.
Working(d) == pc[d] \notin {"off", "slot", "claim", "exited"}
InHand(d, s) == Working(d) /\ cur[d] = s

\* Entry i of d's copyStream is the copy of a slab.
IsCopy(d, i) == i \in 1 .. Len(copies[d]) /\ copies[d][i].slab # NoSlab

\* Slab s is in an entry of a copyStream that is still to run.
Underway(s) ==
  \E d \in Devices : \E i \in 1 .. Len(copies[d]) : i > cdone[d] /\ copies[d][i].slab = s

\* A kernel launched on device d sieves slab s.
Launched(d, s) == \E k \in 1 .. Len(kernels[d]) : kernels[d][k] = s

\* A gate among the first n entries of d's copyStream stands behind a kernel
\* that sieves s.
Gated(d, s, n) ==
  \E j \in 1 .. n, k \in 1 .. Len(kernels[d]) :
    kernels[d][k] = s /\ copies[d][j].after >= k

\* Every kernel of device d has ended or is waited for by its copyStream.
Covered(d) ==
  \/ kdone[d] = Len(kernels[d])
  \/ \E j \in 1 .. Len(copies[d]) : copies[d][j].after >= Len(kernels[d])

-----------------------------------------------------------------------------
(* Whatever fails *)

\* What is allocated when, and what there is to run before the workers start.
HeldInv ==
  /\ phase \in {"setup", "streams", "abandon"} =>
       nextSlab = 0 /\ \A d \in Devices : kernels[d] = << >> /\ copies[d] = << >>
  /\ phase = "setup" => \A d \in Devices \ todo : "region" \in held[d]
  /\ phase \in {"streams", "workers", "fence", "teardown"} =>
       \A d \in Devices : "region" \in held[d]
  /\ valid => phase = "returned" /\ ret = "ok" /\ residencyActive
  /\ phase = "returned" => ret # "none"
  /\ phase = "returned" /\ ~valid => \A d \in Devices : held[d] = {}
  /\ residencyActive => ResidencyDev \in Devices

\* The streams never run ahead of what is enqueued, a kernel that has ended has
\* left its slab sieved, and a gate that was passed stood behind ended kernels.
StreamInv ==
  \A d \in Devices :
    /\ kdone[d] <= Len(kernels[d])
    /\ cdone[d] <= Len(copies[d])
    /\ \A k \in 1 .. kdone[d] : region[kernels[d][k]] = "sieved"
    /\ \A j \in 1 .. cdone[d] : copies[d][j].after <= kdone[d]

\* A home slab goes the way of home slabs, a homeless one straight to the host
\* map, any other by its owner.
RouteInv ==
  \A d \in Devices :
    /\ pc[d] \in {"compute", "record", "wait", "enqueue", "fallback"} => OwnerOf[cur[d]] = d
    /\ pc[d] = "direct" => OwnerOf[cur[d]] = Homeless
    /\ pc[d] \in {"land", "push", "relay", "relaySync"} => OwnerOf[cur[d]] \in Devices

\* The scratch buffers hold the slab a worker is about to pass on, and a relayed
\* slab has reached its owner.
ScratchInv ==
  \A d \in Devices :
    /\ pc[d] \in {"land", "direct"} => staging[d] = cur[d]
    /\ pc[d] = "push" => pinned[d] = cur[d]
    /\ pc[d] \in {"relay", "relaySync"} => region[cur[d]] = "sieved"

\* The slab in worker d's hand, and the one entry i of d's copyStream copies,
\* is nowhere else on its way.
SoleHand(d) ==
  /\ cur[d] < nextSlab
  /\ hostMap[cur[d]] = "empty"
  /\ \A e \in Devices : InHand(e, cur[d]) => e = d
  /\ \A e \in Devices : \A i \in 1 .. Len(copies[e]) : copies[e][i].slab # cur[d]
SoleEntry(d, i) ==
  /\ copies[d][i].slab < nextSlab
  /\ i > cdone[d] => hostMap[copies[d][i].slab] = "empty"
  /\ \A e \in Devices : \A j \in 1 .. Len(copies[e]) :
       copies[e][j].slab = copies[d][i].slab => e = d /\ j = i

\* A slab is in one hand, or in one entry of one copyStream, or in neither; and
\* until it is copied the host map is without it.
SourceInv ==
  /\ \A s \in Slabs : hostMap[s] # "empty" => s < nextSlab
  /\ \A d \in Devices : Working(d) => SoleHand(d)
  /\ \A d \in Devices : \A i \in 1 .. Len(copies[d]) : IsCopy(d, i) => SoleEntry(d, i)

\* A slab that was pulled without a failure is in the host map, in a hand or on
\* its way in a copyStream.
ArrivalInv ==
  ~failed => \A s \in Slabs : s < nextSlab =>
    \/ hostMap[s] # "empty"
    \/ \E d \in Devices : InHand(d, s)
    \/ Underway(s)

\* And if it has a home it is sieved there, or will be by a kernel of its owner,
\* or is on its way to it.
HomeInv ==
  ~failed => \A s \in Slabs : s < nextSlab /\ OwnerOf[s] \in Devices =>
    \/ region[s] = "sieved"
    \/ Launched(OwnerOf[s], s)
    \/ \E d \in Devices : InHand(d, s) /\ pc[d] \in {"compute", "stage", "land", "push"}

-----------------------------------------------------------------------------
(* If recording does not fail *)

\* Every copy enqueued is of a slab that is sieved, or will be when the gates
\* in front of it have let it run; and so is the one in each worker's hand.
OrderInv ==
  /\ \A d \in Devices : \A i \in 1 .. Len(copies[d]) : IsCopy(d, i) =>
       region[copies[d][i].slab] = "sieved" \/ Gated(d, copies[d][i].slab, i)
  /\ \A d \in Devices :
       /\ pc[d] \in {"record", "wait", "enqueue", "fallback"} => Launched(d, cur[d])
       /\ pc[d] = "wait" /\ "evEndA" \in held[d] => mark[d] = Len(kernels[d])
       /\ pc[d] = "enqueue" => Gated(d, cur[d], Len(copies[d]))
  /\ NoCopyBeforeSieve

\* Without a failure no kernel is left that nothing waits for.
CoverInv ==
  ~failed => \A d \in Devices : Covered(d) \/ pc[d] \in {"record", "wait", "fallback"}

-----------------------------------------------------------------------------
(* If streams and events are created *)

\* A copyStream that was fenced has run dry.
FenceInv ==
  /\ phase = "streams" => \A d \in Devices \ todo : {"copyStream", "evEndA"} \subseteq held[d]
  /\ phase \in {"workers", "fence"} => \A d \in Devices : {"copyStream", "evEndA"} \subseteq held[d]
  /\ phase = "fence" /\ (~failed \/ FencesSucceed) =>
       \A d \in Devices \ todo : cdone[d] = Len(copies[d])
  /\ phase \in {"teardown", "returned"} /\ (~failed \/ FencesSucceed) =>
       \A d \in Devices : cdone[d] = Len(copies[d])

\* From the claim of a slab to the end of the fence.
CopyInv ==
  /\ HeldInv /\ StreamInv /\ RouteInv /\ ScratchInv /\ SourceInv /\ ArrivalInv
  /\ HomeInv
  /\ RecordsSucceed => OrderInv /\ CoverInv
  /\ StreamsCreated => FenceInv
=============================================================================
