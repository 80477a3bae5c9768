------------------------ MODULE PullSchedulerProofs ------------------------
(***************************************************************************)
(* Theorems about PullScheduler, for every set of devices, every number of  *)
(* slabs, every assignment of caps and homes, and every set of faults that  *)
(* the hypotheses of a theorem do not exclude.                              *)
(***************************************************************************)
EXTENDS PullSchedulerInv, FiniteSetTheorems, TLAPS

(* Types *)

\* The names of the steps are steps.
LEMMA StepNames ==
  \A x \in {"off", "slot", "claim", "compute", "record", "wait", "enqueue",
            "fallback", "stage", "direct", "land", "push", "relay",
            "relaySync", "exited"} : x \in Steps
  BY DEF Steps

\* Moving a worker on keeps pc typed.
LEMMA GotoType ==
  ASSUME PullType, NEW d \in Devices, NEW step \in Steps, Goto(d, step)
  PROVE  pc' \in [Devices -> Steps]
  BY DEF PullType, Goto

\* Enqueueing an entry keeps the copy streams typed.
LEMMA AppendType ==
  ASSUME DeviceType, NEW d \in Devices, NEW e \in Entry,
         copies' = [copies EXCEPT ![d] = Append(@, e)]
  PROVE  copies' \in [Devices -> Seq(Entry)]
  BY DEF DeviceType

\* Putting a copy of a slab into the host map keeps it typed.
LEMMA ImageType ==
  ASSUME DeviceType, NEW s \in Slabs,
         hostMap' = [hostMap EXCEPT ![s] = Image(s)]
  PROVE  hostMap' \in [Slabs -> {"empty", "raw", "final"}]
  BY DEF DeviceType, Image

\* A step of the main thread (set-up, spawn, join, fence, hand-off, teardown)
\* keeps every variable typed.
LEMMA MainThreadType ==
  ASSUME TypeOK, Main
  PROVE  TypeOK'
<1> USE DEF TypeOK
<1>1. ASSUME NEW d \in Devices, SetupDevice(d) PROVE TypeOK'
  <2>1. MainType'
    <3>1. phase' \in Phases BY <1>1 DEF SetupDevice, MainType, Phases
    <3>2. held' \in [Devices -> SUBSET Resources]
      BY <1>1 DEF SetupDevice, MainType, Resources, Scratch
    <3>3. residencyActive' \in BOOLEAN
      BY <1>1 DEF SetupDevice, MainType
    <3>4. todo' \subseteq Devices
      BY <1>1 DEF SetupDevice, MainType
    <3>5. QED BY <1>1, <3>1, <3>2, <3>3, <3>4 DEF SetupDevice, MainType
  <2>2. PullType'
    BY <1>1 DEF SetupDevice, PullType, pullVars, stageVars
  <2>3. region' \in [Slabs -> {"none", "primed", "sieved"}]
    BY <1>1 DEF SetupDevice, DeviceType
  <2>4. DeviceType'
    BY <1>1, <2>3 DEF SetupDevice, DeviceType, streamVars
  <2>5. QED BY <2>1, <2>2, <2>4
<1>2. ASSUME NEW d \in Devices, SetupFails(d) PROVE TypeOK'
  <2>1. held' \in [Devices -> SUBSET Resources]
    BY <1>2 DEF SetupFails, MainType, Resources, Scratch
  <2>2. MainType'
    BY <1>2, <2>1 DEF SetupFails, MainType, Phases
  <2>3. PullType' /\ DeviceType'
    BY <1>2 DEF SetupFails, PullType, DeviceType, pullVars, stageVars, streamVars
  <2>4. QED BY <2>2, <2>3
<1>3. ASSUME NEW d \in Devices, CreateStreams(d) PROVE TypeOK'
  <2>1. held' \in [Devices -> SUBSET Resources]
    BY <1>3 DEF CreateStreams, MainType, Resources
  <2>2. MainType'
    BY <1>3, <2>1 DEF CreateStreams, MainType
  <2>3. PullType' /\ DeviceType'
    BY <1>3 DEF CreateStreams, PullType, DeviceType, pullVars, stageVars,
                streamVars
  <2>4. QED BY <2>2, <2>3
<1>4. ASSUME NEW d \in Devices, FenceStep(d) PROVE TypeOK'
  <2>1. MainType'
    BY <1>4 DEF FenceStep, Fence, FenceFails, MainType
  <2>2. PullType'
    BY <1>4 DEF FenceStep, Fence, FenceFails, PullType, pullVars, stageVars
  <2>3. DeviceType'
    BY <1>4 DEF FenceStep, Fence, FenceFails, DeviceType, streamVars
  <2>4. QED BY <2>1, <2>2, <2>3
<1>5. CASE Spawn
  <2>1. pc' \in [Devices -> Steps] BY <1>5, StepNames DEF Spawn
  <2>2. MainType' BY <1>5 DEF Spawn, MainType, Phases
  <2>3. PullType' BY <1>5, <2>1 DEF Spawn, PullType, pullVars, stageVars
  <2>4. DeviceType' BY <1>5 DEF Spawn, DeviceType, streamVars
  <2>5. QED BY <2>2, <2>3, <2>4
<1>6. CASE Join \/ HandOff \/ KeepLocal
  <2>1. MainType' BY <1>6 DEF Join, HandOff, KeepLocal, MainType, Phases
  <2>2. PullType' /\ DeviceType'
    BY <1>6 DEF Join, HandOff, KeepLocal, PullType, DeviceType, pullVars,
                stageVars, streamVars
  <2>3. QED BY <2>1, <2>2
<1>7. CASE Teardown \/ Release
  <2>1. held' \in [Devices -> SUBSET Resources]
    BY <1>7 DEF Teardown, Release, TornDown, MainType
  <2>2. MainType' BY <1>7, <2>1 DEF Teardown, Release, MainType, Phases
  <2>3. PullType' /\ DeviceType'
    BY <1>7 DEF Teardown, Release, PullType, DeviceType, pullVars, stageVars,
                streamVars
  <2>4. QED BY <2>2, <2>3
<1>8. QED
  BY <1>1, <1>2, <1>3, <1>4, <1>5, <1>6, <1>7 DEF Main, SetupStep

\* Drawing a ticket and claiming a slab keep every variable typed.
LEMMA PullStepType ==
  ASSUME TypeOK, NEW d \in Devices, TakeSlot(d) \/ ClaimSlab(d)
  PROVE  TypeOK'
<1> USE DEF TypeOK
<1>1. MainType' /\ DeviceType'
  BY DEF MainType, DeviceType, TakeSlot, ClaimSlab, mainVars, streamVars
<1>2. CASE TakeSlot(d)
  <2>1. pc' \in [Devices -> Steps]
    BY <1>2, GotoType, StepNames DEF TakeSlot
  <2>2. slots' \in [Devices -> Nat]
    BY <1>2 DEF PullType, TakeSlot
  <2>3. PullType'
    BY <1>2, <2>1, <2>2 DEF PullType, TakeSlot, stageVars
  <2>4. QED BY <1>1, <2>3
<1>3. CASE ClaimSlab(d)
  <2>1. pc' \in [Devices -> Steps]
    BY <1>3, GotoType, StepNames DEF ClaimSlab
  <2>2. cur' \in [Devices -> Slabs \union {NoSlab}]
    BY <1>3, NumSlabsAssumption DEF PullType, ClaimSlab, Slabs
  <2>3. pulls' \in [Slabs -> Nat]
    BY <1>3, NumSlabsAssumption DEF PullType, ClaimSlab, Slabs
  <2>4. PullType'
    BY <1>3, <2>1, <2>2, <2>3 DEF PullType, ClaimSlab, stageVars
  <2>5. QED BY <1>1, <2>4
<1>4. QED BY <1>2, <1>3

\* The steps a worker takes on a slab of its own keep every variable typed.
LEMMA HomeStepType ==
  ASSUME TypeOK, CurType, NEW d \in Devices,
         Compute(d) \/ Record(d) \/ WaitEvent(d) \/ EnqueueCopy(d)
         \/ FallbackCopy(d)
  PROVE  TypeOK'
<1> USE DEF TypeOK
<1>1. MainType'
  BY DEF MainType, Compute, Record, WaitEvent, EnqueueCopy, FallbackCopy,
         SyncCopy, Fail, mainVars
<1>2. pc' \in [Devices -> Steps]
  BY GotoType, StepNames
     DEF Compute, Record, WaitEvent, EnqueueCopy, FallbackCopy, SyncCopy, Fail
<1>3. PullType'
  BY <1>2 DEF PullType, Compute, Record, WaitEvent, EnqueueCopy, FallbackCopy,
              pullVars, stageVars
<1>4. CASE Compute(d)
  <2>1. cur[d] \in Slabs BY <1>4 DEF Compute, CurType
  <2>2. kernels' \in [Devices -> Seq(Slabs)]
    <3>1. kernels \in [Devices -> Seq(Slabs)] BY DEF DeviceType
    <3>2. \/ kernels' = [kernels EXCEPT ![d] = Append(@, cur[d])]
          \/ kernels' = kernels
      BY <1>4 DEF Compute
    <3>3. Append(kernels[d], cur[d]) \in Seq(Slabs) BY <2>1, <3>1
    <3>4. QED BY <3>1, <3>2, <3>3
  <2>3. DeviceType' BY <1>4, <2>2 DEF Compute, DeviceType
  <2>4. QED BY <1>1, <1>3, <2>3
<1>5. CASE Record(d)
  <2>1. mark' \in [Devices -> Nat]
    BY <1>5 DEF Record, DeviceType
  <2>2. DeviceType' BY <1>5, <2>1 DEF Record, DeviceType
  <2>3. QED BY <1>1, <1>3, <2>2
<1>6. CASE WaitEvent(d)
  <2>1. WaitEntry(mark[d]) \in Entry
    BY DEF DeviceType, WaitEntry, Entry
  <2>2. copies' \in [Devices -> Seq(Entry)]
    BY <1>6, <2>1, AppendType DEF WaitEvent, DeviceType
  <2>3. DeviceType' BY <1>6, <2>2 DEF WaitEvent, DeviceType
  <2>4. QED BY <1>1, <1>3, <2>3
<1>7. CASE EnqueueCopy(d)
  <2>1. CopyEntry(cur[d], ImplicitGate(d)) \in Entry
    BY DEF DeviceType, PullType, CopyEntry, ImplicitGate, Entry
  <2>2. copies' \in [Devices -> Seq(Entry)]
    BY <1>7, <2>1, AppendType DEF EnqueueCopy, DeviceType
  <2>3. DeviceType' BY <1>7, <2>2 DEF EnqueueCopy, DeviceType
  <2>4. QED BY <1>1, <1>3, <2>3
<1>8. CASE FallbackCopy(d)
  <2>1. cur[d] \in Slabs BY <1>8 DEF FallbackCopy, CurType
  <2>2. hostMap' \in [Slabs -> {"empty", "raw", "final"}]
    BY <1>8, <2>1, ImageType DEF FallbackCopy, SyncCopy, DeviceType
  <2>3. DeviceType' BY <1>8, <2>2 DEF FallbackCopy, DeviceType, streamVars
  <2>4. QED BY <1>1, <1>3, <2>3
<1>9. QED BY <1>4, <1>5, <1>6, <1>7, <1>8

\* The steps a worker takes on a slab of another device, or of none, keep
\* every variable typed.
LEMMA StagedStepType ==
  ASSUME TypeOK, CurType, NEW d \in Devices,
         Stage(d) \/ Direct(d) \/ Land(d) \/ Push(d) \/ Relay(d) \/ RelaySync(d)
  PROVE  TypeOK'
<1> USE DEF TypeOK
<1>1. MainType'
  BY DEF MainType, Stage, Direct, Land, Push, Relay, RelaySync, SyncCopy, Fail,
         mainVars
<1>2. pc' \in [Devices -> Steps]
  BY GotoType, StepNames
     DEF Stage, Direct, Land, Push, Relay, RelaySync, SyncCopy, Fail
<1>3. cur[d] \in Slabs
  BY DEF CurType, Stage, Direct, Land, Push, Relay, RelaySync
<1>4. CASE Stage(d) \/ Land(d)
  <2>1. PullType'
    BY <1>2, <1>4 DEF PullType, Stage, Land, pullVars
  <2>2. DeviceType' BY <1>4 DEF DeviceType, Stage, Land, streamVars
  <2>3. QED BY <1>1, <2>1, <2>2
<1>5. CASE Direct(d) \/ Push(d)
  <2>1. PullType'
    BY <1>2, <1>5 DEF PullType, Direct, Push, pullVars, stageVars
  <2>2. hostMap' \in [Slabs -> {"empty", "raw", "final"}]
    BY <1>3, <1>5 DEF DeviceType, Direct, Push
  <2>3. region' \in [Slabs -> {"none", "primed", "sieved"}]
    BY <1>3, <1>5 DEF DeviceType, Direct, Push
  <2>4. DeviceType' BY <1>5, <2>2, <2>3 DEF DeviceType, Direct, Push, streamVars
  <2>5. QED BY <1>1, <2>1, <2>4
<1>6. CASE Relay(d)
  <2>1. PullType' BY <1>2, <1>6 DEF PullType, Relay, pullVars, stageVars
  <2>2. CopyEntry(cur[d], 0) \in Entry BY <1>3 DEF CopyEntry, Entry
  <2>3. CASE copies # copies'
    <3>1. copies' = [copies EXCEPT ![Owner(d)] = Append(@, CopyEntry(cur[d], 0))]
      BY <1>6, <2>3 DEF Relay
    <3>2. Owner(d) \in Devices
      BY <2>3, <3>1 DEF DeviceType
    <3>3. copies' \in [Devices -> Seq(Entry)]
      BY <2>2, <3>1, <3>2, AppendType
    <3>4. DeviceType' BY <1>6, <3>3 DEF Relay, DeviceType
    <3>5. QED BY <1>1, <2>1, <3>4
  <2>4. CASE UNCHANGED copies
    BY <1>1, <1>6, <2>1, <2>4 DEF Relay, DeviceType
  <2>5. QED BY <2>3, <2>4
<1>7. CASE RelaySync(d)
  <2>1. PullType' BY <1>2, <1>7 DEF PullType, RelaySync, pullVars, stageVars
  <2>2. hostMap' \in [Slabs -> {"empty", "raw", "final"}]
    BY <1>3, <1>7, ImageType DEF RelaySync, SyncCopy, DeviceType
  <2>3. DeviceType' BY <1>7, <2>2 DEF RelaySync, DeviceType, streamVars
  <2>4. QED BY <1>1, <2>1, <2>3
<1>8. QED BY <1>4, <1>5, <1>6, <1>7

\* A kernel or a copy that ends on a stream keeps every variable typed.
LEMMA DeviceStepType ==
  ASSUME TypeOK, NEW d \in Devices, Streams(d)
  PROVE  TypeOK'
<1> USE DEF TypeOK
<1>1. MainType' /\ PullType'
  BY DEF MainType, PullType, Streams, KernelDone, CopyStep, mainVars, pullVars,
         stageVars
<1>2. CASE KernelDone(d)
  <2>1. kernels[d][kdone[d] + 1] \in Slabs
    BY <1>2 DEF KernelDone, DeviceType
  <2>2. DeviceType' BY <1>2, <2>1 DEF KernelDone, DeviceType
  <2>3. QED BY <1>1, <2>2
<1>3. CASE CopyStep(d)
  <2> DEFINE entry == copies[d][cdone[d] + 1]
  <2>1. entry \in Entry BY <1>3 DEF CopyStep, DeviceType
  <2>2. hostMap' \in [Slabs -> {"empty", "raw", "final"}]
    <3>1. CASE entry.slab = NoSlab
      BY <1>3, <3>1 DEF CopyStep, DeviceType
    <3>2. CASE entry.slab # NoSlab
      <4>1. entry.slab \in Slabs BY <2>1, <3>2 DEF Entry
      <4>2. QED BY <1>3, <3>2, <4>1, ImageType DEF CopyStep
    <3>3. QED BY <3>1, <3>2
  <2>3. cdone' \in [Devices -> Nat] BY <1>3 DEF CopyStep, DeviceType
  <2>4. DeviceType' BY <1>3, <2>2, <2>3 DEF CopyStep, DeviceType
  <2>5. QED BY <1>1, <2>4
<1>4. QED BY <1>2, <1>3 DEF Streams

-----------------------------------------------------------------------------
(* Pulling *)

\* The tickets are a finite set.
LEMMA TicketsFinite == IsFiniteSet(Tickets) /\ Cardinality(Tickets) = NumSlabs
<1>1. IsFiniteSet(0 .. NumSlabs - 1)
  BY FS_Interval, NumSlabsAssumption
<1>2. IsFiniteSet(Devices \X (0 .. NumSlabs - 1))
  BY <1>1, FS_Product, DevicesAssumption
<1>3. Tickets \in SUBSET (Devices \X (0 .. NumSlabs - 1))
  BY DEF Tickets
<1>4. QED BY <1>2, <1>3, FS_Subset, CapAssumption

\* The sets that CountInv counts are finite.
LEMMA CountedFinite ==
  /\ IsFiniteSet(Drawn) /\ Cardinality(Drawn) \in Nat
  /\ Cardinality(Drawn) <= NumSlabs
  /\ Cardinality(Drawn) = NumSlabs => Drawn = Tickets
  /\ IsFiniteSet(Claiming) /\ Cardinality(Claiming) \in Nat
<1>1. Drawn \in SUBSET Tickets /\ Claiming \in SUBSET Devices
  BY DEF Drawn, Claiming
<1>2. QED
  BY <1>1, TicketsFinite, FS_Subset, FS_CardinalityType, DevicesAssumption

\* A worker that holds a ticket always finds a slab: the counter is inside the
\* map at every claim.
LEMMA ClaimInsideMap ==
  ASSUME TypeOK, CountInv, NEW d \in Devices, pc[d] = "claim"
  PROVE  nextSlab < NumSlabs
<1>1. d \in Claiming
  BY DEF Claiming
<1>2. Cardinality(Claiming) # 0
  BY <1>1, CountedFinite, FS_EmptySet
<1>3. QED
  BY <1>2, CountedFinite, NumSlabsAssumption DEF CountInv, TypeOK, MainType, PullType

\* Drawing a ticket moves it into Drawn and its device into Claiming.
LEMMA DrawStep ==
  ASSUME TypeOK, CountInv, NEW d \in Devices, TakeSlot(d)
  PROVE  CountInv'
<1> DEFINE t == <<d, slots[d]>>
<1>1. CASE slots[d] < Cap[d]
  <2>0. Cap[d] \in 0 .. NumSlabs /\ slots[d] \in Nat
    BY CapAssumption DEF TypeOK, PullType
  <2>1. t \in Tickets /\ t \notin Drawn /\ d \notin Claiming
    <3>1. slots[d] \in 0 .. NumSlabs - 1
      BY <1>1, <2>0, NumSlabsAssumption
    <3>2. t \in Tickets BY <1>1, <3>1 DEF Tickets
    <3>3. t \notin Drawn BY <2>0 DEF Drawn
    <3>4. d \notin Claiming BY DEF Claiming, TakeSlot
    <3>5. QED BY <3>2, <3>3, <3>4
  <2>2. Drawn' = Drawn \union {t}
    BY <1>1, <2>1 DEF Drawn, Tickets, TakeSlot, TypeOK, MainType, PullType
  <2>3. Claiming' = Claiming \union {d}
    BY <1>1 DEF Claiming, TakeSlot, WithinCap, Goto, TypeOK, MainType, PullType
  <2>4. Cardinality(Drawn') = Cardinality(Drawn) + 1
    BY <2>1, <2>2, CountedFinite, FS_AddElement
  <2>5. Cardinality(Claiming') = Cardinality(Claiming) + 1
    BY <2>1, <2>3, CountedFinite, FS_AddElement
  <2>6. Cardinality(Drawn)' = nextSlab' + Cardinality(Claiming)'
    BY <2>4, <2>5, CountedFinite DEF CountInv, TakeSlot, TypeOK, MainType, PullType
  <2>7. QED
    BY <1>1, <2>6, CapAssumption
       DEF CountInv, TakeSlot, WithinCap, Goto, TypeOK, MainType, PullType
<1>2. CASE ~(slots[d] < Cap[d])
  <2>1. Drawn' = Drawn
    BY <1>2, CapAssumption DEF Drawn, Tickets, TakeSlot, TypeOK, MainType, PullType
  <2>2. Claiming' = Claiming
    BY <1>2 DEF Claiming, TakeSlot, WithinCap, Goto, TypeOK, MainType, PullType
  <2>3. slots' = [slots EXCEPT ![d] = slots[d] + 1]
        /\ pc' = [pc EXCEPT ![d] = "exited"]
        /\ nextSlab' = nextSlab /\ pulls' = pulls /\ failed' = failed
    BY <1>2 DEF TakeSlot, WithinCap, Goto
  <2>4. \A e \in Devices : slots[e] \in Nat /\ Cap[e] \in Nat
    BY CapAssumption, NumSlabsAssumption DEF TypeOK, PullType
  <2>5. ASSUME ~failed', NEW e \in Devices, pc'[e] = "exited"
        PROVE  slots'[e] >= Cap[e]
    <3>1. CASE e = d
      <4>1. slots'[d] = slots[d] + 1
        BY <2>3 DEF TypeOK, PullType
      <4>2. QED BY <1>2, <2>4, <3>1, <4>1
    <3>2. CASE e # d
      <4>1. pc[e] = "exited" /\ slots'[e] = slots[e]
        BY <2>3, <2>5, <3>2 DEF TypeOK, PullType
      <4>2. QED BY <2>3, <2>5, <4>1 DEF CountInv
    <3>3. QED BY <3>1, <3>2
  <2>6. QED BY <2>1, <2>2, <2>3, <2>5 DEF CountInv
<1>3. QED BY <1>1, <1>2

\* Claiming a slab counts it.
LEMMA ClaimStep ==
  ASSUME TypeOK, CountInv, NEW d \in Devices, ClaimSlab(d)
  PROVE  CountInv'
<1>1. nextSlab < NumSlabs
  BY ClaimInsideMap DEF ClaimSlab
<1>2. Drawn' = Drawn
  BY DEF Drawn, ClaimSlab
<1>3. d \in Claiming /\ Claiming' = Claiming \ {d}
  BY <1>1, NumSlabsAssumption DEF Claiming, ClaimSlab, Goto, TypeOK, MainType, PullType
<1>4. Cardinality(Claiming') = Cardinality(Claiming) - 1
  BY <1>3, CountedFinite, FS_RemoveElement
<1>5. nextSlab' = nextSlab + 1 /\ nextSlab \in Slabs
  BY <1>1, NumSlabsAssumption DEF ClaimSlab, TypeOK, MainType, PullType, Slabs
<1>6. \A s \in Slabs : pulls'[s] = IF s < nextSlab' THEN 1 ELSE 0
  BY <1>1, <1>5, NumSlabsAssumption DEF CountInv, ClaimSlab, TypeOK, MainType, PullType, Slabs
<1>7. Cardinality(Drawn)' = nextSlab' + Cardinality(Claiming)'
  BY <1>2, <1>4, <1>5, CountedFinite DEF CountInv, TypeOK, MainType, PullType
<1>8. QED
  BY <1>1, <1>6, <1>7, NumSlabsAssumption
     DEF CountInv, ClaimSlab, Goto, TypeOK, MainType, PullType

\* What a worker's step past its claim can do to the state the pulling
\* depends on: it moves its own worker on, and out only with the flag raised.
SlabStep(d) ==
  \/ Compute(d) \/ Record(d) \/ WaitEvent(d) \/ EnqueueCopy(d)
  \/ FallbackCopy(d)
  \/ Stage(d) \/ Direct(d) \/ Land(d) \/ Push(d) \/ Relay(d) \/ RelaySync(d)

\* It touches neither the pulling nor the main thread's state, and never
\* lowers the flag.
LEMMA SlabStepMoves ==
  ASSUME TypeOK, NEW d \in Devices, SlabStep(d)
  PROVE  /\ UNCHANGED <<mainVars, cur, pullVars>>
         /\ pc[d] \notin {"off", "slot", "claim", "exited"}
         /\ failed => failed'
         /\ \E x \in Steps \ {"off", "claim"} :
              pc' = [pc EXCEPT ![d] = x] /\ (x = "exited" => failed')
<1>1. UNCHANGED <<mainVars, cur, pullVars>>
  BY DEF SlabStep, Compute, Record, WaitEvent, EnqueueCopy, FallbackCopy,
         Stage, Direct, Land, Push, Relay, RelaySync
<1>2. pc[d] \notin {"off", "slot", "claim", "exited"}
  BY DEF SlabStep, Compute, Record, WaitEvent, EnqueueCopy, FallbackCopy,
         Stage, Direct, Land, Push, Relay, RelaySync
<1>3. failed => failed'
  BY DEF SlabStep, Compute, Record, WaitEvent, EnqueueCopy, FallbackCopy,
         Stage, Direct, Land, Push, Relay, RelaySync, SyncCopy, Fail
<1>4. \A x \in {"slot", "record", "wait", "enqueue", "fallback", "direct",
                "land", "push", "relay", "relaySync", "exited"} :
        x \in Steps \ {"off", "claim"}
  BY DEF Steps
<1>5. \E x \in Steps \ {"off", "claim"} :
        pc' = [pc EXCEPT ![d] = x] /\ (x = "exited" => failed')
  <2>1. CASE Fail(d)
    BY <1>4, <2>1 DEF Fail, Goto
  <2>2. CASE ~Fail(d) /\ (Compute(d) \/ Record(d) \/ WaitEvent(d) \/ EnqueueCopy(d))
    BY <1>4, <2>2 DEF Compute, Record, WaitEvent, EnqueueCopy, Goto
  <2>3. CASE ~Fail(d) /\ (FallbackCopy(d) \/ RelaySync(d) \/ Direct(d))
    BY <1>4, <2>3 DEF FallbackCopy, RelaySync, Direct, SyncCopy, Goto
  <2>4. CASE ~Fail(d) /\ (Stage(d) \/ Land(d) \/ Push(d) \/ Relay(d))
    BY <1>4, <2>4 DEF Stage, Land, Push, Relay, Goto
  <2>5. QED BY <2>1, <2>2, <2>3, <2>4 DEF SlabStep
<1>6. QED BY <1>1, <1>2, <1>3, <1>5

\* Such a step disturbs none of the pulling invariants.
LEMMA SlabStepPull ==
  ASSUME TypeOK, CurType, PullInv, NEW d \in Devices, SlabStep(d)
  PROVE  CurType' /\ PullInv'
<1>1. PICK x \in Steps \ {"off", "claim"} :
        pc' = [pc EXCEPT ![d] = x] /\ (x = "exited" => failed')
  BY SlabStepMoves
<1>2. /\ UNCHANGED <<mainVars, cur, pullVars>>
      /\ pc[d] \notin {"off", "slot", "claim", "exited"}
      /\ failed => failed'
  BY SlabStepMoves
<1>3. pc \in [Devices -> Steps]
  BY DEF TypeOK, PullType
<1>4. \A e \in Devices : pc'[e] = IF e = d THEN x ELSE pc[e]
  BY <1>1, <1>3
<1>5. CurType'
  BY <1>2, <1>4 DEF CurType
<1>6. Drawn' = Drawn /\ Claiming' = Claiming
  BY <1>1, <1>2, <1>4 DEF Drawn, Claiming, pullVars
<1>7. CountInv'
  BY <1>1, <1>2, <1>4, <1>6 DEF PullInv, CountInv, pullVars
<1>8. phase = "workers" /\ ret = "none"
  BY <1>2 DEF PullInv, PhaseInv, TypeOK, MainType, Phases
<1>9. PhaseInv'
  BY <1>1, <1>2, <1>4, <1>8 DEF PullInv, PhaseInv, mainVars
<1>10. QED BY <1>5, <1>7, <1>9 DEF PullInv

\* Nor does a step of a device.
LEMMA StreamStepPull ==
  ASSUME TypeOK, CurType, PullInv, NEW d \in Devices, Streams(d)
  PROVE  CurType' /\ PullInv'
<1>1. UNCHANGED <<mainVars, failed, pc, cur, pullVars>>
  BY DEF Streams, KernelDone, CopyStep
<1>2. Drawn' = Drawn /\ Claiming' = Claiming
  BY <1>1 DEF Drawn, Claiming, pullVars
<1>3. CurType' /\ CountInv'
  BY <1>1, <1>2 DEF CurType, PullInv, CountInv, pullVars
<1>4. PhaseInv'
  BY <1>1 DEF PullInv, PhaseInv, mainVars
<1>5. QED BY <1>3, <1>4 DEF PullInv

\* A worker that draws a ticket or claims a slab.
LEMMA PullStepPull ==
  ASSUME TypeOK, CurType, PullInv, NEW d \in Devices, TakeSlot(d) \/ ClaimSlab(d)
  PROVE  CurType' /\ PullInv'
<1>1. CountInv'
  BY DrawStep, ClaimStep DEF PullInv
<1>2. UNCHANGED <<mainVars, failed>> /\ pc[d] \in {"slot", "claim"}
  BY DEF TakeSlot, ClaimSlab
<1>3. PICK x \in Steps \ {"off"} : pc' = [pc EXCEPT ![d] = x]
  BY StepNames DEF TakeSlot, ClaimSlab, Goto
<1>4. \A e \in Devices : pc'[e] = IF e = d THEN x ELSE pc[e]
  BY <1>3 DEF TypeOK, PullType
<1>5. phase = "workers" /\ ret = "none"
  BY <1>2 DEF PullInv, PhaseInv, TypeOK, MainType, Phases
<1>6. PhaseInv'
  BY <1>2, <1>4, <1>5 DEF PullInv, PhaseInv, mainVars
<1>7. CurType'
  <2>1. CASE TakeSlot(d)
    BY <2>1 DEF TakeSlot, Goto, CurType, TypeOK, PullType
  <2>2. CASE ClaimSlab(d)
    <3>1. nextSlab < NumSlabs /\ nextSlab \in Slabs
      BY <2>2, ClaimInsideMap, NumSlabsAssumption
         DEF ClaimSlab, PullInv, TypeOK, PullType, Slabs
    <3>2. cur' = [cur EXCEPT ![d] = nextSlab]
      BY <2>2, <3>1, NumSlabsAssumption DEF ClaimSlab, TypeOK, PullType
    <3>3. \A e \in Devices : cur'[e] = IF e = d THEN nextSlab ELSE cur[e]
      BY <3>2 DEF TypeOK, PullType
    <3>4. QED BY <1>4, <3>1, <3>3 DEF CurType
  <2>3. QED BY <2>1, <2>2
<1>8. QED BY <1>1, <1>6, <1>7 DEF PullInv

\* The main thread pulls nothing; it joins only workers that have left.
LEMMA MainPull ==
  ASSUME TypeOK, CurType, PullInv, Main
  PROVE  CurType' /\ PullInv'
<1>1. UNCHANGED <<cur, pullVars>> /\ (failed => failed')
  <2>1. ASSUME NEW d \in Devices, SetupStep(d)
        PROVE  UNCHANGED <<cur, pullVars, failed>>
    BY <2>1 DEF SetupStep, SetupDevice, SetupFails, CreateStreams
  <2>2. ASSUME NEW d \in Devices, FenceStep(d)
        PROVE  UNCHANGED <<cur, pullVars>> /\ (failed => failed')
    BY <2>2 DEF FenceStep, Fence, FenceFails
  <2>3. CASE Spawn \/ Join \/ HandOff \/ KeepLocal \/ Teardown \/ Release
    BY <2>3 DEF Spawn, Join, HandOff, KeepLocal, Teardown, Release
  <2>4. QED BY <2>1, <2>2, <2>3 DEF Main
<1>2. CASE Spawn
  <2>1. \A d \in Devices : pc'[d] = IF Cap[d] > 0 THEN "slot" ELSE "exited"
    BY <1>2 DEF Spawn
  <2>2. \A d \in Devices : pc[d] = "off"
    BY <1>2 DEF Spawn, PullInv, PhaseInv
  <2>3. Drawn' = Drawn /\ Claiming' = Claiming
    BY <1>1, <2>1, <2>2 DEF Drawn, Claiming, pullVars
  <2>4. \A d \in Devices : slots[d] \in Nat /\ Cap[d] \in Nat
    BY CapAssumption, NumSlabsAssumption DEF TypeOK, PullType
  <2>5. CountInv'
    <3>1. \A d \in Devices : pc'[d] = "exited" => slots'[d] >= Cap[d]
      BY <1>1, <2>1, <2>4 DEF pullVars
    <3>2. QED BY <1>1, <2>3, <3>1 DEF PullInv, CountInv, pullVars
  <2>6. CurType'
    BY <2>1 DEF CurType
  <2>7. PhaseInv'
    BY <1>2, <2>1 DEF PullInv, PhaseInv, Spawn
  <2>8. QED BY <2>5, <2>6, <2>7 DEF PullInv
<1>3. CASE ~Spawn
  <2>1. UNCHANGED pc
    BY <1>3 DEF Main, SetupStep, FenceStep, SetupDevice, SetupFails,
           CreateStreams, Fence, FenceFails, Join, HandOff, KeepLocal,
           Teardown, Release
  <2>2. Drawn' = Drawn /\ Claiming' = Claiming
    BY <1>1, <2>1 DEF Drawn, Claiming, pullVars
  <2>3. CurType' /\ CountInv'
    BY <1>1, <2>1, <2>2 DEF CurType, PullInv, CountInv, pullVars
  <2>4. ASSUME NEW d \in Devices, SetupStep(d) \/ FenceStep(d) PROVE PhaseInv'
    BY <2>1, <2>4 DEF PullInv, PhaseInv, SetupStep, FenceStep, SetupDevice,
                      SetupFails, CreateStreams, Fence, FenceFails
  <2>5. CASE Join
    <3>1. /\ phase = "workers" /\ phase' = "fence" /\ ret' = ret
          /\ \A d \in Devices : pc[d] = "exited"
      BY <2>5 DEF Join
    <3>2. QED BY <2>1, <2>3, <3>1 DEF PullInv, PhaseInv
  <2>6. CASE KeepLocal
    <3>1. phase = "fence" /\ phase' = "teardown" /\ ret' = ret
      BY <2>6 DEF KeepLocal
    <3>2. QED BY <2>1, <2>3, <3>1 DEF PullInv, PhaseInv
  <2>7. CASE HandOff
    <3>1. phase = "fence" /\ phase' = "returned" /\ ~failed /\ failed' = failed
      BY <2>7 DEF HandOff
    <3>2. QED BY <2>1, <2>3, <3>1 DEF PullInv, PhaseInv
  <2>8. CASE Teardown
    <3>1. /\ phase \in {"teardown", "abandon"} /\ phase' = "returned"
          /\ ret' = IF failed \/ phase = "abandon" THEN "error" ELSE "ok"
          /\ failed' = failed
      BY <2>8 DEF Teardown
    <3>2. QED BY <2>1, <2>3, <3>1 DEF PullInv, PhaseInv
  <2>9. CASE Release
    <3>1. UNCHANGED <<phase, ret, failed>>
      BY <2>9 DEF Release
    <3>2. QED BY <2>1, <2>3, <3>1 DEF PullInv, PhaseInv
  <2>10. QED
    BY <1>3, <2>3, <2>4, <2>5, <2>6, <2>7, <2>8, <2>9 DEF Main, PullInv
<1>4. QED BY <1>2, <1>3

-----------------------------------------------------------------------------
(* The inductive invariant of the pulling and its consequences *)

Inv == TypeOK /\ CurType /\ PullInv

\* The invariant holds before the first call of the scheduler.
LEMMA InitInv == Init => Inv
<1> SUFFICES ASSUME Init PROVE Inv
  OBVIOUS
<1>1. MainType
  BY DEF Init, MainType, Phases
<1>2. PullType
  <2>1. pc \in [Devices -> Steps] BY StepNames DEF Init
  <2>2. QED BY <2>1 DEF Init, PullType
<1>3. kernels \in [Devices -> Seq(Slabs)] /\ copies \in [Devices -> Seq(Entry)]
  BY DEF Init
<1>4. DeviceType
  BY <1>3 DEF Init, DeviceType
<1>5. CurType /\ PhaseInv
  BY DEF Init, CurType, PhaseInv
<1>6. Drawn = {} /\ Claiming = {}
  BY DEF Init, Drawn, Claiming, Tickets
<1>7. CountInv
  BY <1>6, FS_EmptySet, NumSlabsAssumption DEF Init, CountInv, Slabs
<1>8. QED BY <1>1, <1>2, <1>4, <1>5, <1>7 DEF Inv, TypeOK, PullInv

\* Every step of the main thread, a worker or a stream keeps the invariant.
LEMMA NextInv == Inv /\ [Next]_vars => Inv'
<1> SUFFICES ASSUME Inv, [Next]_vars PROVE Inv'
  OBVIOUS
<1> USE DEF Inv
<1>1. CASE Main
  BY <1>1, MainThreadType, MainPull
<1>2. ASSUME NEW d \in Devices, Worker(d) PROVE Inv'
  <2>1. CASE TakeSlot(d) \/ ClaimSlab(d)
    BY <2>1, PullStepType, PullStepPull
  <2>2. CASE SlabStep(d)
    BY <2>2, HomeStepType, StagedStepType, SlabStepPull DEF SlabStep
  <2>3. QED BY <1>2, <2>1, <2>2 DEF Worker, SlabStep
<1>3. ASSUME NEW d \in Devices, Streams(d) PROVE Inv'
  BY <1>3, DeviceStepType, StreamStepPull
<1>4. CASE UNCHANGED vars \/ Idle
  <2>1. UNCHANGED vars BY <1>4 DEF Idle
  <2>2. Drawn' = Drawn /\ Claiming' = Claiming
    BY <2>1 DEF vars, pullVars, Drawn, Claiming
  <2>3. MainType' /\ PullType' /\ DeviceType'
    BY <2>1 DEF vars, mainVars, pullVars, stageVars, streamVars, TypeOK,
                MainType, PullType, DeviceType
  <2>4. CurType' /\ PhaseInv' /\ CountInv'
    BY <2>1, <2>2 DEF vars, mainVars, pullVars, CurType, PullInv, PhaseInv,
                      CountInv
  <2>5. QED BY <2>3, <2>4 DEF TypeOK, PullInv
<1>5. QED BY <1>1, <1>2, <1>3, <1>4 DEF Next

\* The types, the pulled slabs in hand and the counting of the tickets hold in
\* every reachable state.
THEOREM Invariance == Spec => []Inv
  BY InitInv, NextInv, PTL DEF Spec

\* Every variable stays in the set the code declares it in.
THEOREM TypeCorrect == Spec => []TypeOK
<1>1. Inv => TypeOK BY DEF Inv
<1>2. QED BY <1>1, Invariance, PTL

\* The counting makes success mean that every slab was pulled.
LEMMA SuccessIsPulled == Inv => AllPulledOnce
<1> SUFFICES ASSUME Inv PROVE AllPulledOnce
  OBVIOUS
<1> USE DEF Inv, PullInv
<1>1. \A s \in Slabs : pulls[s] <= 1
  BY DEF CountInv
<1>2. ASSUME ret = "ok" PROVE \A s \in Slabs : pulls[s] = 1
  <2>1. \A d \in Devices : slots[d] >= Cap[d] /\ pc[d] # "claim"
    BY <1>2 DEF PhaseInv, CountInv
  <2>2. Drawn = Tickets
    <3>1. \A t \in Tickets : t[1] \in Devices /\ t[2] \in Nat /\ t[2] < Cap[t[1]]
      BY DEF Tickets
    <3>2. \A d \in Devices : slots[d] \in Nat /\ Cap[d] \in Nat
      BY CapAssumption, NumSlabsAssumption DEF TypeOK, PullType
    <3>3. QED BY <2>1, <3>1, <3>2 DEF Drawn
  <2>3. Cardinality(Claiming) = 0
    BY <2>1, FS_EmptySet DEF Claiming
  <2>4. nextSlab = NumSlabs
    BY <2>2, <2>3, TicketsFinite, NumSlabsAssumption
       DEF CountInv, TypeOK, PullType
  <2>5. QED BY <2>4, NumSlabsAssumption DEF CountInv, Slabs
<1>3. QED BY <1>1, <1>2 DEF AllPulledOnce

\* Whatever the caps, the homes, the faults and the interleaving, no slab is
\* pulled twice, and a run that returns a value has pulled them all.
THEOREM EverySlabPulledOnce == Spec => []AllPulledOnce
  BY SuccessIsPulled, Invariance, PTL

-----------------------------------------------------------------------------
(* Streams *)

\* An entry that is enqueued goes behind the others.
LEMMA Enqueued ==
  ASSUME DeviceType, NEW o \in Devices, NEW entry \in Entry,
         copies' = [copies EXCEPT ![o] = Append(@, entry)]
  PROVE  /\ \A d \in Devices : Len(copies[d]) \in Nat
         /\ \A d \in Devices \ {o} : copies'[d] = copies[d]
         /\ Len(copies'[o]) = Len(copies[o]) + 1
         /\ \A i \in 1 .. Len(copies[o]) : copies'[o][i] = copies[o][i]
         /\ copies'[o][Len(copies[o]) + 1] = entry
<1>1. copies \in [Devices -> Seq(Entry)]
  BY DEF DeviceType
<1>2. copies[o] \in Seq(Entry) /\ copies'[o] = Append(copies[o], entry)
  BY <1>1
<1>3. QED BY <1>1, <1>2

\* A kernel that is launched goes behind the others.
LEMMA KernelLaunched ==
  ASSUME DeviceType, NEW o \in Devices, NEW s \in Slabs,
         kernels' = [kernels EXCEPT ![o] = Append(@, s)]
  PROVE  /\ \A d \in Devices : Len(kernels[d]) \in Nat
         /\ \A d \in Devices \ {o} : kernels'[d] = kernels[d]
         /\ Len(kernels'[o]) = Len(kernels[o]) + 1
         /\ \A k \in 1 .. Len(kernels[o]) : kernels'[o][k] = kernels[o][k]
         /\ kernels'[o][Len(kernels[o]) + 1] = s
<1>1. kernels \in [Devices -> Seq(Slabs)]
  BY DEF DeviceType
<1>2. kernels[o] \in Seq(Slabs) /\ kernels'[o] = Append(kernels[o], s)
  BY <1>1
<1>3. QED BY <1>1, <1>2

\* The lengths and elements of the streams, and the sieved slabs.
LEMMA StreamTypes ==
  ASSUME DeviceType, NEW d \in Devices
  PROVE  /\ Len(copies[d]) \in Nat /\ Len(kernels[d]) \in Nat
         /\ cdone[d] \in Nat /\ kdone[d] \in Nat /\ mark[d] \in Nat
         /\ \A i \in 1 .. Len(copies[d]) : copies[d][i] \in Entry
         /\ \A k \in 1 .. Len(kernels[d]) : kernels[d][k] \in Slabs
<1>1. copies[d] \in Seq(Entry) /\ kernels[d] \in Seq(Slabs)
  BY DEF DeviceType
<1>2. QED BY <1>1 DEF DeviceType

-----------------------------------------------------------------------------
(* What a worker's step does to the way of its slab *)

\* The slab stays where it is: in the worker's hand, or with it when it gives up.
Keeps(d) ==
  /\ UNCHANGED <<copies, hostMap>>
  /\ \E x \in Steps \ {"off", "claim", "slot"} :
       pc' = [pc EXCEPT ![d] = x] /\ (x = "exited" => failed')

\* It is enqueued on the copyStream of a device.
Passes(d) ==
  /\ UNCHANGED hostMap
  /\ pc' = [pc EXCEPT ![d] = "slot"]
  /\ \E o \in Devices, gate \in Nat :
       copies' = [copies EXCEPT ![o] = Append(@, CopyEntry(cur[d], gate))]

\* A gate is enqueued for it.
Gates(d) ==
  /\ UNCHANGED hostMap
  /\ pc' = [pc EXCEPT ![d] = "enqueue"]
  /\ copies' = [copies EXCEPT ![d] = Append(@, WaitEntry(mark[d]))]

\* It is copied into the host map.
Arrives(d) ==
  /\ UNCHANGED copies
  /\ pc' = [pc EXCEPT ![d] = "slot"]
  /\ \E v \in {"raw", "final"} : hostMap' = [hostMap EXCEPT ![cur[d]] = v]

LEMMA WayOfASlab ==
  ASSUME TypeOK, CurType, RouteInv, NEW d \in Devices, SlabStep(d)
  PROVE  Keeps(d) \/ Passes(d) \/ Gates(d) \/ Arrives(d)
<1>0. \A x \in {"record", "wait", "enqueue", "fallback", "direct",
                "land", "push", "relay", "relaySync", "exited"} :
        x \in Steps \ {"off", "claim", "slot"}
  BY DEF Steps
<1>1. CASE Fail(d) /\ UNCHANGED <<copies, hostMap>>
  BY <1>0, <1>1 DEF Fail, Goto, Keeps
<1>2. CASE Compute(d) /\ ~Fail(d)
  BY <1>0, <1>2 DEF Compute, Goto, Keeps
<1>3. CASE Record(d)
  BY <1>0, <1>3 DEF Record, Goto, Keeps
<1>4. CASE WaitEvent(d)
  BY <1>0, <1>4 DEF WaitEvent, Goto, Keeps, Gates
<1>5. CASE EnqueueCopy(d)
  <2>1. ImplicitGate(d) \in Nat
    BY StreamTypes DEF TypeOK, ImplicitGate
  <2>2. QED BY <1>0, <1>5, <2>1 DEF EnqueueCopy, Goto, Keeps, Passes
<1>6. CASE (FallbackCopy(d) \/ RelaySync(d)) /\ ~Fail(d)
  BY <1>6 DEF FallbackCopy, RelaySync, SyncCopy, Goto, Image, Arrives, streamVars
<1>7. CASE Direct(d) /\ ~Fail(d)
  BY <1>7 DEF Direct, Goto, Arrives, streamVars
<1>8. CASE (Stage(d) \/ Land(d) \/ Push(d)) /\ ~Fail(d)
  BY <1>0, <1>8 DEF Stage, Land, Push, Goto, Keeps, streamVars
<1>9. CASE Relay(d)
  <2>1. CASE Goto(d, "relaySync") /\ UNCHANGED copies
    BY <1>0, <1>9, <2>1 DEF Relay, Goto, Keeps
  <2>2. CASE copies' = [copies EXCEPT ![Owner(d)] = Append(@, CopyEntry(cur[d], 0))]
             /\ Goto(d, "slot")
    <3>1. Owner(d) \in Devices
      BY <1>9 DEF Relay, RouteInv, Owner
    <3>2. QED BY <1>9, <2>2, <3>1 DEF Relay, Goto, Passes
  <2>3. QED BY <1>9, <2>1, <2>2 DEF Relay
<1>10. Fail(d) => UNCHANGED <<copies, hostMap>>
  BY DEF SlabStep, Fail, Goto, TypeOK, PullType, Compute, Record, WaitEvent, EnqueueCopy,
         FallbackCopy, SyncCopy, Stage, Direct, Land, Push, Relay, RelaySync, streamVars
<1>11. QED
  BY <1>1, <1>2, <1>3, <1>4, <1>5, <1>6, <1>7, <1>8, <1>9, <1>10 DEF SlabStep
-----------------------------------------------------------------------------
(* What is allocated *)

\* A worker that is neither waiting to be started nor gone has the main thread
\* waiting for it.
LEMMA AtWork ==
  ASSUME TypeOK, PullInv, NEW d \in Devices, pc[d] \notin {"off", "exited"}
  PROVE  phase = "workers" /\ ret = "none"
  BY DEF PullInv, PhaseInv, TypeOK, MainType, Phases

\* No worker and no stream touches the main thread's state.
LEMMA MainLeftAlone ==
  ASSUME NEW d \in Devices, Worker(d) \/ Streams(d)
  PROVE  UNCHANGED mainVars
<1>1. CASE TakeSlot(d) \/ ClaimSlab(d)
  BY <1>1 DEF TakeSlot, ClaimSlab
<1>2. CASE SlabStep(d)
  BY <1>2 DEF SlabStep, Compute, Record, WaitEvent, EnqueueCopy, FallbackCopy,
              Stage, Direct, Land, Push, Relay, RelaySync
<1>3. CASE Streams(d)
  BY <1>3 DEF Streams, KernelDone, CopyStep
<1>4. QED BY <1>1, <1>2, <1>3 DEF Worker, SlabStep

\* A worker moves only between the steps of a worker at work.
LEMMA WorkerAtWork ==
  ASSUME NEW d \in Devices, Worker(d)
  PROVE  pc[d] \notin {"off", "exited"}
  BY DEF Worker, TakeSlot, ClaimSlab, Compute, Record, WaitEvent, EnqueueCopy,
         FallbackCopy, Stage, Direct, Land, Push, Relay, RelaySync

\* A step of a stream enqueues nothing.
LEMMA StreamsEnqueueNothing ==
  ASSUME NEW d \in Devices, Streams(d)
  PROVE  UNCHANGED <<kernels, copies, mark, failed, pc, cur, pullVars, stageVars>>
  BY DEF Streams, KernelDone, CopyStep

\* HeldInv is the main thread's: workers run only between set-up and fence.
LEMMA HeldOthers ==
  ASSUME TypeOK, PullInv, HeldInv, NEW d \in Devices, Worker(d) \/ Streams(d)
  PROVE  HeldInv'
<1>1. UNCHANGED mainVars
  BY MainLeftAlone
<1>2. CASE Worker(d)
  <2>1. phase = "workers"
    BY <1>2, AtWork, WorkerAtWork
  <2>2. QED BY <1>1, <2>1 DEF HeldInv, mainVars
<1>3. CASE Streams(d)
  <2>1. UNCHANGED <<kernels, copies, nextSlab>>
    BY <1>3, StreamsEnqueueNothing DEF pullVars
  <2>2. QED BY <1>1, <2>1 DEF HeldInv, mainVars
<1>4. QED BY <1>2, <1>3

LEMMA HeldMain ==
  ASSUME TypeOK, PullInv, HeldInv, Main
  PROVE  HeldInv'
<1>1. held \in [Devices -> SUBSET Resources] /\ todo \subseteq Devices
  BY DEF TypeOK, MainType
<1>2. UNCHANGED <<kernels, copies, nextSlab>>
  BY DEF Main, SetupStep, SetupDevice, SetupFails, CreateStreams, FenceStep, Fence,
         FenceFails, Spawn, Join, HandOff, KeepLocal, Teardown, Release, streamVars,
         pullVars
<1>3. ASSUME NEW d \in Devices, SetupDevice(d) PROVE HeldInv'
  <2>1. "region" \in held'[d]
    BY <1>1, <1>3 DEF SetupDevice
  <2>2. \A e \in Devices \ {d} : held'[e] = held[e]
    BY <1>1, <1>3 DEF SetupDevice
  <2>3. residencyActive' => residencyActive
    BY <1>3 DEF SetupDevice, TypeOK, MainType
  <2>4. ~valid
    BY <1>3 DEF SetupDevice, HeldInv
  <2>5. CASE todo = {d}
    BY <1>2, <1>3, <2>1, <2>2, <2>3, <2>4, <2>5 DEF SetupDevice, HeldInv
  <2>6. CASE todo # {d}
    BY <1>2, <1>3, <2>1, <2>2, <2>3, <2>4, <2>6 DEF SetupDevice, HeldInv
  <2>7. QED BY <2>5, <2>6
<1>4. ASSUME NEW d \in Devices, SetupFails(d) PROVE HeldInv'
  BY <1>2, <1>4 DEF SetupFails, HeldInv
<1>5. ASSUME NEW d \in Devices, CreateStreams(d) PROVE HeldInv'
  <2>1. \A e \in Devices : "region" \in held[e]
    BY <1>5 DEF CreateStreams, HeldInv
  <2>2. \A e \in Devices : "region" \in held'[e]
    BY <1>1, <1>5, <2>1 DEF CreateStreams
  <2>3. QED BY <1>2, <1>5, <2>2 DEF CreateStreams, HeldInv
<1>6. ASSUME NEW d \in Devices, FenceStep(d) PROVE HeldInv'
  BY <1>2, <1>6 DEF FenceStep, Fence, FenceFails, HeldInv
<1>7. CASE Spawn \/ Join \/ KeepLocal
  BY <1>2, <1>7 DEF Spawn, Join, KeepLocal, HeldInv
<1>8. CASE HandOff
  BY <1>2, <1>8 DEF HandOff, HeldInv
<1>9. CASE Teardown \/ Release
  <2>1. \A d \in Devices : held'[d] = {}
    BY <1>1, <1>9 DEF Teardown, Release, TornDown, Resources
  <2>2. CASE Teardown
    BY <1>2, <2>1, <2>2 DEF Teardown, HeldInv
  <2>3. CASE Release
    BY <1>2, <2>1, <2>3 DEF Release, HeldInv
  <2>4. QED BY <1>9, <2>2, <2>3
<1>10. QED
  BY <1>3, <1>4, <1>5, <1>6, <1>7, <1>8, <1>9 DEF Main, SetupStep

-----------------------------------------------------------------------------
(* Streams against what is enqueued *)

\* Sequence t is sequence s, or s with more behind it.
Prolongs(t, s) == Len(s) <= Len(t) /\ \A i \in 1 .. Len(s) : t[i] = s[i]

\* The streams of every device are as they were, or have more enqueued.
Grown == \A e \in Devices : /\ Prolongs(kernels'[e], kernels[e])
                            /\ Prolongs(copies'[e], copies[e])

\* A slab that is sieved stays sieved.
StaySieved == \A s \in Slabs : region[s] = "sieved" => region'[s] = "sieved"

\* A worker only adds to the streams.
LEMMA WorkersOnlyAdd ==
  ASSUME TypeOK, CurType, RouteInv, NEW d \in Devices, Worker(d)
  PROVE  UNCHANGED <<kdone, cdone>> /\ Grown /\ StaySieved
<1>1. UNCHANGED <<kdone, cdone>>
  <2>1. CASE TakeSlot(d) \/ ClaimSlab(d)
    BY <2>1 DEF TakeSlot, ClaimSlab, streamVars
  <2>2. CASE Compute(d) \/ Record(d) \/ WaitEvent(d) \/ EnqueueCopy(d) \/ FallbackCopy(d)
    BY <2>2 DEF Compute, Record, WaitEvent, EnqueueCopy, FallbackCopy, streamVars
  <2>3. CASE Stage(d) \/ Direct(d) \/ Land(d) \/ Push(d) \/ Relay(d) \/ RelaySync(d)
    BY <2>3 DEF Stage, Direct, Land, Push, Relay, RelaySync, streamVars
  <2>4. QED BY <2>1, <2>2, <2>3 DEF Worker
<1>2. StaySieved
  <2>1. CASE Push(d)
    BY <2>1 DEF Push, StaySieved, TypeOK, DeviceType
  <2>2. CASE ~Push(d)
    BY <2>2 DEF Worker, TakeSlot, ClaimSlab, Compute, Record, WaitEvent, EnqueueCopy,
                FallbackCopy, Stage, Direct, Land, Relay, RelaySync, StaySieved
  <2>3. QED BY <2>1, <2>2
<1>3. \A e \in Devices : Prolongs(kernels'[e], kernels[e])
  <2>1. CASE UNCHANGED kernels
    BY <2>1, StreamTypes DEF Prolongs, TypeOK
  <2>2. CASE ~UNCHANGED kernels
    <3>1. Compute(d) /\ kernels' = [kernels EXCEPT ![d] = Append(@, cur[d])]
      BY <2>2 DEF Worker, TakeSlot, ClaimSlab, Compute, Record, WaitEvent, EnqueueCopy,
                  FallbackCopy, Stage, Direct, Land, Push, Relay, RelaySync, streamVars
    <3>2. cur[d] \in Slabs
      BY <3>1 DEF Compute, CurType
    <3>3. QED
      BY <3>1, <3>2, KernelLaunched DEF Prolongs, TypeOK
  <2>3. QED BY <2>1, <2>2
<1>4. \A e \in Devices : Prolongs(copies'[e], copies[e])
  <2>1. CASE UNCHANGED copies
    BY <2>1, StreamTypes DEF Prolongs, TypeOK
  <2>2. CASE ~UNCHANGED copies
    <3>1. CASE TakeSlot(d) \/ ClaimSlab(d)
      BY <2>2, <3>1 DEF TakeSlot, ClaimSlab, streamVars
    <3>2. CASE SlabStep(d)
      <4>1. Passes(d) \/ Gates(d)
        BY <2>2, <3>2, WayOfASlab DEF Keeps, Arrives
      <4>2. CopyEntry(cur[d], mark[d]) \in Entry /\ WaitEntry(mark[d]) \in Entry
        BY DEF TypeOK, PullType, DeviceType, CopyEntry, WaitEntry, Entry
      <4>3. \A gate \in Nat : CopyEntry(cur[d], gate) \in Entry
        BY DEF TypeOK, PullType, DeviceType, CopyEntry, Entry
      <4>4. CASE Gates(d)
        BY <4>2, <4>4, Enqueued DEF Gates, Prolongs, TypeOK
      <4>5. CASE Passes(d)
        <5>1. PICK o \in Devices, gate \in Nat :
                copies' = [copies EXCEPT ![o] = Append(@, CopyEntry(cur[d], gate))]
          BY <4>5 DEF Passes
        <5>2. QED BY <4>3, <5>1, Enqueued DEF Prolongs, TypeOK
      <4>6. QED BY <4>1, <4>4, <4>5
    <3>3. QED BY <3>1, <3>2 DEF Worker, SlabStep
  <2>3. QED BY <2>1, <2>2
<1>5. QED BY <1>1, <1>2, <1>3, <1>4 DEF Grown

\* The main thread leaves the pulling, the streams and the host map alone, and
\* the slabs once the devices are set up.
LEMMA StreamsLeftAlone ==
  ASSUME Main
  PROVE  /\ UNCHANGED <<cur, pullVars, stageVars, streamVars, hostMap>>
         /\ failed => failed'
         /\ phase # "setup" => UNCHANGED region
<1>1. ASSUME NEW d \in Devices, SetupStep(d)
      PROVE  /\ UNCHANGED <<cur, pullVars, stageVars, streamVars, hostMap, failed>>
             /\ phase # "setup" => UNCHANGED region
  BY <1>1 DEF SetupStep, SetupDevice, SetupFails, CreateStreams
<1>2. ASSUME NEW d \in Devices, FenceStep(d)
      PROVE  /\ UNCHANGED <<cur, pullVars, stageVars, streamVars, hostMap, region>>
             /\ failed => failed'
  BY <1>2 DEF FenceStep, Fence, FenceFails
<1>3. CASE Spawn \/ Join \/ HandOff \/ KeepLocal \/ Teardown \/ Release
  BY <1>3 DEF Spawn, Join, HandOff, KeepLocal, Teardown, Release
<1>4. QED BY <1>1, <1>2, <1>3 DEF Main

\* StreamInv is kept by the main thread, ...
LEMMA StreamMain ==
  ASSUME TypeOK, HeldInv, StreamInv, Main
  PROVE  StreamInv'
<1>1. UNCHANGED streamVars
  BY StreamsLeftAlone
<1>2. CASE phase = "setup"
  <2>1. \A d \in Devices : Len(kernels[d]) = 0 /\ Len(copies[d]) = 0
    BY <1>2 DEF HeldInv
  <2>2. \A d \in Devices : kdone[d] = 0 /\ cdone[d] = 0
    BY <2>1 DEF StreamInv, TypeOK, DeviceType
  <2>3. QED BY <1>1, <2>1, <2>2 DEF StreamInv, streamVars
<1>3. CASE phase # "setup"
  BY <1>1, <1>3, StreamsLeftAlone DEF StreamInv, streamVars
<1>4. QED BY <1>2, <1>3

\* ... by a worker, ...
LEMMA StreamWorker ==
  ASSUME TypeOK, TypeOK', CurType, RouteInv, StreamInv, NEW d \in Devices, Worker(d)
  PROVE  StreamInv'
<1>1. UNCHANGED <<kdone, cdone>> /\ Grown /\ StaySieved
  BY WorkersOnlyAdd
<1>2. SUFFICES ASSUME NEW e \in Devices
               PROVE  /\ kdone[e] <= Len(kernels'[e])
                      /\ cdone[e] <= Len(copies'[e])
                      /\ \A k \in 1 .. kdone[e] : region'[kernels'[e][k]] = "sieved"
                      /\ \A j \in 1 .. cdone[e] : copies'[e][j].after <= kdone[e]
  BY <1>1 DEF StreamInv
<1>3. /\ Prolongs(kernels'[e], kernels[e]) /\ Prolongs(copies'[e], copies[e])
      /\ kdone[e] <= Len(kernels[e]) /\ cdone[e] <= Len(copies[e])
      /\ kdone[e] \in Nat /\ cdone[e] \in Nat
      /\ Len(kernels[e]) \in Nat /\ Len(copies[e]) \in Nat
  BY <1>1, StreamTypes DEF Grown, StreamInv, TypeOK
<1>4. Len(kernels'[e]) \in Nat /\ Len(copies'[e]) \in Nat
  <2>1. kernels'[e] \in Seq(Slabs) /\ copies'[e] \in Seq(Entry)
    BY DEF TypeOK, DeviceType
  <2>2. QED BY <2>1
<1>5. \A k \in 1 .. kdone[e] : kernels[e][k] \in Slabs /\ region[kernels[e][k]] = "sieved"
  BY <1>3, StreamTypes DEF StreamInv, TypeOK
<1>6. \A k \in 1 .. kdone[e] : region'[kernels'[e][k]] = "sieved"
  BY <1>1, <1>3, <1>5 DEF StaySieved, Prolongs
<1>7. \A j \in 1 .. cdone[e] : copies'[e][j].after <= kdone[e]
  BY <1>3 DEF Prolongs, StreamInv
<1>8. QED BY <1>3, <1>4, <1>6, <1>7 DEF Prolongs

\* ... and by the streams.
LEMMA StreamStreams ==
  ASSUME TypeOK, StreamInv, NEW d \in Devices, Streams(d)
  PROVE  StreamInv' /\ StaySieved
<1>1. UNCHANGED <<kernels, copies>>
  BY StreamsEnqueueNothing
<1>2. CASE KernelDone(d)
  <2> DEFINE s == kernels[d][kdone[d] + 1]
  <2>1. /\ UNCHANGED cdone
        /\ kdone[d] < Len(kernels[d])
        /\ kdone' = [kdone EXCEPT ![d] = @ + 1]
        /\ region' = [region EXCEPT ![s] = "sieved"]
    BY <1>2 DEF KernelDone
  <2>2. kdone[d] + 1 \in 1 .. Len(kernels[d])
    BY <2>1, StreamTypes DEF TypeOK
  <2>3. s \in Slabs
    BY <2>2, StreamTypes DEF TypeOK
  <2>4. StaySieved /\ region'[s] = "sieved"
    BY <2>1, <2>3 DEF StaySieved, TypeOK, DeviceType
  <2>5. \A e \in Devices : kdone'[e] = IF e = d THEN kdone[d] + 1 ELSE kdone[e]
    BY <2>1 DEF TypeOK, DeviceType
  <2>6. SUFFICES ASSUME NEW e \in Devices
                 PROVE  /\ kdone'[e] <= Len(kernels[e])
                        /\ cdone[e] <= Len(copies[e])
                        /\ \A k \in 1 .. kdone'[e] : region'[kernels[e][k]] = "sieved"
                        /\ \A j \in 1 .. cdone[e] : copies[e][j].after <= kdone'[e]
    BY <1>1, <2>1, <2>4 DEF StreamInv
  <2>7. /\ kdone[e] \in Nat /\ Len(kernels[e]) \in Nat /\ cdone[e] \in Nat
        /\ Len(copies[e]) \in Nat /\ cdone[e] <= Len(copies[e])
        /\ kdone[e] <= Len(kernels[e])
    BY StreamTypes DEF StreamInv, TypeOK
  <2>8. kdone[e] <= kdone'[e] /\ kdone'[e] <= Len(kernels[e]) /\ kdone'[e] \in Nat
    BY <2>1, <2>5, <2>7
  <2>9. ASSUME NEW k \in 1 .. kdone'[e] PROVE region'[kernels[e][k]] = "sieved"
    <3>1. k \in 1 .. Len(kernels[e]) /\ kernels[e][k] \in Slabs
      BY <2>7, <2>8, StreamTypes DEF TypeOK
    <3>2. CASE k \in 1 .. kdone[e]
      BY <2>4, <3>1, <3>2 DEF StreamInv, StaySieved
    <3>3. CASE k \notin 1 .. kdone[e]
      <4>1. e = d /\ k = kdone[d] + 1
        BY <2>5, <2>7, <2>9, <3>3
      <4>2. QED BY <2>4, <4>1
    <3>4. QED BY <3>2, <3>3
  <2>10. ASSUME NEW j \in 1 .. cdone[e] PROVE copies[e][j].after <= kdone'[e]
    <3>1. copies[e][j].after \in Nat
      BY <2>7, StreamTypes DEF TypeOK, Entry
    <3>2. copies[e][j].after <= kdone[e]
      BY DEF StreamInv
    <3>3. QED BY <2>7, <2>8, <3>1, <3>2
  <2>11. QED BY <2>7, <2>8, <2>9, <2>10
<1>3. CASE CopyStep(d)
  <2>1. /\ UNCHANGED <<kdone, region>>
        /\ cdone[d] < Len(copies[d])
        /\ copies[d][cdone[d] + 1].after <= kdone[d]
        /\ cdone' = [cdone EXCEPT ![d] = @ + 1]
    BY <1>3 DEF CopyStep
  <2>2. \A e \in Devices : cdone'[e] = IF e = d THEN cdone[d] + 1 ELSE cdone[e]
    BY <2>1 DEF TypeOK, DeviceType
  <2>3. SUFFICES ASSUME NEW e \in Devices
                 PROVE  /\ cdone'[e] <= Len(copies[e])
                        /\ \A j \in 1 .. cdone'[e] : copies[e][j].after <= kdone[e]
    BY <1>1, <2>1 DEF StreamInv, StaySieved
  <2>4. /\ cdone[e] \in Nat /\ Len(copies[e]) \in Nat /\ cdone[e] <= Len(copies[e])
        /\ \A j \in 1 .. cdone[e] : copies[e][j].after <= kdone[e]
    BY StreamTypes DEF StreamInv, TypeOK
  <2>5. QED BY <2>1, <2>2, <2>4
<1>4. QED BY <1>2, <1>3 DEF Streams

-----------------------------------------------------------------------------
(* Routes *)

\* A step of the main thread that is not the spawning of the workers leaves
\* them where they are.
LEMMA WorkersLeftAlone ==
  ASSUME Main, ~Spawn
  PROVE  UNCHANGED pc
  BY DEF Main, SetupStep, FenceStep, SetupDevice, SetupFails, CreateStreams, Fence,
         FenceFails, Join, HandOff, KeepLocal, Teardown, Release

\* Where the workers are when they have been spawned.
LEMMA Spawned ==
  ASSUME PullInv, Spawn
  PROVE  \A d \in Devices : pc[d] = "off" /\ pc'[d] \in {"slot", "exited"}
  BY DEF Spawn, PullInv, PhaseInv

\* Drawing a ticket moves only the worker that draws it.
LEMMA TicketDrawn ==
  ASSUME TypeOK, NEW d \in Devices, TakeSlot(d)
  PROVE  /\ pc[d] = "slot" /\ pc'[d] \in {"claim", "exited"}
         /\ \A e \in Devices \ {d} : pc'[e] = pc[e]
         /\ UNCHANGED <<mainVars, failed, cur, nextSlab, stageVars, streamVars,
                        region, hostMap>>
  BY DEF TakeSlot, Goto, TypeOK, PullType

\* A claim finds a slab, and puts it into the worker's hand.
LEMMA SlabClaimed ==
  ASSUME TypeOK, PullInv, NEW d \in Devices, ClaimSlab(d)
  PROVE  /\ nextSlab \in Slabs /\ nextSlab' = nextSlab + 1
         /\ pc[d] = "claim" /\ cur'[d] = nextSlab
         /\ pc'[d] = IF OwnerOf[nextSlab] = d THEN "compute" ELSE "stage"
         /\ \A e \in Devices \ {d} : pc'[e] = pc[e] /\ cur'[e] = cur[e]
         /\ UNCHANGED <<mainVars, failed, slots, stageVars, streamVars, region,
                        hostMap>>
<1>1. nextSlab < NumSlabs /\ nextSlab \in Nat
  BY ClaimInsideMap DEF ClaimSlab, PullInv, TypeOK, PullType
<1>2. nextSlab \in Slabs
  BY <1>1, NumSlabsAssumption DEF Slabs
<1>3. /\ cur' = [cur EXCEPT ![d] = nextSlab]
      /\ pc' = [pc EXCEPT ![d] = IF OwnerOf[nextSlab] = d THEN "compute" ELSE "stage"]
  BY <1>1, NumSlabsAssumption DEF ClaimSlab, Goto
<1>4. QED
  BY <1>2, <1>3 DEF ClaimSlab, TypeOK, PullType

\* A step on a slab moves only the worker that has it in hand.
LEMMA SlabMoved ==
  ASSUME TypeOK, NEW d \in Devices, SlabStep(d)
  PROVE  /\ UNCHANGED <<mainVars, cur, pullVars>>
         /\ Working(d)
         /\ failed => failed'
         /\ \A e \in Devices \ {d} : pc'[e] = pc[e]
<1>1. PICK x \in Steps \ {"off", "claim"} : pc' = [pc EXCEPT ![d] = x]
  BY SlabStepMoves
<1>2. QED
  BY <1>1, SlabStepMoves DEF Working, TypeOK, PullType

LEMMA RouteMain ==
  ASSUME PullInv, RouteInv, Main
  PROVE  RouteInv'
<1>1. UNCHANGED cur
  BY StreamsLeftAlone
<1>2. CASE Spawn
  BY <1>1, <1>2, Spawned DEF RouteInv
<1>3. CASE ~Spawn
  BY <1>1, <1>3, WorkersLeftAlone DEF RouteInv
<1>4. QED BY <1>2, <1>3

LEMMA RouteWorker ==
  ASSUME TypeOK, CurType, PullInv, RouteInv, NEW d \in Devices, Worker(d)
  PROVE  RouteInv'
<1>1. CASE TakeSlot(d)
  BY <1>1, TicketDrawn DEF RouteInv
<1>2. CASE ClaimSlab(d)
  BY <1>2, SlabClaimed DEF RouteInv
<1>3. CASE SlabStep(d)
  <2>1. /\ UNCHANGED cur /\ Working(d)
        /\ \A e \in Devices \ {d} : pc'[e] = pc[e]
    BY <1>3, SlabMoved
  <2>2. cur[d] \in Slabs
    BY <2>1 DEF CurType, Working
  <2>3. OwnerOf[cur[d]] # Homeless => OwnerOf[cur[d]] \in Devices
    BY <2>2, OwnerAssumption
  <2>4. CASE Fail(d)
    <3>1. pc'[d] = "exited"
      BY <2>4 DEF Fail, Goto, TypeOK, PullType
    <3>2. QED BY <2>1, <3>1 DEF RouteInv
  <2>5. CASE ~Fail(d) /\ (Compute(d) \/ Record(d) \/ WaitEvent(d) \/ EnqueueCopy(d))
    <3>1. /\ pc[d] \in {"compute", "record", "wait", "enqueue"}
          /\ pc'[d] \in {"record", "wait", "enqueue", "fallback", "slot"}
      BY <2>5 DEF Compute, Record, WaitEvent, EnqueueCopy, Goto, TypeOK, PullType
    <3>2. QED BY <2>1, <3>1 DEF RouteInv
  <2>6. CASE ~Fail(d) /\ (FallbackCopy(d) \/ RelaySync(d) \/ Direct(d))
    <3>1. pc'[d] = "slot"
      BY <2>6 DEF FallbackCopy, RelaySync, Direct, SyncCopy, Goto, TypeOK, PullType
    <3>2. QED BY <2>1, <3>1 DEF RouteInv
  <2>7. CASE ~Fail(d) /\ Stage(d)
    <3>1. pc'[d] = IF OwnerOf[cur[d]] = Homeless THEN "direct" ELSE "land"
      BY <2>7 DEF Stage, Goto, Owner, TypeOK, PullType
    <3>2. QED BY <2>1, <2>3, <3>1 DEF RouteInv
  <2>8. CASE ~Fail(d) /\ (Land(d) \/ Push(d) \/ Relay(d))
    <3>1. /\ pc[d] \in {"land", "push", "relay"}
          /\ pc'[d] \in {"push", "relay", "relaySync", "slot"}
      BY <2>8 DEF Land, Push, Relay, Goto, TypeOK, PullType
    <3>2. QED BY <2>1, <3>1 DEF RouteInv
  <2>9. QED
    BY <1>3, <2>4, <2>5, <2>6, <2>7, <2>8 DEF SlabStep
<1>4. QED BY <1>1, <1>2, <1>3 DEF Worker, SlabStep

LEMMA RouteStreams ==
  ASSUME RouteInv, NEW d \in Devices, Streams(d)
  PROVE  RouteInv'
  BY StreamsEnqueueNothing DEF RouteInv

-----------------------------------------------------------------------------
(* The way of a slab *)

\* SourceInv is kept by a step that enqueues and copies nothing and claims no
\* slab, ...
LEMMA SourceKept ==
  ASSUME SourceInv, UNCHANGED <<copies, cdone, hostMap, cur, nextSlab>>,
         \A d \in Devices : Working(d)' => Working(d)
  PROVE  SourceInv'
  BY DEF SourceInv, SoleHand, SoleEntry, InHand, IsCopy

\* ... by a claim: the slab claimed is past every one on its way, ...
LEMMA SourceClaim ==
  ASSUME TypeOK, CurType, PullInv, SourceInv, NEW d \in Devices, ClaimSlab(d)
  PROVE  SourceInv'
<1>1. /\ nextSlab \in Slabs /\ nextSlab' = nextSlab + 1
      /\ pc[d] = "claim" /\ cur'[d] = nextSlab
      /\ \A e \in Devices \ {d} : pc'[e] = pc[e] /\ cur'[e] = cur[e]
      /\ UNCHANGED <<streamVars, hostMap>>
  BY SlabClaimed
<1>2. UNCHANGED <<copies, cdone>>
  BY <1>1 DEF streamVars
<1>3. nextSlab \in Nat /\ ~Working(d)
  BY <1>1 DEF TypeOK, PullType, Working
<1>4. hostMap[nextSlab] = "empty"
  BY <1>1, <1>3 DEF SourceInv
<1>5. \A e \in Devices, i \in Nat : IsCopy(e, i) => copies[e][i].slab \in Slabs
  BY StreamTypes DEF IsCopy, Entry, TypeOK
<1>6. \A e \in Devices : \A i \in 1 .. Len(copies[e]) : copies[e][i].slab # nextSlab
  <2>1. SUFFICES ASSUME NEW e \in Devices, NEW i \in 1 .. Len(copies[e]),
                        copies[e][i].slab = nextSlab
                 PROVE  FALSE
    OBVIOUS
  <2>2. IsCopy(e, i)
    BY <1>1, <2>1, SentinelAssumption DEF IsCopy
  <2>3. copies[e][i].slab < nextSlab
    BY <2>2 DEF SourceInv, SoleEntry
  <2>4. QED BY <1>3, <2>1, <2>3
<1>7. \A s \in Slabs : s < nextSlab => s < nextSlab'
  BY <1>1, <1>3 DEF Slabs
<1>8. \A e \in Devices \ {d} : Working(e) => cur[e] \in Slabs /\ cur[e] # nextSlab
  BY <1>3 DEF SourceInv, SoleHand, CurType, Working
<1>9. ASSUME NEW e \in Devices, Working(e)' PROVE SoleHand(e)'
  <2>1. CASE e = d
    <3>1. ASSUME NEW f \in Devices, InHand(f, cur[d])' PROVE f = d
      BY <1>1, <1>8, <3>1 DEF InHand, Working
    <3>2. cur'[d] < nextSlab' /\ hostMap'[cur'[d]] = "empty"
      BY <1>1, <1>3, <1>4
    <3>3. QED BY <1>1, <1>2, <1>6, <2>1, <3>1, <3>2 DEF SoleHand
  <2>2. CASE e # d
    <3>1. Working(e) /\ cur'[e] = cur[e]
      BY <1>1, <1>9, <2>2 DEF Working
    <3>2. SoleHand(e) /\ cur[e] \in Slabs /\ cur[e] # nextSlab
      BY <1>8, <2>2, <3>1 DEF SourceInv
    <3>3. ASSUME NEW f \in Devices, InHand(f, cur[e])' PROVE f = e
      BY <1>1, <2>2, <3>1, <3>2, <3>3 DEF InHand, Working, SoleHand
    <3>4. QED BY <1>1, <1>2, <1>7, <3>1, <3>2, <3>3 DEF SoleHand
  <2>3. QED BY <2>1, <2>2
<1>10. ASSUME NEW e \in Devices, NEW i \in 1 .. Len(copies[e]), IsCopy(e, i)
       PROVE  SoleEntry(e, i)'
  BY <1>1, <1>2, <1>5, <1>7, <1>10, StreamTypes DEF SourceInv, SoleEntry, TypeOK
<1>11. QED
  BY <1>1, <1>2, <1>7, <1>9, <1>10 DEF SourceInv, IsCopy

\* ... by the enqueueing of the slab in hand, whose only place is now there, ...
LEMMA SourcePasses ==
  ASSUME TypeOK, CurType, SourceInv, NEW d \in Devices, Working(d), Passes(d),
         UNCHANGED <<cdone, cur, nextSlab>>
  PROVE  SourceInv'
<1>1. PICK o \in Devices, gate \in Nat :
        copies' = [copies EXCEPT ![o] = Append(@, CopyEntry(cur[d], gate))]
  BY DEF Passes
<1> DEFINE n == Len(copies[o]) + 1
<1>2. cur[d] \in Slabs
  BY DEF CurType, Working
<1>3. CopyEntry(cur[d], gate) \in Entry /\ CopyEntry(cur[d], gate).slab = cur[d]
  BY <1>2 DEF CopyEntry, Entry
<1>4. /\ \A e \in Devices : Len(copies[e]) \in Nat
      /\ \A e \in Devices \ {o} : copies'[e] = copies[e]
      /\ Len(copies'[o]) = n
      /\ \A i \in 1 .. Len(copies[o]) : copies'[o][i] = copies[o][i]
      /\ copies'[o][n].slab = cur[d]
  BY <1>1, <1>3, Enqueued DEF TypeOK
<1>5. /\ \A e \in Devices \ {d} : pc'[e] = pc[e]
      /\ pc'[d] = "slot" /\ UNCHANGED hostMap
  BY DEF Passes, TypeOK, PullType
<1>6. SoleHand(d)
  BY DEF SourceInv
<1>7. \A e \in Devices : \A i \in 1 .. Len(copies'[e]) :
        \/ i \in 1 .. Len(copies[e]) /\ copies'[e][i] = copies[e][i]
        \/ e = o /\ i = n
  BY <1>4
<1>8. ASSUME NEW e \in Devices, Working(e)' PROVE SoleHand(e)'
  <2>1. e # d /\ Working(e)
    BY <1>5, <1>8 DEF Working
  <2>2. SoleHand(e) /\ cur[e] # cur[d]
    BY <1>6, <2>1 DEF SourceInv, SoleHand, InHand
  <2>3. ASSUME NEW f \in Devices, InHand(f, cur[e])' PROVE f = e
    BY <1>5, <2>2, <2>3 DEF InHand, Working, SoleHand
  <2>4. \A f \in Devices : \A i \in 1 .. Len(copies'[f]) : copies'[f][i].slab # cur[e]
    BY <1>4, <1>7, <2>2 DEF SoleHand
  <2>5. QED BY <1>5, <2>2, <2>3, <2>4 DEF SoleHand
<1>9. ASSUME NEW e \in Devices, NEW i \in 1 .. Len(copies'[e]), IsCopy(e, i)'
      PROVE  SoleEntry(e, i)'
  <2>1. CASE e = o /\ i = n
    <3>1. ASSUME NEW f \in Devices, NEW j \in 1 .. Len(copies'[f]),
                 copies'[f][j].slab = cur[d]
          PROVE  f = o /\ j = n
      BY <1>6, <1>7, <3>1 DEF SoleHand
    <3>2. QED BY <1>4, <1>5, <1>6, <2>1, <3>1 DEF SoleEntry, SoleHand
  <2>2. CASE i \in 1 .. Len(copies[e]) /\ copies'[e][i] = copies[e][i]
    <3>1. IsCopy(e, i)
      BY <1>9, <2>2 DEF IsCopy
    <3>2. SoleEntry(e, i) /\ copies[e][i].slab # cur[d]
      BY <1>6, <2>2, <3>1 DEF SourceInv, SoleHand
    <3>3. ASSUME NEW f \in Devices, NEW j \in 1 .. Len(copies'[f]),
                 copies'[f][j].slab = copies[e][i].slab
          PROVE  f = e /\ j = i
      BY <1>4, <1>7, <3>2, <3>3 DEF SoleEntry
    <3>4. QED BY <1>5, <2>2, <3>2, <3>3 DEF SoleEntry
  <2>3. QED BY <1>7, <2>1, <2>2
<1>10. QED
  BY <1>5, <1>8, <1>9 DEF SourceInv

\* ... by a gate, which copies nothing, ...
LEMMA SourceGates ==
  ASSUME TypeOK, CurType, SourceInv, NEW d \in Devices, Working(d), Gates(d),
         UNCHANGED <<cdone, cur, nextSlab>>
  PROVE  SourceInv'
<1> DEFINE n == Len(copies[d]) + 1
<1>1. WaitEntry(mark[d]) \in Entry /\ WaitEntry(mark[d]).slab = NoSlab
  BY DEF WaitEntry, Entry, TypeOK, DeviceType
<1>2. /\ \A e \in Devices : Len(copies[e]) \in Nat
      /\ \A e \in Devices \ {d} : copies'[e] = copies[e]
      /\ Len(copies'[d]) = n
      /\ \A i \in 1 .. Len(copies[d]) : copies'[d][i] = copies[d][i]
      /\ copies'[d][n].slab = NoSlab
  BY <1>1, Enqueued DEF Gates, TypeOK
<1>3. /\ \A e \in Devices \ {d} : pc'[e] = pc[e]
      /\ UNCHANGED hostMap
  BY DEF Gates, TypeOK, PullType
<1>4. \A e \in Devices : \A i \in 1 .. Len(copies'[e]) :
        \/ i \in 1 .. Len(copies[e]) /\ copies'[e][i] = copies[e][i]
        \/ copies'[e][i].slab = NoSlab
  BY <1>2
<1>5. \A e \in Devices : Working(e)' => Working(e)
  BY <1>3 DEF Working
<1>6. ASSUME NEW e \in Devices, Working(e)' PROVE SoleHand(e)'
  <2>1. SoleHand(e) /\ cur[e] \in Slabs
    BY <1>5, <1>6 DEF SourceInv, CurType, Working
  <2>2. QED
    BY <1>3, <1>4, <1>5, <2>1, SentinelAssumption DEF SoleHand, InHand
<1>7. ASSUME NEW e \in Devices, NEW i \in 1 .. Len(copies'[e]), IsCopy(e, i)'
      PROVE  SoleEntry(e, i)'
  <2>1. i \in 1 .. Len(copies[e]) /\ copies'[e][i] = copies[e][i] /\ IsCopy(e, i)
    BY <1>4, <1>7 DEF IsCopy
  <2>2. SoleEntry(e, i) /\ copies[e][i].slab # NoSlab
    BY <2>1 DEF SourceInv, IsCopy
  <2>3. QED BY <1>3, <1>4, <2>1, <2>2 DEF SoleEntry
<1>8. QED BY <1>3, <1>6, <1>7 DEF SourceInv

\* ... by the copy of the slab in hand into the host map, ...
LEMMA SourceArrives ==
  ASSUME TypeOK, CurType, SourceInv, NEW d \in Devices, Working(d), Arrives(d),
         UNCHANGED <<cdone, cur, nextSlab>>
  PROVE  SourceInv'
<1>1. /\ \A e \in Devices \ {d} : pc'[e] = pc[e]
      /\ pc'[d] = "slot" /\ UNCHANGED copies
  BY DEF Arrives, TypeOK, PullType
<1>2. cur[d] \in Slabs /\ SoleHand(d)
  BY DEF CurType, Working, SourceInv
<1>3. \A s \in Slabs \ {cur[d]} : hostMap'[s] = hostMap[s]
  BY DEF Arrives, TypeOK, DeviceType
<1>4. ASSUME NEW e \in Devices, Working(e)' PROVE SoleHand(e)'
  <2>1. e # d /\ Working(e) /\ cur[e] \in Slabs
    BY <1>1, <1>4 DEF Working, CurType
  <2>2. SoleHand(e) /\ cur[e] # cur[d]
    BY <1>2, <2>1 DEF SourceInv, SoleHand, InHand
  <2>3. \A f \in Devices : InHand(f, cur[e])' => InHand(f, cur[e])
    BY <1>1 DEF InHand, Working
  <2>4. QED BY <1>1, <1>3, <2>1, <2>2, <2>3 DEF SoleHand
<1>5. ASSUME NEW e \in Devices, NEW i \in 1 .. Len(copies[e]), IsCopy(e, i)
      PROVE  SoleEntry(e, i)'
  <2>1. SoleEntry(e, i) /\ copies[e][i].slab \in Slabs /\ copies[e][i].slab # cur[d]
    BY <1>2, <1>5, StreamTypes DEF SourceInv, SoleHand, IsCopy, Entry, TypeOK
  <2>2. QED BY <1>1, <1>3, <2>1 DEF SoleEntry
<1>6. QED BY <1>1, <1>2, <1>3, <1>4, <1>5 DEF SourceInv, SoleHand, IsCopy

\* ... and by a stream that runs the copy of a slab.
LEMMA SourceCopyStep ==
  ASSUME TypeOK, CurType, SourceInv, NEW d \in Devices, CopyStep(d)
  PROVE  SourceInv'
<1> DEFINE n == cdone[d] + 1
           s == copies[d][n].slab
<1>1. /\ UNCHANGED <<pc, cur, nextSlab, copies>>
      /\ cdone[d] < Len(copies[d])
      /\ cdone' = [cdone EXCEPT ![d] = @ + 1]
      /\ s = NoSlab => UNCHANGED hostMap
      /\ s # NoSlab => hostMap' = [hostMap EXCEPT ![s] = Image(s)]
  BY DEF CopyStep, pullVars
<1>2. /\ n \in 1 .. Len(copies[d]) /\ n > cdone[d]
      /\ cdone'[d] = n
      /\ \A e \in Devices \ {d} : cdone'[e] = cdone[e]
  BY <1>1, StreamTypes DEF TypeOK, DeviceType
<1>3. CASE s = NoSlab
  <2>1. ASSUME NEW e \in Devices, NEW i \in 1 .. Len(copies[e]), i > cdone'[e]
        PROVE  i > cdone[e]
    BY <1>2, <2>1, StreamTypes DEF TypeOK
  <2>2. QED
    BY <1>1, <1>3, <2>1 DEF SourceInv, SoleHand, SoleEntry, IsCopy, InHand, Working
<1>4. CASE s # NoSlab
  <2>1. s \in Slabs /\ IsCopy(d, n)
    BY <1>2, <1>4, StreamTypes DEF Entry, IsCopy, TypeOK
  <2>2. SoleEntry(d, n)
    BY <1>2, <2>1 DEF SourceInv
  <2>3. \A r \in Slabs \ {s} : hostMap'[r] = hostMap[r]
    BY <1>1, <1>4, <2>1 DEF TypeOK, DeviceType
  <2>4. ASSUME NEW e \in Devices, Working(e) PROVE SoleHand(e)'
    <3>1. SoleHand(e) /\ cur[e] # s /\ cur[e] \in Slabs
      BY <1>2, <2>4 DEF SourceInv, SoleHand, CurType, Working
    <3>2. QED BY <1>1, <2>3, <3>1 DEF SoleHand, InHand, Working
  <2>5. ASSUME NEW e \in Devices, NEW i \in 1 .. Len(copies[e]), IsCopy(e, i)
        PROVE  SoleEntry(e, i)'
    <3>1. SoleEntry(e, i) /\ copies[e][i].slab \in Slabs
      BY <2>5, StreamTypes DEF SourceInv, IsCopy, Entry, TypeOK
    <3>2. CASE e = d /\ i = n
      BY <1>1, <1>2, <3>1, <3>2 DEF SoleEntry
    <3>3. CASE ~(e = d /\ i = n)
      <4>1. copies[e][i].slab # s
        BY <2>2, <3>3 DEF SoleEntry
      <4>2. i > cdone'[e] => i > cdone[e]
        BY <1>2, StreamTypes DEF TypeOK
      <4>3. QED BY <1>1, <2>3, <3>1, <4>1, <4>2 DEF SoleEntry
    <3>4. QED BY <3>2, <3>3
  <2>6. QED
    BY <1>1, <2>1, <2>2, <2>3, <2>4, <2>5 DEF SourceInv, SoleEntry, IsCopy, Working
<1>5. QED BY <1>3, <1>4

LEMMA SourceMain ==
  ASSUME PullInv, SourceInv, Main
  PROVE  SourceInv'
<1>1. UNCHANGED <<copies, cdone, hostMap, cur, nextSlab>>
  BY StreamsLeftAlone DEF streamVars, pullVars
<1>2. \A d \in Devices : Working(d)' => Working(d)
  BY Spawned, WorkersLeftAlone DEF Working
<1>3. QED BY <1>1, <1>2, SourceKept

LEMMA SourceWorker ==
  ASSUME TypeOK, CurType, PullInv, RouteInv, SourceInv, NEW d \in Devices, Worker(d)
  PROVE  SourceInv'
<1>1. CASE TakeSlot(d)
  <2>1. UNCHANGED <<copies, cdone, hostMap, cur, nextSlab>>
    BY <1>1, TicketDrawn DEF streamVars
  <2>2. \A e \in Devices : Working(e)' => Working(e)
    BY <1>1, TicketDrawn DEF Working
  <2>3. QED BY <2>1, <2>2, SourceKept
<1>2. CASE ClaimSlab(d)
  BY <1>2, SourceClaim
<1>3. CASE SlabStep(d)
  <2>1. UNCHANGED <<cdone, cur, nextSlab>> /\ Working(d)
    BY <1>3, SlabMoved, WorkersOnlyAdd DEF pullVars
  <2>2. CASE Keeps(d)
    <3>1. UNCHANGED <<copies, hostMap>>
      BY <2>2 DEF Keeps
    <3>2. \A e \in Devices : Working(e)' => Working(e)
      BY <1>3, SlabMoved DEF Working
    <3>3. QED BY <2>1, <3>1, <3>2, SourceKept
  <2>3. QED
    BY <1>3, <2>1, <2>2, WayOfASlab, SourcePasses, SourceGates, SourceArrives
<1>4. QED BY <1>1, <1>2, <1>3 DEF Worker, SlabStep

LEMMA SourceStreams ==
  ASSUME TypeOK, CurType, SourceInv, NEW d \in Devices, Streams(d)
  PROVE  SourceInv'
<1>1. CASE KernelDone(d)
  <2>1. UNCHANGED <<copies, cdone, hostMap, cur, nextSlab, pc>>
    BY <1>1 DEF KernelDone, pullVars
  <2>2. QED BY <2>1, SourceKept DEF Working
<1>2. QED BY <1>1, SourceCopyStep DEF Streams

-----------------------------------------------------------------------------
(* The arrival of a slab *)

\* A slab that is in the host map stays there.
LEMMA StayInMap ==
  ASSUME TypeOK, TypeOK', CurType, RouteInv, NEW d \in Devices, Worker(d) \/ Streams(d)
  PROVE  \A s \in Slabs : hostMap[s] # "empty" => hostMap'[s] # "empty"
<1>1. CASE TakeSlot(d) \/ ClaimSlab(d) \/ KernelDone(d)
  BY <1>1 DEF TakeSlot, ClaimSlab, KernelDone
<1>2. CASE SlabStep(d)
  BY <1>2, WayOfASlab DEF Keeps, Passes, Gates, Arrives, TypeOK, DeviceType
<1>3. CASE CopyStep(d)
  BY <1>3 DEF CopyStep, Image, TypeOK, DeviceType
<1>4. QED BY <1>1, <1>2, <1>3 DEF Worker, SlabStep, Streams

\* A copy that is underway stays so while workers add to the streams.
LEMMA StayUnderway ==
  ASSUME TypeOK, TypeOK', Grown, UNCHANGED cdone, NEW s \in Slabs, Underway(s)
  PROVE  Underway(s)'
<1>1. PICK e \in Devices : \E i \in 1 .. Len(copies[e]) :
        i > cdone[e] /\ copies[e][i].slab = s
  BY DEF Underway
<1>2. PICK i \in 1 .. Len(copies[e]) : i > cdone[e] /\ copies[e][i].slab = s
  BY <1>1
<1>3. Len(copies[e]) <= Len(copies'[e]) /\ copies'[e][i] = copies[e][i]
  BY DEF Grown, Prolongs
<1>4. copies[e] \in Seq(Entry) /\ copies'[e] \in Seq(Entry)
  BY DEF TypeOK, DeviceType
<1>5. Len(copies[e]) \in Nat /\ Len(copies'[e]) \in Nat
  BY <1>4
<1>6. i \in 1 .. Len(copies'[e])
  BY <1>3, <1>5
<1>7. QED BY <1>2, <1>3, <1>6 DEF Underway

\* ArrivalInv is kept by the main thread, ...
LEMMA ArrivalMain ==
  ASSUME PullInv, ArrivalInv, Main
  PROVE  ArrivalInv'
<1>1. UNCHANGED <<copies, cdone, hostMap, cur, nextSlab>> /\ (failed => failed')
  BY StreamsLeftAlone DEF streamVars, pullVars
<1>2. \A d \in Devices : Working(d)' <=> Working(d)
  BY Spawned, WorkersLeftAlone DEF Working
<1>3. QED BY <1>1, <1>2 DEF ArrivalInv, InHand, Underway

\* ... by a worker, whose slab passes from its hand into a stream or the map, ...
LEMMA ArrivalWorker ==
  ASSUME TypeOK, TypeOK', CurType, PullInv, StreamInv, RouteInv, ArrivalInv,
         NEW d \in Devices, Worker(d)
  PROVE  ArrivalInv'
<1>1. UNCHANGED <<kdone, cdone>> /\ Grown /\ (failed => failed')
  BY WorkersOnlyAdd, SlabMoved, TicketDrawn, SlabClaimed DEF Worker, SlabStep
<1>2. SUFFICES ASSUME ~failed', NEW s \in Slabs, s < nextSlab'
               PROVE  \/ hostMap'[s] # "empty"
                      \/ \E e \in Devices : InHand(e, s)'
                      \/ Underway(s)'
  BY DEF ArrivalInv
<1>3. /\ hostMap[s] # "empty" => hostMap'[s] # "empty"
      /\ Underway(s) => Underway(s)'
  BY <1>1, StayInMap, StayUnderway
<1>4. CASE TakeSlot(d)
  <2>1. \A e \in Devices : InHand(e, s) => InHand(e, s)'
    BY <1>4, TicketDrawn DEF InHand, Working
  <2>2. nextSlab' = nextSlab /\ failed' = failed
    BY <1>4, TicketDrawn
  <2>3. QED BY <1>2, <1>3, <2>1, <2>2 DEF ArrivalInv
<1>5. CASE ClaimSlab(d)
  <2>1. /\ nextSlab' = nextSlab + 1 /\ nextSlab \in Nat /\ cur'[d] = nextSlab
        /\ pc[d] = "claim" /\ pc'[d] \in {"compute", "stage"}
        /\ \A e \in Devices \ {d} : pc'[e] = pc[e] /\ cur'[e] = cur[e]
        /\ failed' = failed
    BY <1>5, SlabClaimed DEF TypeOK, PullType
  <2>2. \A e \in Devices : InHand(e, s) => InHand(e, s)'
    BY <2>1 DEF InHand, Working
  <2>3. CASE s = nextSlab
    BY <2>1, <2>3 DEF InHand, Working
  <2>4. CASE s # nextSlab
    <3>1. s < nextSlab
      BY <1>2, <2>1, <2>4 DEF Slabs
    <3>2. QED BY <1>2, <1>3, <2>1, <2>2, <3>1 DEF ArrivalInv
  <2>5. QED BY <2>3, <2>4
<1>6. CASE SlabStep(d)
  <2>1. /\ UNCHANGED <<cur, nextSlab>> /\ ~failed
        /\ Working(d) /\ \A e \in Devices \ {d} : pc'[e] = pc[e]
    BY <1>2, <1>6, SlabMoved DEF pullVars
  <2>2. cur[d] \in Slabs
    BY <2>1 DEF CurType, Working
  <2>3. SUFFICES ASSUME s = cur[d]
                 PROVE  \/ hostMap'[s] # "empty"
                        \/ \E e \in Devices : InHand(e, s)'
                        \/ Underway(s)'
    <3>1. \A e \in Devices \ {d} : InHand(e, s) => InHand(e, s)'
      BY <2>1 DEF InHand, Working
    <3>2. QED BY <1>2, <1>3, <2>1, <2>3, <3>1 DEF ArrivalInv, InHand
  <2>4. CASE Keeps(d) \/ Gates(d)
    <3>1. pc'[d] \in Steps \ {"off", "claim", "slot", "exited"}
      BY <1>2, <2>4 DEF Keeps, Gates, Steps, TypeOK, PullType
    <3>2. QED BY <2>1, <2>3, <3>1 DEF InHand, Working
  <2>5. CASE Passes(d)
    <3>1. PICK o \in Devices, gate \in Nat :
            copies' = [copies EXCEPT ![o] = Append(@, CopyEntry(cur[d], gate))]
      BY <2>5 DEF Passes
    <3>2. CopyEntry(cur[d], gate) \in Entry /\ CopyEntry(cur[d], gate).slab = cur[d]
      BY <2>2 DEF CopyEntry, Entry
    <3>3. /\ Len(copies[o]) \in Nat /\ Len(copies'[o]) = Len(copies[o]) + 1
          /\ copies'[o][Len(copies[o]) + 1].slab = cur[d]
      BY <3>1, <3>2, Enqueued DEF TypeOK
    <3>4. cdone'[o] \in Nat /\ cdone'[o] <= Len(copies[o])
      BY <1>1 DEF StreamInv, TypeOK, DeviceType
    <3>5. Len(copies[o]) + 1 \in 1 .. Len(copies'[o]) /\ Len(copies[o]) + 1 > cdone'[o]
      BY <3>3, <3>4
    <3>6. QED BY <2>3, <3>3, <3>5 DEF Underway
  <2>6. CASE Arrives(d)
    BY <2>2, <2>3, <2>6 DEF Arrives, TypeOK, DeviceType
  <2>7. QED BY <1>6, <2>4, <2>5, <2>6, WayOfASlab
<1>7. QED BY <1>4, <1>5, <1>6 DEF Worker, SlabStep

\* ... and by a stream, which runs a copy by putting its slab into the map.
LEMMA ArrivalStreams ==
  ASSUME TypeOK, TypeOK', CurType, StreamInv, RouteInv, ArrivalInv,
         NEW d \in Devices, Streams(d)
  PROVE  ArrivalInv'
<1>1. UNCHANGED <<copies, failed, pc, cur, nextSlab>>
  BY StreamsEnqueueNothing DEF pullVars
<1>2. CASE KernelDone(d)
  <2>1. UNCHANGED <<cdone, hostMap>>
    BY <1>2 DEF KernelDone
  <2>2. QED BY <1>1, <2>1 DEF ArrivalInv, InHand, Working, Underway
<1>3. CASE CopyStep(d)
  <2> DEFINE n == cdone[d] + 1
  <2>1. /\ cdone[d] < Len(copies[d])
        /\ cdone' = [cdone EXCEPT ![d] = @ + 1]
        /\ copies[d][n].slab # NoSlab =>
             hostMap' = [hostMap EXCEPT ![copies[d][n].slab] = Image(copies[d][n].slab)]
    BY <1>3 DEF CopyStep
  <2>2. cdone'[d] = n /\ \A e \in Devices \ {d} : cdone'[e] = cdone[e]
    BY <2>1 DEF TypeOK, DeviceType
  <2>3. ASSUME NEW s \in Slabs, Underway(s)
        PROVE  Underway(s)' \/ hostMap'[s] # "empty"
    <3>1. PICK e \in Devices : \E i \in 1 .. Len(copies[e]) :
            i > cdone[e] /\ copies[e][i].slab = s
      BY <2>3 DEF Underway
    <3>2. PICK i \in 1 .. Len(copies[e]) : i > cdone[e] /\ copies[e][i].slab = s
      BY <3>1
    <3>3. CASE e = d /\ i = n
      <4>1. copies[d][n].slab = s /\ s # NoSlab
        BY <3>2, <3>3, SentinelAssumption
      <4>2. hostMap'[s] = Image(s)
        BY <2>1, <4>1 DEF TypeOK, DeviceType
      <4>3. QED BY <4>2 DEF Image
    <3>4. CASE ~(e = d /\ i = n)
      <4>1. i > cdone'[e]
        BY <2>2, <3>2, <3>4, StreamTypes DEF TypeOK
      <4>2. QED BY <1>1, <3>2, <4>1 DEF Underway
    <3>5. QED BY <3>3, <3>4
  <2>4. \A s \in Slabs : hostMap[s] # "empty" => hostMap'[s] # "empty"
    BY StayInMap
  <2>5. QED BY <1>1, <2>3, <2>4 DEF ArrivalInv, InHand, Working
<1>4. QED BY <1>2, <1>3 DEF Streams

-----------------------------------------------------------------------------
(* The homes *)

\* ScratchInv is kept by the main thread, ...
LEMMA ScratchMain ==
  ASSUME PullInv, ScratchInv, Main
  PROVE  ScratchInv'
<1>1. UNCHANGED <<cur, staging, pinned>>
  BY StreamsLeftAlone DEF stageVars
<1>2. CASE Spawn
  BY <1>2, Spawned DEF ScratchInv
<1>3. CASE ~Spawn /\ phase = "setup"
  BY <1>3, WorkersLeftAlone DEF ScratchInv, PullInv, PhaseInv
<1>4. CASE ~Spawn /\ phase # "setup"
  BY <1>1, <1>4, WorkersLeftAlone, StreamsLeftAlone DEF ScratchInv
<1>5. QED BY <1>2, <1>3, <1>4

\* ... by a worker, which sieves in its own scratch and passes it on, ...
LEMMA ScratchWorker ==
  ASSUME TypeOK, CurType, PullInv, RouteInv, ScratchInv, NEW d \in Devices, Worker(d)
  PROVE  ScratchInv'
<1>1. CASE TakeSlot(d)
  BY <1>1, TicketDrawn DEF ScratchInv, stageVars
<1>2. CASE ClaimSlab(d)
  BY <1>2, SlabClaimed DEF ScratchInv, stageVars
<1>3. CASE SlabStep(d)
  <2>1. /\ UNCHANGED cur /\ Working(d)
        /\ \A e \in Devices \ {d} : pc'[e] = pc[e]
        /\ StaySieved
    BY <1>3, SlabMoved, WorkersOnlyAdd DEF Worker, SlabStep
  <2>2. \A e \in Devices : Working(e) => cur[e] \in Slabs
    BY DEF CurType, Working
  <2>3. \A e \in Devices \ {d} : staging'[e] = staging[e] /\ pinned'[e] = pinned[e]
    <3>1. CASE Stage(d) \/ Land(d)
      BY <3>1 DEF Stage, Land, TypeOK, PullType
    <3>2. CASE ~(Stage(d) \/ Land(d))
      BY <1>3, <3>2 DEF SlabStep, Compute, Record, WaitEvent, EnqueueCopy, FallbackCopy,
                        Direct, Push, Relay, RelaySync, stageVars
    <3>3. QED BY <3>1, <3>2
  <2>4. ASSUME NEW e \in Devices \ {d}
        PROVE  /\ pc'[e] \in {"land", "direct"} => staging'[e] = cur'[e]
               /\ pc'[e] = "push" => pinned'[e] = cur'[e]
               /\ pc'[e] \in {"relay", "relaySync"} => region'[cur'[e]] = "sieved"
    BY <2>1, <2>2, <2>3, <2>4 DEF ScratchInv, StaySieved, Working
  <2>5. /\ pc'[d] \in {"land", "direct"} => staging'[d] = cur[d]
        /\ pc'[d] = "push" => pinned'[d] = cur[d]
        /\ pc'[d] \in {"relay", "relaySync"} => region'[cur[d]] = "sieved"
    <3>1. CASE Fail(d)
      BY <3>1 DEF Fail, Goto, TypeOK, PullType
    <3>2. CASE ~Fail(d) /\ (Compute(d) \/ Record(d) \/ WaitEvent(d) \/ EnqueueCopy(d))
      BY <3>2 DEF Compute, Record, WaitEvent, EnqueueCopy, Goto, TypeOK, PullType
    <3>3. CASE ~Fail(d) /\ (FallbackCopy(d) \/ RelaySync(d) \/ Direct(d))
      BY <3>3 DEF FallbackCopy, RelaySync, Direct, SyncCopy, Goto, TypeOK, PullType
    <3>4. CASE ~Fail(d) /\ Stage(d)
      BY <3>4 DEF Stage, Goto, TypeOK, PullType
    <3>5. CASE ~Fail(d) /\ Land(d)
      BY <3>5 DEF Land, Goto, ScratchInv, TypeOK, PullType
    <3>6. CASE ~Fail(d) /\ Push(d)
      <4>1. /\ pc'[d] = "relay" /\ pinned[d] = cur[d]
            /\ region' = [region EXCEPT ![cur[d]] =
                            IF pinned[d] = cur[d] THEN "sieved" ELSE @]
        BY <3>6 DEF Push, Goto, ScratchInv, TypeOK, PullType
      <4>2. region'[cur[d]] = "sieved"
        BY <2>1, <2>2, <4>1 DEF TypeOK, DeviceType
      <4>3. QED BY <4>1, <4>2
    <3>7. CASE ~Fail(d) /\ Relay(d)
      BY <3>7 DEF Relay, Goto, ScratchInv, TypeOK, PullType
    <3>8. QED
      BY <1>3, <3>1, <3>2, <3>3, <3>4, <3>5, <3>6, <3>7 DEF SlabStep
  <2>6. QED BY <2>1, <2>4, <2>5 DEF ScratchInv
<1>4. QED BY <1>1, <1>2, <1>3 DEF Worker, SlabStep

\* ... and by the streams, which use no scratch.
LEMMA ScratchStreams ==
  ASSUME TypeOK, CurType, StreamInv, ScratchInv, NEW d \in Devices, Streams(d)
  PROVE  ScratchInv'
<1>1. UNCHANGED <<pc, cur, staging, pinned>> /\ StaySieved
  BY StreamsEnqueueNothing, StreamStreams DEF stageVars
<1>2. \A e \in Devices : pc[e] \in {"relay", "relaySync"} => cur[e] \in Slabs
  BY DEF CurType
<1>3. QED BY <1>1, <1>2 DEF ScratchInv, StaySieved

\* A kernel that was launched stays launched while workers add to the streams.
LEMMA StayLaunched ==
  ASSUME TypeOK, TypeOK', Grown, NEW o \in Devices, NEW s \in Slabs, Launched(o, s)
  PROVE  Launched(o, s)'
<1>1. PICK k \in 1 .. Len(kernels[o]) : kernels[o][k] = s
  BY DEF Launched
<1>2. Len(kernels[o]) <= Len(kernels'[o]) /\ kernels'[o][k] = kernels[o][k]
  BY DEF Grown, Prolongs
<1>3. kernels[o] \in Seq(Slabs) /\ kernels'[o] \in Seq(Slabs)
  BY DEF TypeOK, DeviceType
<1>4. k \in 1 .. Len(kernels'[o])
  BY <1>2, <1>3
<1>5. QED BY <1>1, <1>2, <1>4 DEF Launched

\* HomeInv is kept by the main thread, ...
LEMMA HomeMain ==
  ASSUME PullInv, HeldInv, HomeInv, Main
  PROVE  HomeInv'
<1>1. UNCHANGED <<kernels, cur, nextSlab>> /\ (failed => failed')
  BY StreamsLeftAlone DEF streamVars, pullVars
<1>2. CASE phase = "setup"
  BY <1>1, <1>2 DEF HeldInv, HomeInv, Slabs
<1>3. CASE phase # "setup"
  <2>1. UNCHANGED region
    BY <1>3, StreamsLeftAlone
  <2>2. \A d \in Devices : \/ pc'[d] = pc[d]
                           \/ ~Working(d) /\ ~Working(d)'
    BY Spawned, WorkersLeftAlone DEF Working
  <2>3. QED BY <1>1, <2>1, <2>2 DEF HomeInv, InHand, Launched, Working
<1>4. QED BY <1>2, <1>3

\* ... by a worker, which launches the kernel of a home slab or pushes the slab
\* of another device to it, ...
LEMMA HomeWorker ==
  ASSUME TypeOK, TypeOK', CurType, PullInv, RouteInv, ScratchInv, HomeInv,
         NEW d \in Devices, Worker(d)
  PROVE  HomeInv'
<1> DEFINE Bound == {"compute", "stage", "land", "push"}
<1>1. Grown /\ StaySieved /\ (failed => failed')
  BY WorkersOnlyAdd, SlabMoved, TicketDrawn, SlabClaimed DEF Worker, SlabStep
<1>2. SUFFICES ASSUME ~failed', NEW s \in Slabs, s < nextSlab', OwnerOf[s] \in Devices
               PROVE  \/ region'[s] = "sieved"
                      \/ Launched(OwnerOf[s], s)'
                      \/ \E e \in Devices : InHand(e, s)' /\ pc'[e] \in Bound
  BY DEF HomeInv
<1>3. /\ region[s] = "sieved" => region'[s] = "sieved"
      /\ Launched(OwnerOf[s], s) => Launched(OwnerOf[s], s)'
  BY <1>1, <1>2, StayLaunched DEF StaySieved
<1>4. CASE TakeSlot(d)
  <2>1. \A e \in Devices : InHand(e, s) /\ pc[e] \in Bound => InHand(e, s)' /\ pc'[e] \in Bound
    BY <1>4, TicketDrawn DEF InHand, Working
  <2>2. nextSlab' = nextSlab /\ failed' = failed
    BY <1>4, TicketDrawn
  <2>3. QED BY <1>2, <1>3, <2>1, <2>2 DEF HomeInv
<1>5. CASE ClaimSlab(d)
  <2>1. /\ nextSlab' = nextSlab + 1 /\ nextSlab \in Nat /\ cur'[d] = nextSlab
        /\ pc[d] = "claim" /\ pc'[d] \in {"compute", "stage"}
        /\ \A e \in Devices \ {d} : pc'[e] = pc[e] /\ cur'[e] = cur[e]
        /\ failed' = failed
    BY <1>5, SlabClaimed DEF TypeOK, PullType
  <2>2. \A e \in Devices : InHand(e, s) /\ pc[e] \in Bound => InHand(e, s)' /\ pc'[e] \in Bound
    BY <2>1 DEF InHand, Working
  <2>3. CASE s = nextSlab
    BY <2>1, <2>3 DEF InHand, Working
  <2>4. CASE s # nextSlab
    <3>1. s < nextSlab
      BY <1>2, <2>1, <2>4 DEF Slabs
    <3>2. QED BY <1>2, <1>3, <2>1, <2>2, <3>1 DEF HomeInv
  <2>5. QED BY <2>3, <2>4
<1>6. CASE SlabStep(d)
  <2>1. /\ UNCHANGED <<cur, nextSlab>> /\ ~failed
        /\ Working(d) /\ \A e \in Devices \ {d} : pc'[e] = pc[e]
    BY <1>2, <1>6, SlabMoved DEF pullVars
  <2>2. \A e \in Devices \ {d} : InHand(e, s) /\ pc[e] \in Bound => InHand(e, s)' /\ pc'[e] \in Bound
    BY <2>1 DEF InHand, Working
  <2>3. SUFFICES ASSUME s = cur[d], pc[d] \in Bound
                 PROVE  \/ region'[s] = "sieved"
                        \/ Launched(OwnerOf[s], s)'
                        \/ \E e \in Devices : InHand(e, s)' /\ pc'[e] \in Bound
    BY <1>2, <1>3, <2>1, <2>2 DEF HomeInv, InHand
  <2>4. ~Fail(d)
    BY <1>2 DEF Fail
  <2>5. CASE Compute(d)
    <3>0. OwnerOf[s] = d
      BY <2>3, <2>5 DEF Compute, RouteInv
    <3>1. kernels' = [kernels EXCEPT ![d] = Append(@, s)]
      BY <2>3, <2>4, <2>5 DEF Compute
    <3>2. /\ Len(kernels[d]) \in Nat /\ Len(kernels'[d]) = Len(kernels[d]) + 1
          /\ kernels'[d][Len(kernels[d]) + 1] = s
      BY <3>1, KernelLaunched DEF TypeOK
    <3>3. Launched(OwnerOf[s], s)'
      BY <3>0, <3>2 DEF Launched
    <3>4. QED BY <3>3
  <2>6. CASE Stage(d) \/ Land(d)
    <3>1. pc'[d] \in Bound
      BY <1>2, <2>3, <2>4, <2>6, SentinelAssumption
         DEF Stage, Land, Goto, Owner, TypeOK, PullType
    <3>2. QED BY <2>1, <2>3, <3>1 DEF InHand, Working
  <2>7. CASE Push(d)
    <3>1. /\ pinned[d] = cur[d]
          /\ region' = [region EXCEPT ![cur[d]] =
                          IF pinned[d] = cur[d] THEN "sieved" ELSE @]
      BY <2>4, <2>7 DEF Push, ScratchInv
    <3>2. QED BY <2>3, <3>1 DEF TypeOK, DeviceType
  <2>8. QED
    BY <1>6, <2>3, <2>5, <2>6, <2>7
       DEF SlabStep, Record, WaitEvent, EnqueueCopy, FallbackCopy, Direct, Relay, RelaySync
<1>7. QED BY <1>4, <1>5, <1>6 DEF Worker, SlabStep

\* ... and by the streams.
LEMMA HomeStreams ==
  ASSUME TypeOK, StreamInv, HomeInv, NEW d \in Devices, Streams(d)
  PROVE  HomeInv'
<1>1. UNCHANGED <<kernels, failed, pc, cur, nextSlab>> /\ StaySieved
  BY StreamsEnqueueNothing, StreamStreams DEF pullVars
<1>2. QED BY <1>1 DEF HomeInv, StaySieved, InHand, Working, Launched

-----------------------------------------------------------------------------
(* The order of kernel and copy *)

\* The main thread is at rest while a worker has a slab in hand.
LEMMA MainWaits ==
  ASSUME TypeOK, PullInv, Main, NEW d \in Devices
  PROVE  pc[d] \in {"off", "slot", "claim", "exited"} /\ pc'[d] \in {"off", "slot", "exited"}
<1>1. CASE Spawn
  BY <1>1, Spawned
<1>2. CASE ~Spawn
  <2>1. UNCHANGED pc
    BY <1>2, WorkersLeftAlone
  <2>2. CASE pc[d] \notin {"off", "exited"}
    <3>1. phase = "workers" /\ ret = "none"
      BY <2>2, AtWork
    <3>2. Join
      BY <1>2, <3>1 DEF Main, SetupStep, SetupDevice, SetupFails, CreateStreams, FenceStep,
                        Fence, FenceFails, HandOff, KeepLocal, Teardown, Release
    <3>3. QED BY <2>2, <3>2 DEF Join
  <2>3. QED BY <2>1, <2>2
<1>3. QED BY <1>1, <1>2

\* A worker launches kernels, and records the event, on its own device only.
LEMMA KernelsOfOwner ==
  ASSUME TypeOK, NEW d \in Devices, Worker(d), NEW e \in Devices \ {d}
  PROVE  kernels'[e] = kernels[e] /\ mark'[e] = mark[e]
<1>1. CASE Compute(d) \/ Record(d)
  BY <1>1 DEF Compute, Record, TypeOK, DeviceType
<1>2. CASE ~(Compute(d) \/ Record(d))
  BY <1>2 DEF Worker, TakeSlot, ClaimSlab, WaitEvent, EnqueueCopy, FallbackCopy, Stage,
              Direct, Land, Push, Relay, RelaySync, streamVars
<1>3. QED BY <1>1, <1>2

\* A gate that is enqueued stays in front of what comes behind it.
LEMMA StayGated ==
  ASSUME TypeOK, TypeOK', Grown, NEW o \in Devices, NEW s, NEW n \in Nat, NEW m \in Nat,
         n <= Len(copies[o]), n <= m, Gated(o, s, n)
  PROVE  Gated(o, s, m)'
<1>1. PICK j \in 1 .. n, k \in 1 .. Len(kernels[o]) :
        kernels[o][k] = s /\ copies[o][j].after >= k
  BY DEF Gated
<1>2. /\ kernels[o] \in Seq(Slabs) /\ kernels'[o] \in Seq(Slabs)
      /\ copies[o] \in Seq(Entry) /\ copies'[o] \in Seq(Entry)
  BY DEF TypeOK, DeviceType
<1>3. /\ Len(kernels[o]) <= Len(kernels'[o]) /\ kernels'[o][k] = kernels[o][k]
      /\ copies'[o][j] = copies[o][j]
  BY <1>2 DEF Grown, Prolongs
<1>4. j \in 1 .. m /\ k \in 1 .. Len(kernels'[o])
  BY <1>2, <1>3
<1>5. QED BY <1>1, <1>3, <1>4 DEF Gated

\* A kernel that a stream has run, or that a copy was gated behind, left its slab
\* sieved.
LEMMA DrainedIsSieved ==
  ASSUME TypeOK, StreamInv, NEW d \in Devices, NEW s, Launched(d, s),
         kdone[d] = Len(kernels[d])
  PROVE  region[s] = "sieved"
  BY DEF StreamInv, Launched

LEMMA GatedIsSieved ==
  ASSUME TypeOK, StreamInv, NEW d \in Devices, NEW s,
         cdone[d] < Len(copies[d]), copies[d][cdone[d] + 1].after <= kdone[d],
         Gated(d, s, cdone[d] + 1)
  PROVE  region[s] = "sieved"
<1>1. PICK j \in 1 .. cdone[d] + 1, k \in 1 .. Len(kernels[d]) :
        kernels[d][k] = s /\ copies[d][j].after >= k
  BY DEF Gated
<1>2. /\ cdone[d] \in Nat /\ kdone[d] \in Nat /\ Len(copies[d]) \in Nat
      /\ Len(kernels[d]) \in Nat
      /\ \A i \in 1 .. Len(copies[d]) : copies[d][i] \in Entry
  BY StreamTypes DEF TypeOK
<1>3. copies[d][j].after \in Nat
  BY <1>2 DEF Entry
<1>4. copies[d][j].after <= kdone[d]
  <2>1. CASE j = cdone[d] + 1
    BY <2>1
  <2>2. CASE j # cdone[d] + 1
    <3>1. j \in 1 .. cdone[d]
      BY <1>2, <2>2
    <3>2. QED BY <3>1 DEF StreamInv
  <2>3. QED BY <2>1, <2>2
<1>5. k \in 1 .. kdone[d]
  BY <1>1, <1>2, <1>3, <1>4
<1>6. QED BY <1>1, <1>5 DEF StreamInv

\* OrderInv is kept by the main thread, ...
LEMMA OrderMain ==
  ASSUME TypeOK, PullInv, HeldInv, OrderInv, Main
  PROVE  OrderInv'
<1>1. UNCHANGED <<copies, kernels, hostMap>>
  BY StreamsLeftAlone DEF streamVars
<1>2. \A d \in Devices : pc'[d] \in {"off", "slot", "exited"}
  BY MainWaits
<1>3. CASE phase = "setup"
  <2>1. \A d \in Devices : 1 .. Len(copies[d]) = {}
    BY <1>3 DEF HeldInv
  <2>2. QED BY <1>1, <1>2, <2>1 DEF OrderInv, NoCopyBeforeSieve
<1>4. CASE phase # "setup"
  <2>1. UNCHANGED region
    BY <1>4, StreamsLeftAlone
  <2>2. QED BY <1>1, <1>2, <2>1 DEF OrderInv, NoCopyBeforeSieve, IsCopy, Gated
<1>5. QED BY <1>3, <1>4

\* ... by a stream, which runs a copy only behind its gates, ...
LEMMA OrderStreams ==
  ASSUME TypeOK, CurType, StreamInv, OrderInv, NEW d \in Devices, Streams(d)
  PROVE  OrderInv'
<1>1. UNCHANGED <<copies, kernels, mark, pc, cur, held>> /\ StaySieved
  BY StreamsEnqueueNothing, StreamStreams, MainLeftAlone DEF mainVars
<1>2. \A e \in Devices : \A i \in 1 .. Len(copies[e]) :
        IsCopy(e, i) => copies[e][i].slab \in Slabs
  BY StreamTypes DEF IsCopy, Entry, TypeOK
<1>3. NoCopyBeforeSieve'
  <2>1. CASE KernelDone(d)
    BY <2>1 DEF KernelDone, OrderInv, NoCopyBeforeSieve
  <2>2. CASE CopyStep(d)
    <3> DEFINE s == copies[d][cdone[d] + 1].slab
    <3>1. /\ cdone[d] < Len(copies[d])
          /\ copies[d][cdone[d] + 1].after <= kdone[d]
          /\ hostMap' = IF s = NoSlab THEN hostMap
                        ELSE [hostMap EXCEPT ![s] = Image(s)]
      BY <2>2 DEF CopyStep
    <3>2. CASE s = NoSlab
      BY <3>1, <3>2 DEF OrderInv, NoCopyBeforeSieve
    <3>3. CASE s # NoSlab
      <4>1. cdone[d] + 1 \in 1 .. Len(copies[d])
        BY <3>1, StreamTypes DEF TypeOK
      <4>2. region[s] = "sieved" \/ Gated(d, s, cdone[d] + 1)
        BY <3>3, <4>1 DEF OrderInv, IsCopy
      <4>3. region[s] = "sieved"
        BY <3>1, <4>2, GatedIsSieved
      <4>4. hostMap' = [hostMap EXCEPT ![s] = "final"]
        BY <3>1, <3>3, <4>3 DEF Image
      <4>5. QED BY <4>4 DEF OrderInv, NoCopyBeforeSieve, TypeOK, DeviceType
    <3>4. QED BY <3>2, <3>3
  <2>3. QED BY <2>1, <2>2 DEF Streams
<1>4. QED
  BY <1>1, <1>2, <1>3 DEF OrderInv, StaySieved, IsCopy, Gated, Launched

\* What OrderInv says of the workers' hands, ...
HandOrder(e) ==
  /\ pc[e] \in {"record", "wait", "enqueue", "fallback"} => Launched(e, cur[e])
  /\ pc[e] = "wait" /\ "evEndA" \in held[e] => mark[e] = Len(kernels[e])
  /\ pc[e] = "enqueue" => Gated(e, cur[e], Len(copies[e]))

\* ... and of the entries of the copy streams.
EntryOrder(e, i) ==
  IsCopy(e, i) => region[copies[e][i].slab] = "sieved" \/ Gated(e, copies[e][i].slab, i)

\* A worker has launched the kernel of its home slab when it gates the stream
\* behind it, and has gated it when it enqueues the copy.
LEMMA HandWorker ==
  ASSUME RecordsSucceed, TypeOK, TypeOK', CurType, PullInv, StreamInv, RouteInv,
         ScratchInv, OrderInv, NEW d \in Devices, Worker(d)
  PROVE  \A e \in Devices : HandOrder(e)'
<1>1. Grown /\ StaySieved
  BY WorkersOnlyAdd
<1>2. UNCHANGED held
  BY MainLeftAlone DEF mainVars
<1>3. \A e \in Devices : Working(e) => cur[e] \in Slabs
  BY DEF CurType, Working
<1>4. ASSUME NEW e \in Devices \ {d}, pc'[e] = pc[e], cur'[e] = cur[e]
      PROVE  HandOrder(e)'
  <2>1. pc[e] \in {"record", "wait", "enqueue", "fallback"} =>
          cur[e] \in Slabs /\ Launched(e, cur[e])
    BY <1>3 DEF OrderInv, Working
  <2>2. pc[e] \in {"record", "wait", "enqueue", "fallback"} => Launched(e, cur[e])'
    BY <1>1, <1>4, <2>1, StayLaunched
  <2>3. kernels'[e] = kernels[e] /\ mark'[e] = mark[e]
    BY KernelsOfOwner
  <2>4. pc[e] = "enqueue" => Gated(e, cur[e], Len(copies[e]))'
    <3>1. SUFFICES ASSUME pc[e] = "enqueue" PROVE Gated(e, cur[e], Len(copies[e]))'
      OBVIOUS
    <3>2. copies[e] \in Seq(Entry) /\ copies'[e] \in Seq(Entry)
      BY DEF TypeOK, DeviceType
    <3>3. /\ Len(copies[e]) \in Nat /\ Len(copies'[e]) \in Nat
          /\ Len(copies[e]) <= Len(copies'[e])
      BY <1>1, <3>2 DEF Grown, Prolongs
    <3>4. Gated(e, cur[e], Len(copies[e]))
      BY <3>1 DEF OrderInv
    <3>5. \A m \in Nat : Len(copies[e]) <= m => Gated(e, cur[e], m)'
      BY <1>1, <1>4, <3>3, <3>4, StayGated
    <3>6. QED BY <1>4, <3>3, <3>5 DEF Gated
  <2>5. QED BY <1>2, <1>4, <2>2, <2>3, <2>4 DEF OrderInv, HandOrder
<1>5. CASE TakeSlot(d)
  <2>1. HandOrder(d)'
    BY <1>5, TicketDrawn DEF HandOrder
  <2>2. QED BY <1>4, <1>5, <2>1, TicketDrawn
<1>6. CASE ClaimSlab(d)
  <2>1. HandOrder(d)'
    BY <1>6, SlabClaimed DEF HandOrder
  <2>2. QED BY <1>4, <1>6, <2>1, SlabClaimed
<1>7. CASE SlabStep(d)
  <2>1. /\ UNCHANGED cur /\ Working(d) /\ cur[d] \in Slabs
        /\ \A e \in Devices \ {d} : pc'[e] = pc[e]
    BY <1>3, <1>7, SlabMoved
  <2>2. pc[d] \in {"record", "wait", "enqueue"} => Launched(d, cur[d])'
    <3>1. pc[d] \in {"record", "wait", "enqueue"} => Launched(d, cur[d])
      BY DEF OrderInv
    <3>2. QED BY <1>1, <2>1, <3>1, StayLaunched
  <2>3. CASE pc'[d] \notin {"record", "wait", "enqueue", "fallback"}
    <3>1. HandOrder(d)'
      BY <2>3 DEF HandOrder
    <3>2. QED BY <1>4, <2>1, <3>1
  <2>4. CASE Compute(d) /\ ~Fail(d)
    <3>1. kernels' = [kernels EXCEPT ![d] = Append(@, cur[d])] /\ pc'[d] = "record"
      BY <2>4 DEF Compute, Goto, TypeOK, PullType
    <3>2. /\ Len(kernels[d]) \in Nat /\ Len(kernels'[d]) = Len(kernels[d]) + 1
          /\ kernels'[d][Len(kernels[d]) + 1] = cur[d]
      BY <2>1, <3>1, KernelLaunched DEF TypeOK
    <3>3. Launched(d, cur[d])'
      BY <2>1, <3>2 DEF Launched
    <3>4. HandOrder(d)'
      BY <3>1, <3>3 DEF HandOrder
    <3>5. QED BY <1>4, <2>1, <3>4
  <2>5. CASE Record(d)
    <3>1. /\ pc[d] = "record" /\ pc'[d] = "wait" /\ UNCHANGED kernels
          /\ "evEndA" \in held[d] => mark' = [mark EXCEPT ![d] = Len(kernels[d])]
      BY <2>5 DEF Record, Goto, RecordsSucceed, TypeOK, PullType
    <3>2. "evEndA" \in held'[d] => mark'[d] = Len(kernels'[d])
      BY <1>2, <3>1 DEF TypeOK, DeviceType
    <3>3. HandOrder(d)'
      BY <2>2, <3>1, <3>2 DEF HandOrder
    <3>4. QED BY <1>4, <2>1, <3>3
  <2>6. CASE WaitEvent(d)
    <3>1. pc[d] = "wait" /\ UNCHANGED kernels
      BY <2>6 DEF WaitEvent
    <3>2. CASE pc'[d] = "fallback"
      <4>1. HandOrder(d)'
        BY <2>2, <3>1, <3>2 DEF HandOrder
      <4>2. QED BY <1>4, <2>1, <4>1
    <3>3. CASE pc'[d] # "fallback"
      <4>1. /\ "evEndA" \in held[d] /\ pc'[d] = "enqueue"
            /\ copies' = [copies EXCEPT ![d] = Append(@, WaitEntry(mark[d]))]
        BY <2>6, <3>3 DEF WaitEvent, Goto, TypeOK, PullType
      <4>2. mark[d] = Len(kernels[d]) /\ Launched(d, cur[d]) /\ mark[d] \in Nat
        BY <3>1, <4>1 DEF OrderInv, TypeOK, DeviceType
      <4>3. WaitEntry(mark[d]) \in Entry /\ WaitEntry(mark[d]).after = mark[d]
        BY <4>2 DEF WaitEntry, Entry
      <4>4. /\ Len(copies[d]) \in Nat /\ Len(copies'[d]) = Len(copies[d]) + 1
            /\ copies'[d][Len(copies[d]) + 1].after = mark[d]
        BY <4>1, <4>3, Enqueued DEF TypeOK
      <4>5. PICK k \in 1 .. Len(kernels[d]) : kernels[d][k] = cur[d]
        BY <4>2 DEF Launched
      <4>6. Len(copies'[d]) \in 1 .. Len(copies'[d]) /\ k <= mark[d]
        BY <4>2, <4>4
      <4>7. Gated(d, cur[d], Len(copies[d]))'
        BY <2>1, <3>1, <4>2, <4>4, <4>5, <4>6 DEF Gated
      <4>8. HandOrder(d)'
        BY <2>2, <3>1, <4>1, <4>7 DEF HandOrder
      <4>9. QED BY <1>4, <2>1, <4>8
    <3>4. QED BY <3>2, <3>3
  <2>7. CASE EnqueueCopy(d) /\ pc'[d] = "fallback"
    <3>1. HandOrder(d)'
      BY <2>2, <2>7 DEF HandOrder, EnqueueCopy
    <3>2. QED BY <1>4, <2>1, <3>1
  <2>8. ASSUME pc'[d] \in {"record", "wait", "enqueue", "fallback"}
        PROVE  \/ Compute(d) /\ ~Fail(d)
               \/ Record(d)
               \/ WaitEvent(d)
               \/ EnqueueCopy(d) /\ pc'[d] = "fallback"
    <3>1. ~Fail(d)
      BY <2>8 DEF Fail, Goto, TypeOK, PullType
    <3>2. EnqueueCopy(d) => pc'[d] = "fallback"
      BY <2>8 DEF EnqueueCopy, Goto, TypeOK, PullType
    <3>3. ~(FallbackCopy(d) \/ Direct(d) \/ RelaySync(d))
      BY <2>8, <3>1 DEF FallbackCopy, Direct, RelaySync, SyncCopy, Goto, TypeOK, PullType
    <3>4. ~(Stage(d) \/ Land(d) \/ Push(d) \/ Relay(d))
      BY <2>8, <3>1 DEF Stage, Land, Push, Relay, Goto, TypeOK, PullType
    <3>5. Compute(d) \/ Record(d) \/ WaitEvent(d) \/ EnqueueCopy(d)
      BY <1>7, <3>3, <3>4 DEF SlabStep
    <3>6. QED BY <3>1, <3>2, <3>5
  <2>9. QED BY <2>3, <2>4, <2>5, <2>6, <2>7, <2>8
<1>8. QED BY <1>5, <1>6, <1>7 DEF Worker, SlabStep

\* What a worker enqueues is behind its gate, or sieved.
LEMMA EntryWorker ==
  ASSUME TypeOK, TypeOK', CurType, PullInv, RouteInv, ScratchInv, OrderInv,
         NEW d \in Devices, Worker(d), NEW e \in Devices, NEW i \in 1 .. Len(copies'[e])
  PROVE  EntryOrder(e, i)'
<1>1. Grown /\ StaySieved
  BY WorkersOnlyAdd
<1>2. \A f \in Devices : /\ copies[f] \in Seq(Entry) /\ copies'[f] \in Seq(Entry)
                         /\ Len(copies[f]) \in Nat /\ Len(copies'[f]) \in Nat
  <2>1. \A f \in Devices : copies[f] \in Seq(Entry) /\ copies'[f] \in Seq(Entry)
    BY DEF TypeOK, DeviceType
  <2>2. QED BY <2>1
<1>3. CASE i \in 1 .. Len(copies[e])
  <2>1. copies'[e][i] = copies[e][i] /\ i \in Nat /\ i <= Len(copies[e])
    BY <1>1, <1>2, <1>3 DEF Grown, Prolongs
  <2>2. EntryOrder(e, i)
    BY <1>3 DEF OrderInv, EntryOrder
  <2>3. IsCopy(e, i)' => IsCopy(e, i) /\ copies[e][i].slab \in Slabs
    <3>1. copies[e][i] \in Entry
      BY <1>3, StreamTypes DEF TypeOK
    <3>2. QED BY <1>3, <2>1, <3>1 DEF IsCopy, Entry
  <2>4. CASE Gated(e, copies[e][i].slab, i)
    <3>1. Gated(e, copies[e][i].slab, i)'
      BY <1>1, <2>1, <2>4, StayGated
    <3>2. QED BY <2>1, <3>1 DEF EntryOrder
  <2>5. CASE region[copies[e][i].slab] = "sieved"
    BY <1>1, <2>1, <2>3, <2>5 DEF EntryOrder, StaySieved
  <2>6. CASE ~IsCopy(e, i)
    BY <2>3, <2>6 DEF EntryOrder
  <2>7. QED BY <2>2, <2>4, <2>5, <2>6 DEF EntryOrder
<1>4. CASE i \notin 1 .. Len(copies[e])
  <2>1. copies'[e] # copies[e]
    BY <1>4
  <2>2. WaitEvent(d) \/ EnqueueCopy(d) \/ Relay(d)
    BY <2>1 DEF Worker, TakeSlot, ClaimSlab, Compute, Record, FallbackCopy, Stage,
                Direct, Land, Push, RelaySync, streamVars
  <2>3. cur[d] \in Slabs /\ UNCHANGED <<cur, kernels, region>>
    BY <2>2 DEF CurType, WaitEvent, EnqueueCopy, Relay
  <2>4. CASE WaitEvent(d)
    <3>1. copies' = [copies EXCEPT ![d] = Append(@, WaitEntry(mark[d]))]
      BY <2>1, <2>4 DEF WaitEvent
    <3>2. WaitEntry(mark[d]) \in Entry /\ WaitEntry(mark[d]).slab = NoSlab
      BY DEF WaitEntry, Entry, TypeOK, DeviceType
    <3>3. copies'[e][i].slab = NoSlab
      BY <1>2, <1>4, <3>1, <3>2, Enqueued DEF TypeOK
    <3>4. QED BY <3>3 DEF EntryOrder, IsCopy
  <2>5. CASE EnqueueCopy(d)
    <3>1. copies' = [copies EXCEPT ![d] = Append(@, CopyEntry(cur[d], ImplicitGate(d)))]
      BY <2>1, <2>5 DEF EnqueueCopy
    <3>2. /\ CopyEntry(cur[d], ImplicitGate(d)) \in Entry
          /\ CopyEntry(cur[d], ImplicitGate(d)).slab = cur[d]
      BY <2>3, StreamTypes DEF CopyEntry, Entry, ImplicitGate, TypeOK
    <3>3. e = d /\ i = Len(copies[d]) + 1 /\ copies'[e][i].slab = cur[d]
      BY <1>2, <1>4, <3>1, <3>2, Enqueued DEF TypeOK
    <3>4. Gated(d, cur[d], Len(copies[d]))
      BY <2>5 DEF OrderInv, EnqueueCopy
    <3>5. Gated(d, cur[d], i)'
      BY <1>1, <1>2, <2>3, <3>3, <3>4, StayGated
    <3>6. QED BY <2>3, <3>3, <3>5 DEF EntryOrder, Gated
  <2>6. CASE Relay(d)
    <3>1. copies' = [copies EXCEPT ![Owner(d)] = Append(@, CopyEntry(cur[d], 0))]
      BY <2>1, <2>6 DEF Relay
    <3>2. Owner(d) \in Devices /\ region[cur[d]] = "sieved"
      BY <2>6 DEF RouteInv, ScratchInv, Relay, Owner
    <3>3. CopyEntry(cur[d], 0) \in Entry /\ CopyEntry(cur[d], 0).slab = cur[d]
      BY <2>3 DEF CopyEntry, Entry
    <3>4. copies'[e][i].slab = cur[d]
      BY <1>2, <1>4, <3>1, <3>2, <3>3, Enqueued DEF TypeOK
    <3>5. QED BY <2>3, <3>2, <3>4 DEF EntryOrder
  <2>7. QED BY <2>2, <2>4, <2>5, <2>6
<1>5. QED BY <1>3, <1>4

\* What a worker copies into the host map by itself is sieved.
LEMMA HostWorker ==
  ASSUME TypeOK, CurType, StreamInv, RouteInv, ScratchInv, OrderInv, NEW d \in Devices, Worker(d)
  PROVE  NoCopyBeforeSieve'
<1>1. CASE UNCHANGED hostMap
  BY <1>1 DEF OrderInv, NoCopyBeforeSieve
<1>2. CASE hostMap' = [hostMap EXCEPT ![cur[d]] = "final"]
  BY <1>2 DEF OrderInv, NoCopyBeforeSieve, TypeOK, DeviceType
<1>3. CASE FallbackCopy(d)
  <2>1. CASE ~UNCHANGED hostMap
    <3>1. Drained(d) /\ hostMap' = [hostMap EXCEPT ![cur[d]] = Image(cur[d])]
      BY <1>3, <2>1 DEF FallbackCopy, SyncCopy
    <3>2. Launched(d, cur[d])
      BY <1>3 DEF FallbackCopy, OrderInv
    <3>3. region[cur[d]] = "sieved"
      BY <3>1, <3>2, DrainedIsSieved DEF Drained
    <3>4. QED BY <1>2, <3>1, <3>3 DEF Image
  <2>2. QED BY <1>1, <2>1
<1>4. CASE RelaySync(d)
  BY <1>1, <1>2, <1>4 DEF RelaySync, SyncCopy, ScratchInv, Image
<1>5. CASE Direct(d)
  BY <1>1, <1>2, <1>5 DEF Direct, ScratchInv
<1>6. QED
  BY <1>1, <1>3, <1>4, <1>5 DEF Worker, TakeSlot, ClaimSlab, Compute, Record, WaitEvent,
     EnqueueCopy, Stage, Land, Push, Relay

\* So OrderInv is kept by a worker.
LEMMA OrderWorker ==
  ASSUME RecordsSucceed, TypeOK, TypeOK', CurType, PullInv, StreamInv, RouteInv,
         ScratchInv, OrderInv, NEW d \in Devices, Worker(d)
  PROVE  OrderInv'
<1>1. \A e \in Devices : HandOrder(e)'
  BY HandWorker
<1>2. \A e \in Devices : \A i \in 1 .. Len(copies'[e]) : EntryOrder(e, i)'
  BY EntryWorker
<1>3. NoCopyBeforeSieve'
  BY HostWorker
<1>4. QED BY <1>1, <1>2, <1>3 DEF OrderInv, HandOrder, EntryOrder

-----------------------------------------------------------------------------
(* What is still to run *)

\* The kernels of a device stay covered while nothing is launched on it.
LEMMA StayCovered ==
  ASSUME TypeOK, TypeOK', NEW e \in Devices, kernels'[e] = kernels[e],
         kdone'[e] = kdone[e], Prolongs(copies'[e], copies[e]), Covered(e)
  PROVE  Covered(e)'
<1>1. copies[e] \in Seq(Entry) /\ copies'[e] \in Seq(Entry)
  BY DEF TypeOK, DeviceType
<1>2. CASE \E j \in 1 .. Len(copies[e]) : copies[e][j].after >= Len(kernels[e])
  <2>1. PICK j \in 1 .. Len(copies[e]) : copies[e][j].after >= Len(kernels[e])
    BY <1>2
  <2>2. j \in 1 .. Len(copies'[e]) /\ copies'[e][j] = copies[e][j]
    BY <1>1 DEF Prolongs
  <2>3. QED BY <2>1, <2>2 DEF Covered
<1>3. QED BY <1>2 DEF Covered

LEMMA CoverMain ==
  ASSUME TypeOK, PullInv, CoverInv, Main
  PROVE  CoverInv'
<1>1. UNCHANGED <<kernels, kdone, copies>> /\ (failed => failed')
  BY StreamsLeftAlone DEF streamVars
<1>2. \A d \in Devices : pc[d] \notin {"record", "wait", "fallback"}
  BY MainWaits
<1>3. QED BY <1>1, <1>2 DEF CoverInv, Covered

LEMMA CoverStreams ==
  ASSUME TypeOK, CoverInv, NEW d \in Devices, Streams(d)
  PROVE  CoverInv'
<1>1. UNCHANGED <<kernels, copies, failed, pc>>
  BY StreamsEnqueueNothing
<1>2. \A e \in Devices : kdone[e] = Len(kernels[e]) => kdone'[e] = kdone[e]
  BY StreamTypes DEF Streams, KernelDone, CopyStep, TypeOK, DeviceType
<1>3. QED BY <1>1, <1>2 DEF CoverInv, Covered

\* A worker goes on from a launch only when its copy stream waits for it, or when
\* it has waited itself.
LEMMA CoverWorker ==
  ASSUME TypeOK, TypeOK', CurType, PullInv, RouteInv, OrderInv, CoverInv,
         NEW d \in Devices, Worker(d)
  PROVE  CoverInv'
<1> DEFINE Open == {"record", "wait", "fallback"}
<1>1. UNCHANGED <<kdone, cdone>> /\ Grown /\ (failed => failed')
  BY WorkersOnlyAdd, SlabMoved, TicketDrawn, SlabClaimed DEF Worker, SlabStep
<1>2. \A e \in Devices \ {d} : pc'[e] = pc[e]
  BY SlabMoved, TicketDrawn, SlabClaimed DEF Worker, SlabStep
<1>3. SUFFICES ASSUME ~failed' PROVE \A e \in Devices : Covered(e)' \/ pc'[e] \in Open
  BY DEF CoverInv
<1>4. \A e \in Devices : Covered(e) \/ pc[e] \in Open
  BY <1>1, <1>3 DEF CoverInv
<1>5. ASSUME NEW e \in Devices, e # d PROVE Covered(e)' \/ pc'[e] \in Open
  <2>1. kernels'[e] = kernels[e]
    BY <1>5, KernelsOfOwner
  <2>2. Covered(e) => Covered(e)'
    BY <1>1, <2>1, StayCovered DEF Grown
  <2>3. QED BY <1>2, <1>4, <1>5, <2>2
<1>6. Covered(d)' \/ pc'[d] \in Open
  <2>1. ~Fail(d)
    BY <1>3 DEF Fail
  <2>2. CASE Compute(d) \/ Record(d)
    BY <2>1, <2>2 DEF Compute, Record, Goto, TypeOK, PullType
  <2>3. CASE WaitEvent(d) /\ pc'[d] # "fallback"
    <3>1. /\ pc[d] = "wait" /\ "evEndA" \in held[d]
          /\ copies' = [copies EXCEPT ![d] = Append(@, WaitEntry(mark[d]))]
          /\ UNCHANGED kernels
      BY <2>3 DEF WaitEvent, Goto, TypeOK, PullType
    <3>2. mark[d] = Len(kernels[d]) /\ mark[d] \in Nat
      BY <3>1 DEF OrderInv, TypeOK, DeviceType
    <3>3. WaitEntry(mark[d]) \in Entry /\ WaitEntry(mark[d]).after = mark[d]
      BY <3>2 DEF WaitEntry, Entry
    <3>4. /\ Len(copies[d]) \in Nat /\ Len(copies'[d]) = Len(copies[d]) + 1
          /\ copies'[d][Len(copies[d]) + 1].after = mark[d]
      BY <3>1, <3>3, Enqueued DEF TypeOK
    <3>5. QED BY <3>1, <3>2, <3>4 DEF Covered
  <2>4. CASE FallbackCopy(d)
    <3>1. Drained(d) /\ UNCHANGED kernels
      BY <2>1, <2>4 DEF FallbackCopy, SyncCopy, streamVars
    <3>2. QED BY <1>1, <3>1 DEF Drained, Covered
  <2>5. CASE pc[d] \notin Open /\ ~Compute(d)
    <3>1. UNCHANGED kernels
      BY <2>5 DEF Worker, TakeSlot, ClaimSlab, Record, WaitEvent, EnqueueCopy, FallbackCopy,
                  Stage, Direct, Land, Push, Relay, RelaySync, streamVars
    <3>2. Covered(d) /\ Prolongs(copies'[d], copies[d])
      BY <1>1, <1>4, <2>5 DEF Grown
    <3>3. QED BY <1>1, <3>1, <3>2, StayCovered
  <2>6. CASE pc'[d] = "fallback"
    BY <2>6
  <2>7. pc[d] \in Open => Record(d) \/ WaitEvent(d) \/ FallbackCopy(d)
    BY DEF Worker, TakeSlot, ClaimSlab, Compute, EnqueueCopy, Stage, Direct, Land, Push,
           Relay, RelaySync
  <2>8. QED BY <2>2, <2>3, <2>4, <2>5, <2>6, <2>7
<1>7. QED BY <1>5, <1>6

\* FenceInv is kept by the workers and the streams, ...
LEMMA FenceOthers ==
  ASSUME TypeOK, PullInv, FenceInv, NEW d \in Devices, Worker(d) \/ Streams(d)
  PROVE  FenceInv'
<1>1. UNCHANGED mainVars
  BY MainLeftAlone
<1>2. CASE Worker(d)
  <2>1. phase = "workers"
    BY <1>2, AtWork, WorkerAtWork
  <2>2. QED BY <1>1, <2>1 DEF FenceInv, mainVars
<1>3. CASE Streams(d)
  <2>1. UNCHANGED <<copies, failed>>
    BY <1>3, StreamsEnqueueNothing
  <2>2. \A e \in Devices : cdone[e] = Len(copies[e]) => cdone'[e] = cdone[e]
    <3>1. CASE KernelDone(d)
      BY <3>1 DEF KernelDone
    <3>2. CASE CopyStep(d)
      BY <3>2, StreamTypes DEF CopyStep, TypeOK, DeviceType
    <3>3. QED BY <1>3, <3>1, <3>2 DEF Streams
  <2>3. QED BY <1>1, <2>1, <2>2 DEF FenceInv, mainVars
<1>4. QED BY <1>2, <1>3

\* ... and established by the main thread.
LEMMA FenceMain ==
  ASSUME StreamsCreated, TypeOK, PullInv, HeldInv, StreamInv, FenceInv, Main
  PROVE  FenceInv'
<1>1. UNCHANGED <<copies, cdone>> /\ (failed => failed')
  BY StreamsLeftAlone DEF streamVars
<1>2. held \in [Devices -> SUBSET Resources] /\ todo \subseteq Devices
  BY DEF TypeOK, MainType
<1>3. ASSUME NEW d \in Devices, SetupDevice(d) \/ SetupFails(d) PROVE FenceInv'
  BY <1>3 DEF SetupDevice, SetupFails, FenceInv
<1>4. ASSUME NEW d \in Devices, CreateStreams(d) PROVE FenceInv'
  <2>1. {"copyStream", "evEndA"} \subseteq held'[d]
    BY <1>2, <1>4 DEF CreateStreams, StreamsCreated
  <2>2. \A e \in Devices \ {d} : held'[e] = held[e]
    BY <1>2, <1>4 DEF CreateStreams
  <2>3. QED BY <1>4, <2>1, <2>2 DEF CreateStreams, FenceInv
<1>5. ASSUME NEW d \in Devices, FenceStep(d) PROVE FenceInv'
  <2>1. Fenced(d)
    BY <1>5 DEF FenceStep, Fence, FenceFails, FenceInv, Fenced
  <2>2. CASE Fence(d)
    BY <1>1, <2>1, <2>2 DEF Fence, FenceInv
  <2>3. CASE FenceFails(d)
    BY <1>1, <2>3 DEF FenceFails, FenceInv, FencesSucceed
  <2>4. QED BY <1>5, <2>2, <2>3 DEF FenceStep
<1>6. CASE Spawn
  BY <1>1, <1>6 DEF Spawn, FenceInv
<1>7. CASE Join
  BY <1>1, <1>7 DEF Join, FenceInv
<1>8. CASE HandOff \/ KeepLocal
  BY <1>1, <1>8 DEF HandOff, KeepLocal, FenceInv
<1>9. CASE Teardown
  <2>1. phase = "abandon" => \A d \in Devices : cdone[d] = Len(copies[d])
    <3>1. SUFFICES ASSUME phase = "abandon", NEW d \in Devices
                   PROVE  cdone[d] = Len(copies[d])
      OBVIOUS
    <3>2. Len(copies[d]) = 0
      BY <3>1 DEF HeldInv
    <3>3. QED BY <3>2 DEF StreamInv, TypeOK, DeviceType
  <2>2. QED BY <1>1, <1>9, <2>1 DEF Teardown, FenceInv
<1>10. CASE Release
  BY <1>1, <1>10 DEF Release, FenceInv
<1>11. QED
  BY <1>3, <1>4, <1>5, <1>6, <1>7, <1>8, <1>9, <1>10 DEF Main, SetupStep

-----------------------------------------------------------------------------
(* The inductive invariant of the copies *)

\* It holds before the first call of the scheduler.
LEMMA InitCopyInv ==
  Init => CopyInv
<1> SUFFICES ASSUME Init PROVE CopyInv
  OBVIOUS
<1>1. \A d \in Devices : Len(kernels[d]) = 0 /\ Len(copies[d]) = 0 /\ ~Working(d)
  BY DEF Init, Working
<1>2. \A s \in Slabs : ~(s < nextSlab)
  BY NumSlabsAssumption DEF Init, Slabs
<1>3. HeldInv
  BY ResidencyAssumption DEF Init, HeldInv
<1>4. StreamInv
  BY <1>1 DEF Init, StreamInv
<1>5. RouteInv /\ ScratchInv
  BY DEF Init, RouteInv, ScratchInv
<1>6. SourceInv
  BY <1>1 DEF Init, SourceInv
<1>7. ArrivalInv /\ HomeInv
  BY <1>2 DEF ArrivalInv, HomeInv
<1>8. OrderInv
  BY <1>1 DEF Init, OrderInv, NoCopyBeforeSieve
<1>9. CoverInv
  BY <1>1 DEF Init, CoverInv, Covered
<1>10. FenceInv
  BY DEF Init, FenceInv
<1>11. QED
  BY <1>3, <1>4, <1>5, <1>6, <1>7, <1>8, <1>9, <1>10 DEF CopyInv

\* And every step keeps it.
LEMMA NextCopyInv ==
  Inv /\ Inv' /\ CopyInv /\ [Next]_vars => CopyInv'
<1> SUFFICES ASSUME Inv, Inv', CopyInv, [Next]_vars PROVE CopyInv'
  OBVIOUS
<1>1. TypeOK /\ TypeOK' /\ CurType /\ PullInv
  BY DEF Inv
<1>2. CASE Main
  BY <1>1, <1>2, HeldMain, StreamMain, RouteMain, ScratchMain, SourceMain, ArrivalMain,
     HomeMain, OrderMain, CoverMain, FenceMain DEF CopyInv
<1>3. ASSUME NEW d \in Devices, Worker(d) PROVE CopyInv'
  BY <1>1, <1>3, HeldOthers, StreamWorker, RouteWorker, ScratchWorker, SourceWorker,
     ArrivalWorker, HomeWorker, OrderWorker, CoverWorker, FenceOthers DEF CopyInv
<1>4. ASSUME NEW d \in Devices, Streams(d) PROVE CopyInv'
  BY <1>1, <1>4, HeldOthers, StreamStreams, RouteStreams, ScratchStreams, SourceStreams,
     ArrivalStreams, HomeStreams, OrderStreams, CoverStreams, FenceOthers DEF CopyInv
<1>5. CASE UNCHANGED vars \/ Idle
  <2>1. /\ UNCHANGED <<mainVars, failed, pc, cur, pullVars, stageVars, streamVars>>
        /\ UNCHANGED <<region, hostMap>>
    BY <1>5 DEF Idle, vars
  <2>2. HeldInv' /\ StreamInv' /\ RouteInv' /\ ScratchInv'
    BY <2>1 DEF CopyInv, HeldInv, StreamInv, RouteInv, ScratchInv, mainVars, pullVars,
                stageVars, streamVars
  <2>3. SourceInv' /\ ArrivalInv'
    BY <2>1 DEF CopyInv, SourceInv, ArrivalInv, SoleHand, SoleEntry, InHand, Working,
                IsCopy, Underway, pullVars, streamVars
  <2>4. HomeInv'
    BY <2>1 DEF CopyInv, HomeInv, InHand, Working, Launched, pullVars, streamVars
  <2>5. OrderInv => OrderInv'
    BY <2>1 DEF OrderInv, NoCopyBeforeSieve, IsCopy, Gated, Launched, mainVars, streamVars
  <2>6. (CoverInv => CoverInv') /\ (FenceInv => FenceInv')
    BY <2>1 DEF CoverInv, Covered, FenceInv, mainVars, streamVars
  <2>7. QED BY <2>2, <2>3, <2>4, <2>5, <2>6 DEF CopyInv
<1>6. QED BY <1>2, <1>3, <1>4, <1>5 DEF Next

\* Whatever fails, and in whatever order threads and streams run, the slabs keep
\* to their way from the claim to the host map.
THEOREM CopyInvariance == Spec => [](Inv /\ CopyInv)
<1>1. Init => Inv /\ CopyInv
  BY InitInv, InitCopyInv
<1>2. Inv /\ CopyInv /\ [Next]_vars => (Inv /\ CopyInv)'
  BY NextInv, NextCopyInv
<1>3. QED BY <1>1, <1>2, PTL DEF Spec

-----------------------------------------------------------------------------
(* The theorems *)

\* Whatever way the call ends, and whatever failed on the way, nothing stays
\* allocated but what is handed off (teardown, releasePullScheduler).
THEOREM NothingIsLeaked == Spec => []NothingLeaks
<1>1. CopyInv => NothingLeaks
  BY DEF CopyInv, HeldInv, NothingLeaks
<1>2. QED BY <1>1, CopyInvariance, PTL

\* Whatever fails, a copy that is still to run is the only producer its slab has
\* (pull_scheduler.cpp:188-191).
THEOREM EveryCopyIsSole == Spec => []SoleProducer
<1>1. Inv /\ CopyInv => SoleProducer
  <2>1. SUFFICES ASSUME Inv, CopyInv, NEW e \in Pending
                 PROVE  /\ hostMap[copies[e[1]][e[2]].slab] = "empty"
                        /\ \A f \in Pending :
                             copies[f[1]][f[2]].slab = copies[e[1]][e[2]].slab => f = e
    BY DEF SoleProducer
  <2>2. ASSUME NEW f \in Pending
        PROVE  /\ f[1] \in Devices /\ f[2] \in 1 .. Len(copies[f[1]])
               /\ f[2] > cdone[f[1]] /\ IsCopy(f[1], f[2])
    <3>1. /\ f[1] \in Devices /\ f[2] \in cdone[f[1]] + 1 .. Len(copies[f[1]])
          /\ copies[f[1]][f[2]].slab # NoSlab
      BY DEF Pending
    <3>2. cdone[f[1]] \in Nat /\ Len(copies[f[1]]) \in Nat
      BY <2>1, <3>1, StreamTypes DEF Inv, TypeOK
    <3>3. QED BY <3>1, <3>2 DEF IsCopy
  <2>3. SoleEntry(e[1], e[2])
    BY <2>1, <2>2 DEF CopyInv, SourceInv
  <2>4. ASSUME NEW f \in Pending, copies[f[1]][f[2]].slab = copies[e[1]][e[2]].slab
        PROVE  f = e
    <3>1. f[1] = e[1] /\ f[2] = e[2]
      BY <2>2, <2>3, <2>4 DEF SoleEntry
    <3>2. QED BY <3>1 DEF Pending
  <2>5. QED BY <2>2, <2>3, <2>4 DEF SoleEntry
<1>2. QED BY <1>1, CopyInvariance, PTL

\* If recording the compute-end event does not fail, no copy puts a slab into the
\* host map before the slab is sieved, whatever else fails
\* (pull_scheduler.cpp:197-203, 225-229).
THEOREM CopiesFollowKernels ==
  ASSUME RecordsSucceed
  PROVE  Spec => []NoCopyBeforeSieve
<1>1. CopyInv => NoCopyBeforeSieve
  BY DEF CopyInv, OrderInv
<1>2. QED BY <1>1, CopyInvariance, PTL

\* What is true of a call that returned a value.
LEMMA Success ==
  ASSUME RecordsSucceed, StreamsCreated, Inv, CopyInv, ret = "ok"
  PROVE  /\ \A d \in Devices : Drained(d)
         /\ \A s \in Slabs : /\ hostMap[s] = "final"
                             /\ OwnerOf[s] \in Devices => region[s] = "sieved"
<1>1. /\ ~failed /\ phase = "returned"
      /\ \A d \in Devices : pc[d] = "exited"
  BY DEF Inv, PullInv, PhaseInv
<1>2. AllPulledOnce
  BY SuccessIsPulled
<1>3. \A s \in Slabs : s < nextSlab
  BY <1>2 DEF AllPulledOnce, Inv, PullInv, CountInv
<1>4. ASSUME NEW d \in Devices PROVE Drained(d)
  <2>1. cdone[d] = Len(copies[d])
    BY <1>1 DEF CopyInv, FenceInv
  <2>2. Covered(d) /\ kdone[d] <= Len(kernels[d])
    BY <1>1 DEF CopyInv, CoverInv, StreamInv
  <2>3. /\ kdone[d] \in Nat /\ Len(kernels[d]) \in Nat
        /\ \A i \in 1 .. Len(copies[d]) : copies[d][i].after \in Nat
    BY StreamTypes DEF Inv, TypeOK, Entry
  <2>4. CASE \E j \in 1 .. Len(copies[d]) : copies[d][j].after >= Len(kernels[d])
    <3>1. PICK j \in 1 .. Len(copies[d]) : copies[d][j].after >= Len(kernels[d])
      BY <2>4
    <3>2. copies[d][j].after <= kdone[d]
      BY <2>1 DEF CopyInv, StreamInv
    <3>3. kdone[d] = Len(kernels[d])
      BY <2>2, <2>3, <3>1, <3>2
    <3>4. QED BY <2>1, <3>3 DEF Drained
  <2>5. QED BY <2>1, <2>2, <2>4 DEF Drained, Covered
<1>5. ASSUME NEW s \in Slabs PROVE hostMap[s] = "final"
  <2>1. hostMap[s] # "empty" \/ Underway(s)
    BY <1>1, <1>3 DEF CopyInv, ArrivalInv, InHand, Working
  <2>2. ~Underway(s)
    BY <1>4, StreamTypes DEF Underway, Drained, Inv, TypeOK
  <2>3. hostMap[s] \in {"empty", "raw", "final"} /\ hostMap[s] # "raw"
    BY DEF CopyInv, OrderInv, NoCopyBeforeSieve, Inv, TypeOK, DeviceType
  <2>4. QED BY <2>1, <2>2, <2>3
<1>6. ASSUME NEW s \in Slabs, OwnerOf[s] \in Devices PROVE region[s] = "sieved"
  <2>1. region[s] = "sieved" \/ Launched(OwnerOf[s], s)
    BY <1>1, <1>3, <1>6 DEF CopyInv, HomeInv, InHand, Working
  <2>2. CASE Launched(OwnerOf[s], s)
    BY <1>4, <1>6, <2>2, DrainedIsSieved DEF Drained, Inv, CopyInv
  <2>3. QED BY <2>1, <2>2
<1>7. QED BY <1>4, <1>5, <1>6

\* If streams and events are created and recording does not fail, a call that
\* returns a value has put the final bytes of every slab into the host map,
\* whatever else failed on the way (pull_scheduler.h:44, 76-79).
THEOREM SuccessComplete ==
  ASSUME RecordsSucceed, StreamsCreated
  PROVE  Spec => []SuccessIsComplete
<1>1. Inv /\ CopyInv => SuccessIsComplete
  BY Success DEF SuccessIsComplete
<1>2. QED BY <1>1, CopyInvariance, PTL

\* And a map that is handed off is final in its owner's memory, with nothing
\* still to run there (pull_scheduler.h:32-37).
THEOREM HandedOffFinal ==
  ASSUME RecordsSucceed, StreamsCreated
  PROVE  Spec => []HandOffIsFinal
<1>1. Inv /\ CopyInv => HandOffIsFinal
  <2>1. SUFFICES ASSUME Inv, CopyInv, valid PROVE HandOffIsFinal
    BY DEF HandOffIsFinal
  <2>2. ret = "ok" /\ ResidencyDev \in Devices
    BY <2>1 DEF CopyInv, HeldInv
  <2>3. QED BY <2>1, <2>2, Success DEF HandOffIsFinal
<1>2. QED BY <1>1, CopyInvariance, PTL

\* If streams and events are created and fencing does not fail, no memory is freed
\* under a copy, on the failure paths too (pull_scheduler.cpp:573-574).
THEOREM NoMemoryFreedUnderCopy ==
  ASSUME StreamsCreated, FencesSucceed
  PROVE  Spec => []NoFreeUnderCopy
<1>1. CopyInv => NoFreeUnderCopy
  BY DEF CopyInv, FenceInv, NoFreeUnderCopy
<1>2. QED BY <1>1, CopyInvariance, PTL

-----------------------------------------------------------------------------
(* What the caller sees of a step *)

\* A step of a worker or of a stream puts at most one slab into the host map,
\* and never one that is there already.
LEMMA OneArrival ==
  ASSUME Inv, CopyInv, NEW d \in Devices, Worker(d) \/ Streams(d)
  PROVE  \/ UNCHANGED hostMap
         \/ \E s \in Slabs : /\ hostMap[s] = "empty"
                             /\ \E v \in {"raw", "final"} :
                                  hostMap' = [hostMap EXCEPT ![s] = v]
<1>1. CASE TakeSlot(d) \/ ClaimSlab(d) \/ KernelDone(d)
  BY <1>1 DEF TakeSlot, ClaimSlab, KernelDone
<1>2. CASE SlabStep(d)
  <2>1. Keeps(d) \/ Passes(d) \/ Gates(d) \/ Arrives(d)
    BY <1>2, WayOfASlab DEF Inv, CopyInv
  <2>2. CASE Arrives(d)
    <3>1. Working(d)
      BY <1>2, SlabMoved DEF Inv
    <3>2. cur[d] \in Slabs /\ hostMap[cur[d]] = "empty"
      BY <3>1 DEF Inv, CurType, CopyInv, SourceInv, SoleHand, Working
    <3>3. QED BY <2>2, <3>2 DEF Arrives
  <2>3. QED BY <2>1, <2>2 DEF Keeps, Passes, Gates
<1>3. CASE CopyStep(d)
  <2> DEFINE s == copies[d][cdone[d] + 1].slab
  <2>1. /\ cdone[d] < Len(copies[d])
        /\ hostMap' = IF s = NoSlab THEN hostMap
                      ELSE [hostMap EXCEPT ![s] = Image(s)]
    BY <1>3 DEF CopyStep
  <2>2. CASE s # NoSlab
    <3>1. cdone[d] + 1 \in 1 .. Len(copies[d]) /\ cdone[d] + 1 > cdone[d]
      BY <2>1, StreamTypes DEF Inv, TypeOK
    <3>2. s \in Slabs /\ IsCopy(d, cdone[d] + 1)
      BY <2>2, <3>1, StreamTypes DEF Inv, TypeOK, Entry, IsCopy
    <3>3. hostMap[s] = "empty"
      BY <3>1, <3>2 DEF CopyInv, SourceInv, SoleEntry
    <3>4. Image(s) \in {"raw", "final"}
      BY DEF Image
    <3>5. QED BY <2>1, <2>2, <3>2, <3>3, <3>4
  <2>3. QED BY <2>1, <2>2
<1>4. QED BY <1>1, <1>2, <1>3 DEF Worker, SlabStep, Streams

\* Nothing runs any more when the call has returned.
LEMMA Quiet ==
  ASSUME RecordsSucceed, StreamsCreated, Inv, CopyInv, [Next]_vars, phase = "returned"
  PROVE  UNCHANGED <<hostMap, region>>
<1>1. ASSUME NEW d \in Devices PROVE ~Worker(d)
  BY WorkerAtWork, AtWork DEF Inv
<1>2. ASSUME NEW d \in Devices PROVE ~Streams(d)
  <2>1. CASE valid
    <3>1. Drained(d)
      BY <2>1, Success DEF CopyInv, HeldInv
    <3>2. QED BY <3>1, StreamTypes DEF Drained, Streams, KernelDone, CopyStep, Inv, TypeOK
  <2>2. CASE ~valid
    <3>1. held[d] = {}
      BY <2>2 DEF CopyInv, HeldInv
    <3>2. QED BY <3>1 DEF Streams, KernelDone, CopyStep
  <2>3. QED BY <2>1, <2>2
<1>3. CASE Main
  BY <1>3, StreamsLeftAlone
<1>4. QED BY <1>1, <1>2, <1>3 DEF Next, Idle, vars

\* Once the call has returned, nothing changes the host map or the resident slabs
\* behind the caller's back (pull_scheduler.h:76-79).
THEOREM ReturnedIsQuiet ==
  ASSUME RecordsSucceed, StreamsCreated
  PROVE  Spec => QuietAfterReturn
<1>1. Inv /\ CopyInv /\ [Next]_vars =>
        [phase = "returned" => UNCHANGED <<hostMap, region>>]_vars
  BY Quiet
<1>2. QED BY <1>1, CopyInvariance, PTL DEF Spec, QuietAfterReturn

\* If streams and events are created and recording does not fail, the scheduler
\* implements the safety part of the promise of SlabSieve: slabs become final one
\* by one, success is reported only when all are, and nothing is written after
\* the call has returned (pull_scheduler.h:57-96).
THEOREM KeepsItsPromise ==
  ASSUME RecordsSucceed, StreamsCreated
  PROVE  Spec => Promise!Spec
<1> DEFINE Done == {s \in Slabs : hostMap[s] = "final"}
           Outcome == IF ret = "none" THEN "running" ELSE ret
<1>1. Init => Promise!Init
  BY DEF Init, Promise!Init
<1>2. ASSUME Inv, CopyInv, CopyInv', SuccessIsComplete', [Next]_vars
      PROVE  [Promise!Next]_(Promise!vars)
  <2>1. CASE UNCHANGED <<hostMap, ret>>
    BY <2>1 DEF Promise!vars
  <2>2. ASSUME NEW d \in Devices, Worker(d) \/ Streams(d), ~UNCHANGED <<hostMap, ret>>
        PROVE  Promise!Next
    <3>1. UNCHANGED ret
      BY <2>2, MainLeftAlone DEF mainVars
    <3>2. PICK s \in Slabs : /\ hostMap[s] = "empty"
                             /\ \E v \in {"raw", "final"} :
                                  hostMap' = [hostMap EXCEPT ![s] = v]
      BY <1>2, <2>2, <3>1, OneArrival
    <3>3. hostMap'[s] = "final" /\ \A r \in Slabs \ {s} : hostMap'[r] = hostMap[r]
      <4>1. hostMap'[s] # "raw"
        BY <1>2 DEF CopyInv, OrderInv, NoCopyBeforeSieve
      <4>2. QED BY <1>2, <3>2, <4>1 DEF Inv, TypeOK, DeviceType
    <3>4. Done' = Done \union {s} /\ s \notin Done
      BY <3>2, <3>3
    <3>5. ret = "none"
      <4>1. phase # "returned"
        BY <1>2, <2>2, <3>1, Quiet
      <4>2. QED BY <1>2, <4>1 DEF Inv, PullInv, PhaseInv
    <3>6. Promise!Deliver(s)
      BY <3>1, <3>4, <3>5 DEF Promise!Deliver
    <3>7. QED BY <3>6 DEF Promise!Next
  <2>3. CASE Main /\ ~UNCHANGED <<hostMap, ret>>
    <3>1. UNCHANGED hostMap
      BY <2>3, StreamsLeftAlone
    <3>2. HandOff \/ Teardown
      BY <2>3, <3>1 DEF Main, SetupStep, SetupDevice, SetupFails, CreateStreams, FenceStep,
                        Fence, FenceFails, Spawn, Join, KeepLocal, Release
    <3>3. ret = "none" /\ ret' \in {"ok", "error"}
      BY <1>2, <3>2 DEF HandOff, Teardown, Inv, PullInv, PhaseInv, TypeOK, MainType
    <3>4. CASE ret' = "ok"
      <4>1. \A s \in Slabs : hostMap'[s] = "final"
        BY <1>2, <3>1, <3>4 DEF SuccessIsComplete
      <4>2. Promise!Succeed
        BY <3>1, <3>3, <3>4, <4>1 DEF Promise!Succeed
      <4>3. QED BY <4>2 DEF Promise!Next
    <3>5. CASE ret' = "error"
      <4>1. Promise!GiveUp
        BY <3>1, <3>3, <3>5 DEF Promise!GiveUp
      <4>2. QED BY <4>1 DEF Promise!Next
    <3>6. QED BY <3>3, <3>4, <3>5
  <2>4. QED
    BY <1>2, <2>1, <2>2, <2>3 DEF Next, Idle, vars, mainVars
<1>3. QED
  BY <1>1, <1>2, CopyInvariance, SuccessComplete, PTL DEF Spec, Promise!Spec
=============================================================================
