------------------------------ MODULE Fallback ------------------------------
(***************************************************************************)
(* The search phase of runLeg (source/main.cpp:600-1002): a leg is searched *)
(* on the GPU when it may be and on the CPU otherwise, and the CPU takes    *)
(* over, for the whole leg, when the GPU declines.  The two searches are    *)
(* the modules GpuSearch and CpuSearch; what they print is the output of    *)
(* the leg.                                                                 *)
(***************************************************************************)
EXTENDS Integers, Sequences, FiniteSets

CONSTANTS
  First,        \* the first sum of the leg the GPU is tried on, an odd number
  NumOddSums,   \* its odd sums
  Inputs,       \* the calls of RunIt for legs that are not tried on the GPU
  Helpers,      \* the CPU threads of a leg that is
  Answered,     \* the sums that have an answer
  GridThreads, Leader, Wrap, Marker, MaxLaunches, Faults

ASSUME LegAssumption ==
  First \in Nat /\ First % 2 = 1 /\ NumOddSums \in Nat \ {0} /\ Helpers \in Nat \ {0}
ASSUME InputsAssumption ==
  \A i \in Inputs : /\ i.start \in Nat /\ i.limit \in Nat /\ i.start <= i.limit
                    /\ i.threads \in Nat \ {0}
ASSUME AnsweredAssumption == Answered \subseteq Nat
ASSUME GridAssumption == IsFiniteSet(GridThreads) /\ Leader \in GridThreads
\* Every thread of the grid draws one index past the last sum before it leaves.
ASSUME CountersAssumption ==
  /\ Marker \in Nat /\ MaxLaunches \in Nat \ {0}
  /\ Wrap \in Nat /\ Wrap >= NumOddSums + Cardinality(GridThreads)
ASSUME FaultsAssumption == Faults \subseteq {"reset", "launch", "sync"}

VARIABLES
  stage,        \* "gpu", then "cpu" if the GPU declines or is not tried
  \* GpuSearch
  gpuPhase, left, work, pc, index, drawn, count, record, hRecord, slot, gpuOut,
  \* CpuSearch
  input, cpuPhase, spawned, chunk, sum, buffer, cpuOut

gpuVars == <<gpuPhase, left, work, pc, index, drawn, count, record, hRecord,
             slot, gpuOut>>
cpuVars == <<input, cpuPhase, spawned, chunk, sum, buffer, cpuOut>>
vars == <<stage, gpuVars, cpuVars>>

Last == First + 2 * (NumOddSums - 1)
Leg == [start |-> First, limit |-> Last, threads |-> Helpers]

Gpu == INSTANCE GpuSearch WITH
         Solved <- {i \in 0 .. NumOddSums - 1 : First + 2 * i \in Answered},
         Threads <- GridThreads, phase <- gpuPhase, out <- gpuOut
Cpu == INSTANCE CpuSearch WITH
         Inputs <- Inputs \union {Leg}, phase <- cpuPhase, out <- cpuOut

Nobody == [t \in GridThreads |-> "off"]
NoIndex == [t \in GridThreads |-> 0]
Undrawn == [i \in 0 .. NumOddSums - 1 |-> {}]
NoRecords == [i \in 0 .. NumOddSums - 1 |-> FALSE]

\* A leg that is not tried on the GPU has nothing on it.
Init ==
  /\ Cpu!Init
  /\ \/ stage = "gpu" /\ input = Leg /\ Gpu!Init
     \/ /\ stage = "cpu"
        /\ gpuPhase = "declined" /\ left = 0 /\ work = 0 /\ count = 0
        /\ pc = Nobody /\ index = NoIndex /\ drawn = Undrawn
        /\ record = NoRecords /\ hRecord = NoRecords /\ slot = 0 /\ gpuOut = << >>

\* The CPU takes over: the device's buffers have been freed.
TakeOver ==
  /\ stage = "gpu" /\ gpuPhase = "declined"
  /\ stage' = "cpu"
  /\ left' = 0 /\ work' = 0 /\ count' = 0
  /\ pc' = Nobody /\ index' = NoIndex /\ drawn' = Undrawn
  /\ record' = NoRecords /\ hRecord' = NoRecords /\ slot' = 0 /\ gpuOut' = << >>
  /\ UNCHANGED <<gpuPhase, cpuVars>>

GpuStep == stage = "gpu" /\ gpuPhase # "declined" /\ UNCHANGED <<stage, cpuVars>>
CpuStep == stage = "cpu" /\ UNCHANGED <<stage, gpuVars>>

Next ==
  \/ GpuStep /\ Gpu!Next
  \/ TakeOver
  \/ CpuStep /\ Cpu!Next

Spec == Init /\ [][Next]_vars

\* The host runs, in both searches and from one to the other; the grid makes
\* progress: a thread that waits for the scheduler of the device is served while
\* there is one that can run; and so do the threads of the CPU.
FairSpec ==
  /\ Spec
  /\ WF_vars(GpuStep /\ Gpu!Host)
  /\ WF_vars(GpuStep /\ \E t \in GridThreads : Gpu!Thread(t))
  /\ WF_vars(TakeOver)
  /\ WF_vars(CpuStep /\ Cpu!Main)
  /\ WF_vars(CpuStep /\ \E t \in Cpu!Threads : Cpu!Worker(t))

-----------------------------------------------------------------------------
(* Properties *)

TypeOK == stage \in {"gpu", "cpu"} /\ Gpu!TypeOK /\ Cpu!TypeOK

\* The chunks cut the range: every sum the search has to try is in exactly one
\* of them (cpu_search.cpp:428-431).
ChunksTile == Cpu!ChunksTile

\* No odd sum is drawn by two threads of the grid, and when the grid has ended
\* none was left out, in the second launch of a process as in the first
\* (gpu_search_kernel.h:442-453).
DrawnOnce == Gpu!DrawnOnce

\* The answer count reads the marker and one for each record written
\* (gpu_search_kernel.h:468-470).
CountMatchesRecords == Gpu!CountMatchesRecords

\* The search phase of a leg prints every answer once and in ascending order,
\* and ends, whatever fails on the GPU and wherever: a search that declines has
\* printed nothing, so the other one starts from the beginning and the phase as
\* a whole never declines (main.cpp:972-1002).  Of the launches of a process
\* the last is the one that is looked at.
Printed ==
  IF stage = "cpu" THEN cpuOut
  ELSE IF left > 0 THEN << >>
  ELSE [i \in DOMAIN gpuOut |-> First + 2 * gpuOut[i]]
Search == INSTANCE OrderedSearch WITH
            solved <- Cpu!Solved, out <- Printed,
            outcome <- IF \/ stage = "cpu" /\ cpuPhase = "done"
                          \/ stage = "gpu" /\ gpuPhase = "done" /\ left = 0
                       THEN "done" ELSE "running"
ImplementsSearch == Search!FairSpec
=============================================================================
