----------------------------- MODULE GpuSearch -----------------------------
(***************************************************************************)
(* The search of one leg on a GPU: GpuSearchLaunch, the persistent          *)
(* work-stealing kernel (source/m4/gpu_search_kernel.{cpp,h}) and the       *)
(* emission of its records (source/m4/gpu_search_emission.cpp), as runLeg   *)
(* calls them.  Every kernel thread takes the index of the next odd sum     *)
(* from one counter in device memory and leaves an answer in the slot of    *)
(* its sum; the host prints the slots in ascending order.                   *)
(*                                                                          *)
(* A sum is its index, (sum - sumStart) / 2, and whether it is solved a     *)
(* constant.  Records and the answer count are zeroed by the caller; the    *)
(* counter is not reset between launches by anyone but the launcher.        *)
(***************************************************************************)
EXTENDS Integers, Sequences, FiniteSets

CONSTANTS
  NumOddSums,   \* odd sums of the leg
  Solved,       \* indices of those that have an answer
  Threads,      \* the threads of the grid
  Leader,       \* thread 0 of block 0
  Wrap,         \* the counter is kept modulo Wrap
  Marker,       \* what the leader adds to the answer count
  MaxLaunches,  \* the most launches one process makes
  Faults        \* runtime calls that may fail: "reset", "launch", "sync"

Indices == 0 .. NumOddSums - 1

VARIABLES
  phase,        \* the host
  left,         \* launches the process has still to make
  work,         \* ffSearchWork_: the next index to hand out
  pc, index,    \* the kernel threads and the index each has drawn
  drawn,        \* drawn[i]: the threads that drew index i in this launch
  count,        \* *pAtomicCount
  record,       \* record[i]: is there an answer in slot i of device memory
  hRecord,      \* the slots copied back to the host
  slot,         \* the next slot to print
  out           \* the indices printed

vars == <<phase, left, work, pc, index, drawn, count, record, hRecord, slot,
          out>>

hostVars == <<hRecord, slot, out>>
threadVars == <<pc, index, drawn>>

TypeOK ==
  /\ phase \in {"zero", "reset", "launch", "running", "copy", "print",
                "done", "declined"}
  /\ left \in 0 .. MaxLaunches
  /\ work \in 0 .. Wrap - 1
  /\ pc \in [Threads -> {"off", "mark", "draw", "judge", "count", "write",
                         "exited"}]
  /\ index \in [Threads -> Indices]
  /\ drawn \in [Indices -> SUBSET Threads]
  /\ count \in 0 .. Marker + NumOddSums
  /\ record \in [Indices -> BOOLEAN]
  /\ hRecord \in [Indices -> BOOLEAN]
  /\ slot \in 0 .. NumOddSums
  /\ out \in Seq(Indices)

\* Device memory holds anything before it is zeroed.
Init ==
  /\ phase = "zero"
  /\ left \in 1 .. MaxLaunches
  /\ work = 0
  /\ pc = [t \in Threads |-> "off"]
  /\ index = [t \in Threads |-> 0]
  /\ drawn = [i \in Indices |-> {}]
  /\ count = Marker
  /\ record \in {[i \in Indices |-> b] : b \in BOOLEAN}
  /\ hRecord = [i \in Indices |-> FALSE]
  /\ slot = 0
  /\ out = << >>

-----------------------------------------------------------------------------
(* The host *)

\* The caller clears the answer count and the records.
Zero ==
  /\ phase = "zero"
  /\ count' = 0
  /\ record' = [i \in Indices |-> FALSE]
  /\ phase' = "reset"
  /\ UNCHANGED <<left, work, threadVars, hostVars>>

Fails(call) ==
  /\ call \in Faults
  /\ phase' = "declined"
  /\ left' = left - 1
  /\ UNCHANGED <<work, threadVars, count, record, hostVars>>

\* hipMemcpyToSymbol of a zero, ordered before the kernel.
MutResetCounter ==
  /\ phase = "reset"
  /\ phase' = "launch"
  /\ UNCHANGED <<left, work, threadVars, count, record, hostVars>>
ResetCounter ==
  /\ phase = "reset"
  /\ \/ /\ work' = 0
        /\ phase' = "launch"
        /\ UNCHANGED <<left, threadVars, count, record, hostVars>>
     \/ Fails("reset")

Launch ==
  /\ phase = "launch"
  /\ \/ /\ pc' = [t \in Threads |-> IF t = Leader THEN "mark" ELSE "draw"]
        /\ drawn' = [i \in Indices |-> {}]
        /\ left' = left - 1
        /\ phase' = "running"
        /\ UNCHANGED <<work, index, count, record, hostVars>>
     \/ Fails("launch")

\* hipDeviceSynchronize returns when the grid has ended, or with the error
\* that ended it.
Sync ==
  /\ phase = "running"
  /\ \/ /\ \A t \in Threads : pc[t] = "exited"
        /\ phase' = "copy"
     \/ "sync" \in Faults /\ phase' = "declined"
  /\ UNCHANGED <<left, work, threadVars, count, record, hostVars>>

CopyBack ==
  /\ phase = "copy"
  /\ hRecord' = record
  /\ slot' = 0
  /\ phase' = "print"
  /\ UNCHANGED <<left, work, threadVars, count, record, out>>

\* GpuSearchEmit: one slot of the ascending scan; unsolved slots are skipped.
PrintSlot ==
  /\ phase = "print"
  /\ IF slot = NumOddSums
     THEN phase' = "done" /\ UNCHANGED <<slot, out>>
     ELSE /\ slot' = slot + 1
          /\ out' = IF hRecord[slot] THEN Append(out, slot) ELSE out
          /\ UNCHANGED phase
  /\ UNCHANGED <<left, work, threadVars, count, record, hRecord>>

\* A process that launches again on the same buffers and the same counter.
Again ==
  /\ phase = "done" /\ left > 0
  /\ phase' = "zero"
  /\ out' = << >>
  /\ pc' = [t \in Threads |-> "off"]
  /\ UNCHANGED <<left, work, index, drawn, count, record, hRecord, slot>>

-----------------------------------------------------------------------------
(* A thread of the kernel *)

Goto(t, step) == pc' = [pc EXCEPT ![t] = step]

Mark(t) ==
  /\ pc[t] = "mark"
  /\ count' = count + Marker
  /\ Goto(t, "draw")
  /\ UNCHANGED <<index, drawn, work, record>>

\* tidx = atomicAdd(&ffSearchWork_, 1); past the last sum the thread is done.
Draw(t) ==
  /\ pc[t] = "draw"
  /\ work' = (work + 1) % Wrap
  /\ IF work >= NumOddSums
     THEN Goto(t, "exited") /\ UNCHANGED <<index, drawn>>
     ELSE /\ index' = [index EXCEPT ![t] = work]
          /\ drawn' = [drawn EXCEPT ![work] = @ \union {t}]
          /\ Goto(t, "judge")
  /\ UNCHANGED <<count, record>>

\* The early skip and the four phases: has the sum exactly one decomposition?
Judge(t) ==
  /\ pc[t] = "judge"
  /\ Goto(t, IF index[t] \in Solved THEN "count" ELSE "draw")
  /\ UNCHANGED <<index, drawn, work, count, record>>

Count(t) ==
  /\ pc[t] = "count"
  /\ count' = count + 1
  /\ Goto(t, "write")
  /\ UNCHANGED <<index, drawn, work, record>>

Write(t) ==
  /\ pc[t] = "write"
  /\ record' = [record EXCEPT ![index[t]] = TRUE]
  /\ Goto(t, "draw")
  /\ UNCHANGED <<index, drawn, work, count>>

Thread(t) ==
  /\ phase = "running"
  /\ Mark(t) \/ Draw(t) \/ Judge(t) \/ Count(t) \/ Write(t)
  /\ UNCHANGED <<phase, left, hostVars>>

Host ==
  \/ Zero \/ ResetCounter \/ Launch \/ Sync \/ CopyBack \/ PrintSlot
  \/ Again

Ended == phase = "declined" \/ (phase = "done" /\ left = 0)

Idle == Ended /\ UNCHANGED vars

Next == Host \/ (\E t \in Threads : Thread(t)) \/ Idle

Spec == Init /\ [][Next]_vars

-----------------------------------------------------------------------------
(* Properties *)

\* No odd sum is drawn by two threads, and when the grid has ended none was
\* left out, in the second launch of a process as in the first
\* (gpu_search_kernel.h:442-453).
DrawnOnce ==
  /\ \A i \in Indices : Cardinality(drawn[i]) <= 1
  /\ phase \in {"copy", "print", "done"} =>
       \A i \in Indices : Cardinality(drawn[i]) = 1

\* The answer count reads the marker and one for each record written
\* (gpu_search_kernel.h:468-470).
CountMatchesRecords ==
  phase \in {"copy", "print", "done"} =>
    count = Marker + Cardinality({i \in Indices : record[i]})
=============================================================================
