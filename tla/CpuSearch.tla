----------------------------- MODULE CpuSearch -----------------------------
(***************************************************************************)
(* RunIt (source/cpu_search.cpp:389-511): the search of a range of sums on  *)
(* the CPU.  The range is cut into two chunks per thread; thread t takes    *)
(* the t-th chunk from the front and then the t-th from the back, each into *)
(* a buffer of its own, and the main thread prints the buffers after the    *)
(* join.  Whether a sum is solved is abstracted to a set of answers.        *)
(*                                                                          *)
(* A chunk's bounds are computed in doubles from delta = numSum / numChunks *)
(* and truncated.  They are kept here as the exact quotients: a boundary    *)
(* is added .5 and subtracted .5 from the same double, so rounding can move *)
(* it but not open a gap at it.                                             *)
(***************************************************************************)
EXTENDS Integers, Sequences

CONSTANTS
  Inputs,       \* the calls considered: [start, limit, threads]
  Answered      \* the sums that have an answer

VARIABLES
  input,        \* the call: sumStart, sumLimit and the resolved thread count
  phase,        \* the main thread: where RunIt is
  spawned,      \* worker threads started so far
  chunk,        \* chunk[t]: the chunk thread t is working on
  sum,          \* sum[t]: the sum it tries next
  buffer,       \* buffer[c]: the answers found in chunk c
  out           \* the sums printed

vars == <<input, phase, spawned, chunk, sum, buffer, out>>

Smaller(x, y) == IF x <= y THEN x ELSE y
Larger(x, y) == IF x >= y THEN x ELSE y

\* x | 1
Odd(x) == IF x % 2 = 0 THEN x + 1 ELSE x

Threads == 0 .. input.threads - 1
NumChunks == 2 * input.threads
Chunks == 0 .. NumChunks - 1
NumSum == input.limit - input.start + 1

OddSums == {s \in input.start .. input.limit : s % 2 = 1}
Solved == OddSums \intersect Answered

\* Of c * delta + .5 and of (c + 1) * delta - .5, cast to an integer: the cast
\* truncates towards zero.
ChunkStart(c) == input.start + (2 * c * NumSum + NumChunks) \div (2 * NumChunks)
LimitOffset(c) ==
  Larger(2 * (c + 1) * NumSum - NumChunks, 0) \div (2 * NumChunks)
MutChunkLimit(c) == Larger(ChunkStart(c), input.start + LimitOffset(c) + 1)
ChunkLimit(c) ==
  Smaller(input.limit, Larger(ChunkStart(c), input.start + LimitOffset(c)))

\* The chunks of thread t: front, then back.
FrontChunk(t) == t
BackChunk(t) == NumChunks - 1 - t

\* One thread, or too few sums to share out.
Alone == input.threads <= 1 \/ (input.limit - Odd(input.start)) \div 2 + 1 <= 2

TypeOK ==
  /\ input \in Inputs
  /\ phase \in {"start", "alone", "spawn", "front", "back", "return",
                "done"}
  /\ spawned \in 0 .. input.threads
  /\ chunk \in [Threads -> Chunks \union {NumChunks}]
  /\ sum \in [Threads -> Nat]
  /\ \A c \in Chunks : \A i \in DOMAIN buffer[c] : buffer[c][i] \in Solved
  /\ \A i \in DOMAIN out : out[i] \in Solved

Init ==
  /\ input \in Inputs
  /\ phase = "start"
  /\ spawned = 0
  /\ chunk = [t \in Threads |-> FrontChunk(t)]
  /\ sum = [t \in Threads |-> Odd(input.start)]
  /\ buffer = [c \in Chunks |-> << >>]
  /\ out = << >>

\* Nothing to do, the single-threaded fallback, or the two-pointer split.
Begin ==
  /\ phase = "start"
  /\ phase' = IF Odd(input.start) > input.limit THEN "done"
              ELSE IF Alone THEN "alone" ELSE "spawn"
  /\ UNCHANGED <<input, spawned, chunk, sum, buffer, out>>

\* RunItSingle prints as it goes.
SearchAlone ==
  /\ phase = "alone"
  /\ IF sum[0] > input.limit
     THEN phase' = "done" /\ UNCHANGED <<sum, out>>
     ELSE /\ sum' = [sum EXCEPT ![0] = @ + 2]
          /\ out' = IF sum[0] \in Answered THEN Append(out, sum[0]) ELSE out
          /\ UNCHANGED phase
  /\ UNCHANGED <<input, spawned, chunk, buffer>>

Spawn ==
  /\ phase = "spawn" /\ spawned < input.threads
  /\ sum' = [sum EXCEPT ![spawned] = Odd(ChunkStart(FrontChunk(spawned)))]
  /\ spawned' = spawned + 1
  /\ UNCHANGED <<input, phase, chunk, buffer, out>>

Running(t) == t < spawned /\ chunk[t] < NumChunks

\* ProcessRange: try the next sum of the chunk.
Try(t) ==
  /\ Running(t) /\ sum[t] <= ChunkLimit(chunk[t])
  /\ sum' = [sum EXCEPT ![t] = @ + 2]
  /\ buffer' = IF sum[t] \in Answered
               THEN [buffer EXCEPT ![chunk[t]] = Append(@, sum[t])] ELSE buffer
  /\ UNCHANGED <<input, phase, spawned, chunk, out>>

\* The chunk is exhausted: on to the back one, or the thread ends.
NextChunk(t) ==
  /\ Running(t) /\ sum[t] > ChunkLimit(chunk[t])
  /\ IF chunk[t] = FrontChunk(t)
     THEN /\ chunk' = [chunk EXCEPT ![t] = BackChunk(t)]
          /\ sum' = [sum EXCEPT ![t] = Odd(ChunkStart(BackChunk(t)))]
     ELSE chunk' = [chunk EXCEPT ![t] = NumChunks] /\ UNCHANGED sum
  /\ UNCHANGED <<input, phase, spawned, buffer, out>>

MutJoin ==
  /\ phase = "spawn" /\ spawned = input.threads
  /\ phase' = "front"
  /\ spawned' = 0
  /\ UNCHANGED <<input, chunk, sum, buffer, out>>
Join ==
  /\ phase = "spawn" /\ spawned = input.threads
  /\ \A t \in Threads : chunk[t] = NumChunks
  /\ phase' = "front"
  /\ spawned' = 0
  /\ UNCHANGED <<input, chunk, sum, buffer, out>>

\* The front buffers in thread order; `spawned' counts the buffers printed.
PrintFront ==
  /\ phase = "front"
  /\ out' = out \o buffer[FrontChunk(spawned)]
  /\ IF spawned + 1 < input.threads
     THEN spawned' = spawned + 1 /\ UNCHANGED phase
     ELSE UNCHANGED spawned /\ phase' = "back"
  /\ UNCHANGED <<input, chunk, sum, buffer>>

\* The back buffers in reversed thread order.
MutPrintBack ==
  /\ phase = "back"
  /\ out' = out \o buffer[BackChunk(input.threads - 1 - spawned)]
  /\ IF spawned > 0 THEN spawned' = spawned - 1 /\ UNCHANGED phase
                    ELSE UNCHANGED spawned /\ phase' = "return"
  /\ UNCHANGED <<input, chunk, sum, buffer>>
PrintBack ==
  /\ phase = "back"
  /\ out' = out \o buffer[BackChunk(spawned)]
  /\ IF spawned > 0 THEN spawned' = spawned - 1 /\ UNCHANGED phase
                    ELSE UNCHANGED spawned /\ phase' = "return"
  /\ UNCHANGED <<input, chunk, sum, buffer>>

Return ==
  /\ phase = "return"
  /\ phase' = "done"
  /\ UNCHANGED <<input, spawned, chunk, sum, buffer, out>>

Worker(t) == Try(t) \/ NextChunk(t)

Main == Begin \/ SearchAlone \/ Spawn \/ Join \/ PrintFront \/ PrintBack
        \/ Return

Done == phase = "done" /\ UNCHANGED vars

Next == Main \/ (\E t \in Threads : Worker(t)) \/ Done

Spec == Init /\ [][Next]_vars

-----------------------------------------------------------------------------
(* Properties *)

\* The chunks cut the range: every sum the search has to try is in exactly one
\* of them (cpu_search.cpp:428-431).
ChunksTile ==
  \A s \in OddSums : \E c \in Chunks : \A b \in Chunks :
    s \in ChunkStart(b) .. ChunkLimit(b) <=> b = c
=============================================================================
