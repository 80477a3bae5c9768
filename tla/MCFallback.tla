----------------------------- MODULE MCFallback -----------------------------
(***************************************************************************)
(* Instances of Fallback for TLC: a leg of four odd sums on a grid of a     *)
(* leader and two more threads, with two threads on the CPU to take over,   *)
(* and legs of many lengths for one to four threads on the CPU alone.  The  *)
(* run checks liveness, so the threads are not declared symmetric.          *)
(***************************************************************************)
EXTENDS Fallback

CONSTANTS t0, t1, t2

Ranges == {[start |-> a, limit |-> b, threads |-> n] :
             a \in 5 .. 6, b \in 7 .. 21, n \in 1 .. 4}

\* Every thread has at least one sum for each of its two chunks, or there is
\* no split at all.  Chunks narrower than a sum overlap, which the code does
\* not prevent: its frontPrev and backPrev are never read.
SharedOut == {i \in Ranges : i.limit - i.start + 1 >= 2 * i.threads}

\* The others of them: at least one chunk is narrower than a sum.
Narrow == Ranges \ SharedOut

\* All odd numbers but two have an answer.
Sparse == (0 .. 30) \ {7, 13}
=============================================================================
