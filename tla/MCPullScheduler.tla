-------------------------- MODULE MCPullScheduler --------------------------
(***************************************************************************)
(* Instances of PullScheduler for TLC.  Two devices d1, d2; the caps, the   *)
(* homes and the residency device are chosen so that home, foreign and      *)
(* homeless pulls all happen and compete.                                   *)
(***************************************************************************)
EXTENDS PullSchedulerInv, TLC

CONSTANTS d1, d2

\* Three slabs: one home on each device, the last one homeless; d1 may pull
\* two of them, d2 one.
Cap21 == (d1 :> 2) @@ (d2 :> 1)
OwnerMixed3 == (0 :> d1) @@ (1 :> d2) @@ (2 :> Homeless)

\* Four slabs: two home on d1, one on d2, the last one homeless; two pulls
\* each, so any slab may be pulled by either device.
Cap22 == (d1 :> 2) @@ (d2 :> 2)
OwnerMixed4 == (0 :> d1) @@ (1 :> d1) @@ (2 :> d2) @@ (3 :> Homeless)
=============================================================================
