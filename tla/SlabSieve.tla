----------------------------- MODULE SlabSieve -----------------------------
(***************************************************************************)
(* What runPullScheduler promises its caller (pull_scheduler.h:44, 64-68,   *)
(* 76-79, 100-102): the slabs of the map become final on the host one by    *)
(* one, in any order; the call returns a non-zero value only when every     *)
(* slab is final; it may give up with 0 at any moment; and nothing is       *)
(* written to the host map after it has returned.                           *)
(***************************************************************************)
EXTENDS Naturals

CONSTANT Slabs      \* the slabs of the map

VARIABLES
  done,             \* slabs whose final bytes are in the host map
  outcome           \* "running", then "ok" (value > 0) or "error" (value 0)

TypeOK ==
  /\ done \subseteq Slabs
  /\ outcome \in {"running", "ok", "error"}

Init ==
  /\ done = {}
  /\ outcome = "running"

Deliver(s) ==
  /\ outcome = "running"
  /\ s \notin done
  /\ done' = done \union {s}
  /\ UNCHANGED outcome

Succeed ==
  /\ outcome = "running"
  /\ done = Slabs
  /\ outcome' = "ok"
  /\ UNCHANGED done

GiveUp ==
  /\ outcome = "running"
  /\ outcome' = "error"
  /\ UNCHANGED done

Next == (\E s \in Slabs : Deliver(s)) \/ Succeed \/ GiveUp

vars == <<done, outcome>>

Spec == Init /\ [][Next]_vars

\* The call returns.
FairSpec == Spec /\ WF_vars(Next)
=============================================================================
