--------------------------- MODULE OrderedSearch ---------------------------
(***************************************************************************)
(* What a search of one leg promises, on the CPU and on the GPU: it prints  *)
(* the sums it solves, each once and in ascending order, and nothing else.  *)
(* Or it declines before it has printed anything, so that another search    *)
(* can take over.                                                           *)
(***************************************************************************)
EXTENDS Naturals, Sequences, FiniteSets

VARIABLES
  solved,       \* the sums that have an answer
  out,          \* the sums printed so far
  outcome       \* "running", then "done" or "declined"

\* The answers in ascending order.
Answers ==
  [i \in 1 .. Cardinality(solved) |->
     CHOOSE s \in solved : Cardinality({r \in solved : r < s}) = i - 1]

Init ==
  /\ solved \subseteq Nat
  /\ out = << >>
  /\ outcome = "running"

\* One sum, or a buffer of them.
Emit ==
  /\ outcome = "running"
  /\ \E n \in Len(out) + 1 .. Len(Answers) : out' = SubSeq(Answers, 1, n)
  /\ UNCHANGED <<solved, outcome>>

Finish ==
  /\ outcome = "running"
  /\ out = Answers
  /\ outcome' = "done"
  /\ UNCHANGED <<solved, out>>

Decline ==
  /\ outcome = "running"
  /\ out = << >>
  /\ outcome' = "declined"
  /\ UNCHANGED <<solved, out>>

Next == Emit \/ Finish \/ Decline

vars == <<solved, out, outcome>>

Spec == Init /\ [][Next]_vars

FairSpec == Spec /\ WF_vars(Next)
=============================================================================
