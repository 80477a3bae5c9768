--------------------------- MODULE MCFreudenthal ---------------------------
(***************************************************************************)
(* Instances of Freudenthal for TLC: every odd sum of a small leg.          *)
(***************************************************************************)
EXTENDS Freudenthal

\* What the code and the theorem on the trials take for granted.
ASSUME GoldbachHolds == Goldbach

OddSums == {s \in 5 .. SumLimit : s % 2 = 1}
=============================================================================
