----------------------------- MODULE MCOracles -----------------------------
(***************************************************************************)
(* Instances of Oracles for TLC.  A map of 1376 values in slabs of two      *)
(* blocks: a full one, the last one with a partial word at its end and a    *)
(* block of nothing, and one shorter than a word as a map of its own has.   *)
(***************************************************************************)
EXTENDS Oracles

SlabsOfMap == {[lo |-> 0, hi |-> 960], [lo |-> 960, hi |-> 1376],
               [lo |-> 0, hi |-> 80]}

\* The slab of a map of one byte.
OneByteSlab == {[lo |-> 0, hi |-> 16]}
=============================================================================
