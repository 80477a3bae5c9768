---------------------------- MODULE MCExpansion ----------------------------
(***************************************************************************)
(* Instances of Expansion for TLC: slabs of four groups, tiles of two.  The *)
(* last slab is a group and a partial one, widened in place; in the         *)
(* fallback every slab is.                                                  *)
(***************************************************************************)
EXTENDS Expansion, SequencesExt

CONSTANTS t1, t2

\* The items, slab after slab and tile after tile, as the planning loop pushes
\* them (source/pull_scheduler.cpp:894-923).
Pushed(s) ==
  IF Sources(s) <= TileBytes THEN <<Whole(s)>>
  ELSE [t \in 1 .. CeilDiv(Sources(s), TileBytes) |-> Tile(s, t - 1)]
ASSUME ItemsArePushed == Items = FlattenSeq([s \in 1 .. NumSlabs |-> Pushed(s - 1)])
=============================================================================
