---------------------------- MODULE MCHardForget ----------------------------
EXTENDS HardForget

CONSTANTS d1, v1, q1, h1

OneLineage == [v \in Versions |-> d1]

(* The relational store alone goes back, the files alone, everything. *)
SomeLosses == {{"spine"}, {"objects", "snapshots"}, {"spine", "objects", "snapshots"}}
=============================================================================
