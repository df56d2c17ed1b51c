---------------------------- MODULE MCSnapshots ----------------------------
(* Small instances of Snapshots. *)
EXTENDS Snapshots, TLC

CONSTANTS v1, c1, c2, s1

Symmetry == Permutations(Copies) \cup Permutations(Snaps)
============================================================================
