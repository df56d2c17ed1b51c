--------------------------- MODULE MCTrueNASClient ---------------------------
(* Small instances of TrueNASClient. *)
EXTENDS TrueNASClient, TLC

Symmetry == Permutations(Callers) \cup Permutations(Loops)
=============================================================================
