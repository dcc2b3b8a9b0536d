------------------------- MODULE MCConventionsStore -------------------------
(* Constants of the TLC runs of ConventionsStore.                          *)
EXTENDS ConventionsStore, TLC

Symmetry == Permutations(Inodes)
=============================================================================
