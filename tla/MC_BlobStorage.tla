---------------------------- MODULE MC_BlobStorage ----------------------------
(* Three operations: a store, a delete and a reader meet at every pair of     *)
(* calls, or two stores of one blob race while a third operation resolves it. *)
EXTENDS BlobStorage, TLC
Symmetry == Permutations(Procs)
=============================================================================
