--------------------------- MODULE MC_RelayEvents ---------------------------
(* One coordinate, an author and a stranger, two points in time: enough for *)
(* a version and its successor, deletions dated before, at and after each,  *)
(* and a ban, with two of them under way at once.                           *)
EXTENDS RelayEvents, TLC

CONSTANTS alice, bob

OneMod == {[kind |-> "mod", author |-> alice]}

Symmetry == Permutations(Procs)
=============================================================================
