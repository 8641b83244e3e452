-------------------------- MODULE MC_PersistentSet --------------------------
(* Three editors of two entries: two saves can overlap while a third edit    *)
(* changes the registry between their snapshots.                             *)
EXTENDS PersistentSet
=============================================================================
