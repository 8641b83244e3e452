-------------------------- MODULE MC_BlobLifecycle --------------------------
(* Two requests and one blob (two where the listing or the index relate      *)
(* them) are the smallest instances in which every pair of handlers meets;   *)
(* the configurations choose the operations and the failures of each run.    *)
EXTENDS BlobLifecycle
=============================================================================
