----------------------------- MODULE MC_Breaker -----------------------------
(* A cooldown shorter than the longest call, so that results from before an  *)
(* opening arrive during and after it, and one longer, so that such a result *)
(* can come back at the last moment at which it still prolongs the outage.   *)
EXTENDS Breaker
=============================================================================
