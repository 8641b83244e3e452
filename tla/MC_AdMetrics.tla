----------------------------- MODULE MC_AdMetrics -----------------------------
(* One ad, one address and both kinds: the two kinds share a window, which    *)
(* either of them may end.                                                    *)
EXTENDS AdMetrics
=============================================================================
