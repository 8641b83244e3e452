-------------------------- MODULE MC_UploadLimiter --------------------------
(* Three requests, three pubkeys, two slots: two requests of one pubkey can  *)
(* race while a third competes for the slots, and there are more pubkeys     *)
(* than slots.  The other configurations ask for no slot, and for fewer.    *)
EXTENDS UploadLimiter

TwoOrNone == {2, 0, -1}
=============================================================================
