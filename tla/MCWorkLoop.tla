----------------------------- MODULE MCWorkLoop -----------------------------
(***************************************************************************)
(* Three triggers, so that one can be between its load and its swap while  *)
(* another wins the swap and a third asks the new loop to continue.        *)
(***************************************************************************)
EXTENDS WorkLoop
=============================================================================
