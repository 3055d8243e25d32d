------------------------------- MODULE MCRing -------------------------------
(***************************************************************************)
(* Two slots, so that the slots wrap around, fill up and spill over within *)
(* a few pushes.  The pushers are interchangeable but nothing is declared  *)
(* symmetric: the run checks liveness.                                     *)
(***************************************************************************)
EXTENDS Ring
=============================================================================
