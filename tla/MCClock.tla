------------------------------- MODULE MCClock -------------------------------
(* Clocks of even and odd periods for TLC. *)
EXTENDS Clock
=============================================================================
