------------------------------ MODULE MCClock ------------------------------
(* The instance of Clock for TLC.                                          *)
EXTENDS Clock
=============================================================================
