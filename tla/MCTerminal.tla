----------------------------- MODULE MCTerminal -----------------------------
(* The instances of Terminal for TLC.                                      *)
EXTENDS Terminal
=============================================================================
