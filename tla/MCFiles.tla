------------------------------- MODULE MCFiles -------------------------------
(* Files for TLC: see the configuration.                                     *)
EXTENDS Files
CONSTANTS a, b
=============================================================================
