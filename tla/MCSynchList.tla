---------------------------- MODULE MCSynchList ----------------------------
(* SynchList for TLC: four threads, each of which may append and remove, so *)
(* that two can wait while a third appends and the fourth gets in between.  *)
EXTENDS SynchList
=============================================================================
