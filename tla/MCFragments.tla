---------------------------- MODULE MCFragments ----------------------------
(* Fragments for TLC: two groups of three blocks of three fragments, the    *)
(* first block of a group being its control block.                          *)
EXTENDS Fragments
=============================================================================
