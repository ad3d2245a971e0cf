------------------------------ MODULE MCProcess ------------------------------
(* Process for TLC: the Init Process and as many others as a chain of parent, *)
(* child and grandchild and a clone need.                                     *)
EXTENDS Process
=============================================================================
