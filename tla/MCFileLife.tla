----------------------------- MODULE MCFileLife -----------------------------
(* FileLife for TLC.  The configurations differ in the number of threads:   *)
(* one (the use filesys.cc is written for) or two (what the locks and the   *)
(* usage counts still guarantee).                                           *)
EXTENDS FileLife, TLC

(* Names differ in nothing but the order in which they are used.            *)
Names == Permutations(Name)

(* So do threads.                                                           *)
NamesAndThreads == Names \cup Permutations(Thread)
=============================================================================
