----------------------------- MODULE MCPostOffice -----------------------------
(* PostOffice for TLC: two threads of one machine, which compete for its     *)
(* sendLock, and one of another; the device loses any packet it likes.       *)
EXTENDS PostOffice
CONSTANTS here, there, s1, s2, s3
MCHome == [s \in Sender |-> IF s = s3 THEN there ELSE here]
=============================================================================
