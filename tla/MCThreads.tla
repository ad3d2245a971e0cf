----------------------------- MODULE MCThreads -----------------------------
(* Threads for TLC: the main thread and two others, one lock, a device and  *)
(* a semaphore the threads use among themselves.                            *)
EXTENDS Threads

CONSTANTS main, t1, t2, disk, ping, lock

MCThread == {main, t1, t2}
MCInitialValue == [s \in Sem |-> 0]
=============================================================================
