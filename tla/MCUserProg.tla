------------------------------ MODULE MCUserProg ------------------------------
(* UserProg for TLC: two programs whose first page comes from the executable *)
(* and whose last does not, with fewer frames than pages, and a pid that is  *)
(* used again.                                                               *)
EXTENDS UserProg

MCImage == [p \in Program |-> [v \in Page |-> IF v = 0 THEN 1 ELSE Zero]]

(* With more pids than the instance has: NextPid finds the pid that counting *)
(* up, one call after the other, comes to first.                             *)
ASSUME NextFreeCountsUp ==
  \A n \in 1 .. 4 : \A from \in 0 .. n, free \in SUBSET (0 .. n - 1) \ {{}} :
    \E k \in 0 .. n - 1 :
      /\ NextFree(from, free, n) = (from + k) % n
      /\ NextFree(from, free, n) \in free
      /\ \A j \in 0 .. k - 1 : (from + j) % n \notin free
=============================================================================
