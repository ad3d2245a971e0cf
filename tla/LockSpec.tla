------------------------------ MODULE LockSpec ------------------------------
(***************************************************************************)
(* What a Nachos Lock promises its callers, with no scheduler, no ready    *)
(* list and no semaphore in sight (threads/synch.h: "Acquire -- wait until *)
(* the lock is FREE, then set it to BUSY", both operations "atomic").      *)
(* Threads.tla shows that the semaphore-based implementation in synch.cc   *)
(* refines it; the modules of monitors built on locks use it in its place. *)
(***************************************************************************)
CONSTANTS Thread,    \* threads that use the locks
          Lock,      \* the locks
          NoThread   \* the NULL lock owner, not one of Thread

VARIABLES owner,     \* owner[l]: the thread inside l, or NoThread when FREE
          waiting    \* pairs <<t, l>>: t has called Acquire on l and waits

vars == <<owner, waiting>>

TypeOK ==
  /\ owner \in [Lock -> Thread \cup {NoThread}]
  /\ waiting \subseteq Thread \X Lock

Init ==
  /\ owner = [l \in Lock |-> NoThread]
  /\ waiting = {}

(* t asks for l and does not get it yet. *)
Wait(t, l) ==
  /\ owner[l] # NoThread
  /\ \A k \in Lock : <<t, k>> \notin waiting
  /\ waiting' = waiting \cup {<<t, l>>}
  /\ UNCHANGED owner

(* t becomes the owner of a FREE lock, whether or not it had to wait:      *)
(* nothing is promised about the order in which waiters are served.        *)
Grant(t, l) ==
  /\ owner[l] = NoThread
  /\ \A k \in Lock \ {l} : <<t, k>> \notin waiting
  /\ owner' = [owner EXCEPT ![l] = t]
  /\ waiting' = waiting \ {<<t, l>>}

(* Only the owner may set the lock FREE. *)
Free(t, l) ==
  /\ owner[l] = t
  /\ \A k \in Lock : <<t, k>> \notin waiting
  /\ owner' = [owner EXCEPT ![l] = NoThread]
  /\ UNCHANGED waiting

Next == \E t \in Thread, l \in Lock : Wait(t, l) \/ Grant(t, l) \/ Free(t, l)

Spec == Init /\ [][Next]_vars
=============================================================================
