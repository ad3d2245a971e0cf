----------------------------- MODULE QueueSpec -----------------------------
(***************************************************************************)
(* What a SynchList promises (threads/synchlist.h): items come out in the  *)
(* order they went in, each exactly once, and a thread that removes waits  *)
(* until there is an item.  No lock, no condition variable.                *)
(***************************************************************************)
EXTENDS Sequences

CONSTANTS Thread,   \* threads that use the list
          Item,     \* what is put on it
          NoItem    \* no item

VARIABLES queue,    \* the items appended and not yet removed
          removing, \* threads that have called RemoveFront and wait for it
          got       \* got[t]: what t's last RemoveFront returned

vars == <<queue, removing, got>>

Init ==
  /\ queue = <<>>
  /\ removing = {}
  /\ got = [t \in Thread |-> NoItem]

Put(x) ==
  /\ queue' = Append(queue, x)
  /\ UNCHANGED <<removing, got>>

Ask(t) ==
  /\ t \notin removing
  /\ removing' = removing \cup {t}
  /\ got' = [got EXCEPT ![t] = NoItem]
  /\ UNCHANGED queue

Get(t) ==
  /\ t \in removing
  /\ queue # <<>>
  /\ got' = [got EXCEPT ![t] = Head(queue)]
  /\ queue' = Tail(queue)
  /\ removing' = removing \ {t}

Next == \/ \E x \in Item : Put(x)
        \/ \E t \in Thread : Ask(t) \/ Get(t)

Spec == Init /\ [][Next]_vars
=============================================================================
