----------------------------- MODULE SynchList -----------------------------
(***************************************************************************)
(* The synchronized list of threads/synchlist.cc, a monitor made of a Lock *)
(* and of the Mesa-style Condition of threads/synch.cc.                    *)
(*                                                                         *)
(* The lock is used as LockSpec describes it, which Threads shows is what  *)
(* synch.cc implements.  A thread that waits on a condition does so on a   *)
(* semaphore of its own, so that the thread stands for it in waitQueue;    *)
(* the semaphore's value is 1 when the thread is in signalled.  Threads    *)
(* interleave where kernel code can be preempted: after every P and V.     *)
(***************************************************************************)
EXTENDS Naturals, FiniteSets, SequencesExt

CONSTANTS
  Thread,    \* threads that use the list
  NoThread,  \* NULL
  Item,      \* values appended; the list asserts that it holds none twice
  NoItem     \* an item not there yet

ASSUME SynchListAssumption ==
  /\ IsFiniteSet(Thread)
  /\ NoThread \notin Thread
  /\ NoItem \notin Item

VARIABLES
  owner,     \* the monitor's lock: who is inside it
  list,      \* SynchList::list
  waitQueue, \* Condition::waitQueue of listEmpty
  signalled, \* threads whose waiter semaphore has been V'd
  pc,        \* where a thread is (see Location)
  item,      \* the argument of the Append a thread is in
  result     \* what a thread's last RemoveFront returned

vars == <<owner, list, waitQueue, signalled, pc, item, result>>

(*   outside    in neither operation                                       *)
(*   append     in Append, in lock->Acquire()                              *)
(*   appending  in Append, holding the lock                                *)
(*   appended   in Append, after the V of Signal, about to release         *)
(*   remove     in RemoveFront, in its lock->Acquire()                     *)
(*   removing   in RemoveFront, holding the lock, at the while             *)
(*   waiting    in Condition::Wait, in waiter->P()                         *)
(*   reacquire  in Condition::Wait, in conditionLock->Acquire()            *)
Location == {"outside", "append", "appending", "appended",
             "remove", "removing", "waiting", "reacquire"}

TypeOK ==
  /\ owner \in [{"lock"} -> Thread \cup {NoThread}]
  /\ list \in Seq(Item)
  /\ waitQueue \in Seq(Thread)
  /\ signalled \subseteq Thread
  /\ pc \in [Thread -> Location]
  /\ item \in [Thread -> Item \cup {NoItem}]
  /\ result \in [Thread -> Item \cup {NoItem}]

Init ==
  /\ owner = [l \in {"lock"} |-> NoThread]
  /\ list = <<>>
  /\ waitQueue = <<>>
  /\ signalled = {}
  /\ pc = [t \in Thread |-> "outside"]
  /\ item = [t \in Thread |-> NoItem]
  /\ result = [t \in Thread |-> NoItem]

(* The lock's operations; a thread that has to wait for it stays where it  *)
(* is until Grant is enabled.                                              *)
TheLock == INSTANCE LockSpec WITH Lock <- {"lock"}, waiting <- {}
Grant(t) == TheLock!Grant(t, "lock")
Free(t) == TheLock!Free(t, "lock")

Goto(t, where) == pc' = [pc EXCEPT ![t] = where]

-----------------------------------------------------------------------------
(* A thread calls Append with an item that is not on the list, ... *)
CallAppend(t, x) ==
  /\ pc[t] = "outside"
  /\ x \notin ToSet(list)
  /\ \A u \in Thread : item[u] # x
  /\ item' = [item EXCEPT ![t] = x]
  /\ Goto(t, "append")
  /\ UNCHANGED <<owner, list, waitQueue, signalled, result>>

(* ... or RemoveFront. *)
CallRemove(t) ==
  /\ pc[t] = "outside"
  /\ result' = [result EXCEPT ![t] = NoItem]
  /\ Goto(t, "remove")
  /\ UNCHANGED <<owner, list, waitQueue, signalled, item>>

(* lock->Acquire() returns, in either operation or at the end of Wait. *)
Acquire(t) ==
  /\ pc[t] \in {"append", "remove", "reacquire"}
  /\ Grant(t)
  /\ Goto(t, IF pc[t] = "append" THEN "appending" ELSE "removing")
  /\ UNCHANGED <<list, waitQueue, signalled, item, result>>

(* Slip: Append forgets its argument before it uses it. *)
AppendItemForgotten(t) ==
  /\ pc[t] = "appending"
  /\ list' = Append(list, NoItem)
  /\ item' = [item EXCEPT ![t] = NoItem]
  /\ Free(t)
  /\ Goto(t, "outside")
  /\ UNCHANGED <<waitQueue, signalled, result>>

(* Slip: Append signals only when the list was empty. *)
AppendItemSignalsFirst(t) ==
  /\ pc[t] = "appending"
  /\ list' = Append(list, item[t])
  /\ item' = [item EXCEPT ![t] = NoItem]
  /\ \/ /\ waitQueue = <<>> \/ list # <<>>
        /\ Free(t)
        /\ Goto(t, "outside")
        /\ UNCHANGED <<waitQueue, signalled>>
     \/ /\ waitQueue # <<>> /\ list = <<>>
        /\ waitQueue' = Tail(waitQueue)
        /\ signalled' = signalled \cup {Head(waitQueue)}
        /\ Goto(t, "appended")
        /\ UNCHANGED owner
  /\ UNCHANGED result

(* Slip: Signal looks at the first waiter and leaves it in the queue. *)
AppendItemKeepsWaiter(t) ==
  /\ pc[t] = "appending"
  /\ list' = Append(list, item[t])
  /\ item' = [item EXCEPT ![t] = NoItem]
  /\ signalled' = signalled \cup (IF waitQueue = <<>> THEN {} ELSE {Head(waitQueue)})
  /\ Goto(t, "appended")
  /\ UNCHANGED <<owner, waitQueue, result>>

(* Append: add the item and Signal, then Release unless the V of Signal    *)
(* has given another thread the chance to run first.                       *)
AppendItem(t) ==
  /\ pc[t] = "appending"
  /\ list' = Append(list, item[t])
  /\ item' = [item EXCEPT ![t] = NoItem]
  /\ \/ /\ waitQueue = <<>>
        /\ Free(t)
        /\ Goto(t, "outside")
        /\ UNCHANGED <<waitQueue, signalled>>
     \/ /\ waitQueue # <<>>
        /\ waitQueue' = Tail(waitQueue)
        /\ signalled' = signalled \cup {Head(waitQueue)}
        /\ Goto(t, "appended")
        /\ UNCHANGED owner
  /\ UNCHANGED result

(* The lock->Release() of Append. *)
Release(t) ==
  /\ pc[t] = "appended"
  /\ Free(t)
  /\ Goto(t, "outside")
  /\ UNCHANGED <<list, waitQueue, signalled, item, result>>

(* Slip: RemoveFront does not look whether there is an item. *)
RemoveFrontUntested(t) ==
  /\ pc[t] = "removing"
  /\ result' = [result EXCEPT ![t] = IF list = <<>> THEN NoItem ELSE Head(list)]
  /\ list' = IF list = <<>> THEN list ELSE Tail(list)
  /\ Free(t)
  /\ Goto(t, "outside")
  /\ UNCHANGED <<waitQueue, signalled, item>>

(* RemoveFront finds an item, takes it and releases the lock. *)
RemoveFront(t) ==
  /\ pc[t] = "removing"
  /\ list # <<>>
  /\ result' = [result EXCEPT ![t] = Head(list)]
  /\ list' = Tail(list)
  /\ Free(t)
  /\ Goto(t, "outside")
  /\ UNCHANGED <<waitQueue, signalled, item>>

(* RemoveFront finds the list empty: Condition::Wait queues a semaphore,   *)
(* releases the lock ...                                                   *)
Wait(t) ==
  /\ pc[t] = "removing"
  /\ list = <<>>
  /\ waitQueue' = Append(waitQueue, t)
  /\ Free(t)
  /\ Goto(t, "waiting")
  /\ UNCHANGED <<list, signalled, item, result>>

(* Slip: Wait returns without the lock, as if the signaller passed it on. *)
AwakeInside(t) ==
  /\ pc[t] = "waiting"
  /\ t \in signalled
  /\ signalled' = signalled \ {t}
  /\ Goto(t, "removing")
  /\ UNCHANGED <<owner, list, waitQueue, item, result>>

(* ... and waits for the semaphore to be signalled. *)
Awake(t) ==
  /\ pc[t] = "waiting"
  /\ t \in signalled
  /\ signalled' = signalled \ {t}
  /\ Goto(t, "reacquire")
  /\ UNCHANGED <<owner, list, waitQueue, item, result>>

Next ==
  \E t \in Thread :
    \/ \E x \in Item : CallAppend(t, x)
    \/ CallRemove(t)
    \/ Acquire(t)
    \/ AppendItem(t)
    \/ Release(t)
    \/ RemoveFront(t)
    \/ Wait(t)
    \/ Awake(t)

(* A thread that can go on does, since the timer gives every ready thread  *)
(* the processor; but a free lock goes to any of the threads that want it: *)
(* synch.cc does not order them (a woken thread may find the lock taken    *)
(* and goes to the end of the queue), so no thread is promised its turn.   *)
Fairness ==
  /\ WF_vars(\E t \in Thread : Acquire(t))
  /\ \A t \in Thread : WF_vars(AppendItem(t) \/ Release(t) \/ RemoveFront(t)
                               \/ Wait(t) \/ Awake(t))

Spec == Init /\ [][Next]_vars
FairSpec == Spec /\ Fairness
-----------------------------------------------------------------------------
(* Threads that a signal has sent back to look at the list. *)
Heading == {t \in Thread : t \in signalled \/ pc[t] \in {"reacquire", "removing"}}

(* Condition::Wait: "there is no chance the waiter will miss the signal".  *)
(* As long as a thread waits, no item is left behind: for each item on the *)
(* list some other thread is on its way to look at the list, even when a   *)
(* thread that never waited takes an item meant for one that was signalled. *)
NoLostSignal == waitQueue # <<>> => Len(list) <= Cardinality(Heading)

(* The semaphore a waiter allocates is queued once, signalled at most once *)
(* while it exists, and no longer reachable when Wait deletes it.          *)
WaiterSemaphores ==
  /\ IsInjective(waitQueue)
  /\ ToSet(waitQueue) \cap signalled = {}
  /\ ToSet(waitQueue) \cup signalled = {t \in Thread : pc[t] = "waiting"}

(* synchlist.h: "One thread at a time can access list data structures" and *)
(* ASSERT(conditionLock->IsHeldByCurrentThread()) in Wait and Signal.      *)
MonitorExclusion ==
  \A t \in Thread :
    pc[t] \in {"appending", "appended", "removing"} <=> owner["lock"] = t

(* The list implements QueueSpec: items are removed in the order of their  *)
(* append, each once, and never from an empty list (List::RemoveFront      *)
(* asserts that it is not), although waiters are woken before they run.    *)
Removing == {t \in Thread : pc[t] \in {"remove", "removing", "waiting", "reacquire"}}
Fifo == INSTANCE QueueSpec WITH
          queue <- list, removing <- Removing, got <- result
ImplementsQueueSpec == Fifo!Spec

(* "Wake up anyone waiting for an element to be appended": an item does not *)
(* stay on the list while a thread that asked for one stays asleep.         *)
ItemWakesWaiter ==
  list # <<>> /\ waitQueue # <<>> ~> list = <<>> \/ waitQueue = <<>>
=============================================================================
