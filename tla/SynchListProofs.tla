-------------------------- MODULE SynchListProofs --------------------------
(***************************************************************************)
(* Proofs about SynchList for every finite set of threads and every set of *)
(* items: its monitor, its condition variable, and that it is a queue.     *)
(***************************************************************************)
EXTENDS SynchList, Lists

(* A thread in Append has an item to append.                               *)
HasItem == \A t \in Thread : pc[t] \in {"append", "appending"} => item[t] \in Item

ListInv == TypeOK /\ HasItem /\ MonitorExclusion /\ WaiterSemaphores

-----------------------------------------------------------------------------
(* What Acquire and Release of the lock do to its owner.                   *)
LEMMA LockSteps ==
  ASSUME TypeOK, NEW t \in Thread
  PROVE  /\ Grant(t) => /\ owner["lock"] = NoThread /\ owner'["lock"] = t
                        /\ owner' \in [{"lock"} -> Thread \cup {NoThread}]
         /\ Free(t) => /\ owner["lock"] = t /\ owner'["lock"] = NoThread
                       /\ owner' \in [{"lock"} -> Thread \cup {NoThread}]
  BY DEF Grant, Free, TheLock!Grant, TheLock!Free, TypeOK

(* One thread moves.                                                       *)
LEMMA GotoStep ==
  ASSUME TypeOK, NEW t \in Thread, NEW where \in Location, Goto(t, where)
  PROVE  /\ pc' \in [Thread -> Location] /\ pc'[t] = where
         /\ \A u \in Thread : u # t => pc'[u] = pc[u]
  BY DEF Goto, TypeOK

(* A thread moves between two places outside the monitor, or waits still.  *)
LEMMA OutsideFrame ==
  ASSUME ListInv, SynchListAssumption, NEW t \in Thread, NEW where \in Location,
         Goto(t, where), pc[t] \in {"outside", "append", "remove"},
         where \in {"outside", "append", "remove"},
         UNCHANGED <<owner, waitQueue, signalled>>
  PROVE  MonitorExclusion' /\ WaiterSemaphores'
<1>1. /\ pc'[t] = where /\ \A u \in Thread : u # t => pc'[u] = pc[u]
  BY GotoStep DEF ListInv
<1>2. MonitorExclusion'
  BY <1>1 DEF ListInv, MonitorExclusion
<1>3. WaiterSemaphores'
  BY <1>1 DEF ListInv, WaiterSemaphores
<1> QED
  BY <1>2, <1>3

(* A thread enters or leaves the monitor, or a step inside it changes      *)
(* nothing for the waiters.                                                *)
LEMMA WaitersFrame ==
  ASSUME ListInv, NEW t \in Thread, NEW where \in Location, Goto(t, where),
         pc[t] # "waiting", where # "waiting", UNCHANGED <<waitQueue, signalled>>
  PROVE  WaiterSemaphores'
<1>1. /\ pc'[t] = where /\ \A u \in Thread : u # t => pc'[u] = pc[u]
  BY GotoStep DEF ListInv
<1> QED
  BY <1>1 DEF ListInv, WaiterSemaphores

(* The thread that frees the lock is the one inside.                       *)
LEMMA FreeExclusion ==
  ASSUME ListInv, SynchListAssumption, NEW t \in Thread, NEW where \in Location,
         Goto(t, where), Free(t), where \in {"outside", "waiting"}
  PROVE  MonitorExclusion'
<1>1. /\ pc'[t] = where /\ \A u \in Thread : u # t => pc'[u] = pc[u]
  BY GotoStep DEF ListInv
<1>2. owner["lock"] = t /\ owner'["lock"] = NoThread
  BY LockSteps DEF ListInv
<1> QED
  BY <1>1, <1>2 DEF ListInv, MonitorExclusion, SynchListAssumption

-----------------------------------------------------------------------------
(* The monitor is empty at the start.                                      *)
LEMMA ListInvInit == Init => ListInv
<1> SUFFICES ASSUME Init PROVE ListInv
  OBVIOUS
<1>1. TypeOK
  BY DEF Init, TypeOK, Location
<1>2. MonitorExclusion
  BY SynchListAssumption DEF Init, MonitorExclusion
<1>3. WaiterSemaphores
  BY NoElements DEF Init, WaiterSemaphores
<1> QED
  BY <1>1, <1>2, <1>3 DEF Init, ListInv, HasItem

(* One step per action of the monitor.                                     *)
LEMMA ListInvStep == ListInv /\ [Next]_vars => ListInv'
<1> SUFFICES ASSUME ListInv, [Next]_vars PROVE ListInv'
  OBVIOUS
<1> USE SynchListAssumption
<1>0. TypeOK /\ HasItem /\ MonitorExclusion /\ WaiterSemaphores
  BY DEF ListInv
<1>1. ASSUME NEW t \in Thread, NEW x \in Item, CallAppend(t, x) PROVE ListInv'
  <2>1. "append" \in Location /\ Goto(t, "append")
    BY <1>1 DEF CallAppend, Location
  <2>2. TypeOK' /\ HasItem'
    BY <1>0, <1>1, <2>1, GotoStep DEF CallAppend, TypeOK, HasItem
  <2>3. MonitorExclusion' /\ WaiterSemaphores'
    BY <1>1, <2>1, OutsideFrame DEF CallAppend
  <2> QED
    BY <2>2, <2>3 DEF ListInv
<1>2. ASSUME NEW t \in Thread, CallRemove(t) PROVE ListInv'
  <2>1. "remove" \in Location /\ Goto(t, "remove")
    BY <1>2 DEF CallRemove, Location
  <2>2. TypeOK' /\ HasItem'
    BY <1>0, <1>2, <2>1, GotoStep DEF CallRemove, TypeOK, HasItem
  <2>3. MonitorExclusion' /\ WaiterSemaphores'
    BY <1>2, <2>1, OutsideFrame DEF CallRemove
  <2> QED
    BY <2>2, <2>3 DEF ListInv
<1>3. ASSUME NEW t \in Thread, Acquire(t) PROVE ListInv'
  <2> DEFINE w == IF pc[t] = "append" THEN "appending" ELSE "removing"
  <2>1. /\ w \in Location /\ Goto(t, w) /\ Grant(t) /\ w \in {"appending", "removing"}
        /\ pc[t] \in {"append", "remove", "reacquire"}
        /\ w = "appending" => pc[t] = "append"
        /\ UNCHANGED <<list, waitQueue, signalled, item, result>>
    BY <1>3 DEF Acquire, Location
  <2> HIDE DEF w
  <2>2. TypeOK' /\ HasItem'
    BY <1>0, <2>1, GotoStep, LockSteps DEF TypeOK, HasItem
  <2>3. MonitorExclusion'
    BY <1>0, <2>1, GotoStep, LockSteps DEF MonitorExclusion
  <2>4. WaiterSemaphores'
    BY <2>1, WaitersFrame
  <2> QED
    BY <2>2, <2>3, <2>4 DEF ListInv
<1>4. ASSUME NEW t \in Thread, AppendItem(t) PROVE ListInv'
  <2>1. /\ pc[t] = "appending" /\ list' = Append(list, item[t])
        /\ item' = [item EXCEPT ![t] = NoItem] /\ result' = result
    BY <1>4 DEF AppendItem
  <2>2. /\ list' \in Seq(Item) /\ item' \in [Thread -> Item \cup {NoItem}]
        /\ \A u \in Thread : u # t => item'[u] = item[u]
    BY <1>0, <2>1, AppendSet DEF TypeOK, HasItem
  <2>3. CASE waitQueue = <<>>
    <3>1. /\ Free(t) /\ Goto(t, "outside") /\ UNCHANGED <<waitQueue, signalled>>
          /\ "outside" \in Location
      BY <1>4, <2>3 DEF AppendItem, Location
    <3>2. TypeOK' /\ HasItem'
      BY <1>0, <2>1, <2>2, <3>1, GotoStep, LockSteps DEF TypeOK, HasItem
    <3>3. MonitorExclusion' /\ WaiterSemaphores'
      BY <2>1, <3>1, FreeExclusion, WaitersFrame
    <3> QED
      BY <3>2, <3>3 DEF ListInv
  <2>4. CASE waitQueue # <<>>
    <3> DEFINE h == Head(waitQueue)
    <3>1. /\ waitQueue' = Tail(waitQueue) /\ signalled' = signalled \cup {h}
          /\ Goto(t, "appended") /\ owner' = owner /\ "appended" \in Location
      BY <1>4, <2>4 DEF AppendItem, Location
    <3>2. /\ h \in Thread /\ waitQueue' \in Seq(Thread) /\ IsInjective(waitQueue')
          /\ ToSet(waitQueue) = ToSet(waitQueue') \cup {h}
          /\ h \notin ToSet(waitQueue')
      BY <1>0, <2>4, <3>1, TailSet DEF TypeOK, WaiterSemaphores
    <3> HIDE DEF h
    <3>3. TypeOK' /\ HasItem'
      BY <1>0, <2>1, <2>2, <3>1, <3>2, GotoStep DEF TypeOK, HasItem
    <3>4. MonitorExclusion'
      BY <1>0, <2>1, <3>1, GotoStep DEF MonitorExclusion
    <3>5. WaiterSemaphores'
      BY <1>0, <2>1, <3>1, <3>2, GotoStep DEF WaiterSemaphores
    <3> QED
      BY <3>3, <3>4, <3>5 DEF ListInv
  <2> QED
    BY <2>3, <2>4
<1>5. ASSUME NEW t \in Thread, Release(t) PROVE ListInv'
  <2>1. /\ pc[t] = "appended" /\ Free(t) /\ Goto(t, "outside") /\ "outside" \in Location
        /\ UNCHANGED <<list, waitQueue, signalled, item, result>>
    BY <1>5 DEF Release, Location
  <2>2. TypeOK' /\ HasItem'
    BY <1>0, <2>1, GotoStep, LockSteps DEF TypeOK, HasItem
  <2>3. MonitorExclusion' /\ WaiterSemaphores'
    BY <2>1, FreeExclusion, WaitersFrame
  <2> QED
    BY <2>2, <2>3 DEF ListInv
<1>6. ASSUME NEW t \in Thread, RemoveFront(t) PROVE ListInv'
  <2>1. /\ pc[t] = "removing" /\ Free(t) /\ Goto(t, "outside") /\ "outside" \in Location
        /\ list # <<>> /\ list' = Tail(list)
        /\ result' = [result EXCEPT ![t] = Head(list)]
        /\ UNCHANGED <<waitQueue, signalled, item>>
    BY <1>6 DEF RemoveFront, Location
  <2>2. Head(list) \in Item /\ Tail(list) \in Seq(Item)
    BY <1>0, <2>1, TailSet DEF TypeOK
  <2>3. TypeOK' /\ HasItem'
    BY <1>0, <2>1, <2>2, GotoStep, LockSteps DEF TypeOK, HasItem
  <2>4. MonitorExclusion' /\ WaiterSemaphores'
    BY <2>1, FreeExclusion, WaitersFrame
  <2> QED
    BY <2>3, <2>4 DEF ListInv
<1>7. ASSUME NEW t \in Thread, Wait(t) PROVE ListInv'
  <2>1. /\ pc[t] = "removing" /\ Free(t) /\ Goto(t, "waiting") /\ "waiting" \in Location
        /\ waitQueue' = Append(waitQueue, t)
        /\ UNCHANGED <<list, signalled, item, result>>
    BY <1>7 DEF Wait, Location
  <2>2. t \notin ToSet(waitQueue) /\ t \notin signalled
    BY <1>0, <2>1 DEF WaiterSemaphores
  <2>3. /\ waitQueue' \in Seq(Thread) /\ ToSet(waitQueue') = ToSet(waitQueue) \cup {t}
        /\ IsInjective(waitQueue')
    BY <1>0, <2>1, <2>2, AppendSet DEF TypeOK, WaiterSemaphores
  <2>4. TypeOK' /\ HasItem'
    BY <1>0, <2>1, <2>3, GotoStep, LockSteps DEF TypeOK, HasItem
  <2>5. MonitorExclusion'
    BY <2>1, FreeExclusion
  <2>6. WaiterSemaphores'
    BY <1>0, <2>1, <2>2, <2>3, GotoStep DEF WaiterSemaphores
  <2> QED
    BY <2>4, <2>5, <2>6 DEF ListInv
<1>8. ASSUME NEW t \in Thread, Awake(t) PROVE ListInv'
  <2>1. /\ pc[t] = "waiting" /\ t \in signalled /\ signalled' = signalled \ {t}
        /\ Goto(t, "reacquire") /\ "reacquire" \in Location
        /\ UNCHANGED <<owner, list, waitQueue, item, result>>
    BY <1>8 DEF Awake, Location
  <2>2. TypeOK' /\ HasItem'
    BY <1>0, <2>1, GotoStep DEF TypeOK, HasItem
  <2>3. MonitorExclusion'
    BY <1>0, <2>1, GotoStep DEF MonitorExclusion
  <2>4. WaiterSemaphores'
    BY <1>0, <2>1, GotoStep DEF WaiterSemaphores
  <2> QED
    BY <2>2, <2>3, <2>4 DEF ListInv
<1>9. CASE UNCHANGED vars
  BY <1>0, <1>9 DEF vars, ListInv, TypeOK, HasItem, MonitorExclusion, WaiterSemaphores
<1> QED
  BY <1>1, <1>2, <1>3, <1>4, <1>5, <1>6, <1>7, <1>8, <1>9 DEF Next

(* The monitor's invariant holds in every state.                           *)
LEMMA ListInvariant == Spec => []ListInv
  BY ListInvInit, ListInvStep, PTL DEF Spec

(* The state of the list keeps its types: in particular no thread appends  *)
(* before it has an item.                                                  *)
THEOREM ListTypeCorrect == Spec => []TypeOK
<1>1. ListInv => TypeOK
  BY DEF ListInv
<1> QED
  BY <1>1, ListInvariant, PTL

(* One thread at a time is in the monitor, and it owns the lock: the       *)
(* assertion on the lock in Wait and Signal never fails.                   *)
THEOREM OneThreadInMonitor == Spec => []MonitorExclusion
<1>1. ListInv => MonitorExclusion
  BY DEF ListInv
<1> QED
  BY <1>1, ListInvariant, PTL

(* The semaphore of a waiter is queued once and signalled at most once, by *)
(* the time Wait deletes it nobody can reach it.                           *)
THEOREM WaiterSemaphoresAreSafe == Spec => []WaiterSemaphores
<1>1. ListInv => WaiterSemaphores
  BY DEF ListInv
<1> QED
  BY <1>1, ListInvariant, PTL
-----------------------------------------------------------------------------
(* The threads sent back to the list can be counted; a thread that joins   *)
(* or leaves them changes the count by one.                                *)
LEMMA HeadingCount ==
  ASSUME SynchListAssumption, NEW t
  PROVE  /\ IsFiniteSet(Heading) /\ Cardinality(Heading) \in Nat
         /\ t \notin Heading => Cardinality(Heading \cup {t}) = Cardinality(Heading) + 1
         /\ t \in Heading => Cardinality(Heading \ {t}) = Cardinality(Heading) - 1
<1>1. IsFiniteSet(Heading)
  BY FS_Subset DEF Heading, SynchListAssumption
<1>2. t \notin Heading => Cardinality(Heading \cup {t}) = Cardinality(Heading) + 1
  BY <1>1, FS_AddElement
<1>3. t \in Heading => Cardinality(Heading \ {t}) = Cardinality(Heading) - 1
  BY <1>1, FS_RemoveElement
<1> QED
  BY <1>1, <1>2, <1>3, FS_CardinalityType

(* The list and its waiters stay, nobody turns away from the list.         *)
LEMMA SignalFrame ==
  ASSUME SynchListAssumption, TypeOK, NoLostSignal, UNCHANGED <<list, waitQueue>>,
         Heading \subseteq Heading'
  PROVE  NoLostSignal'
<1>1. IsFiniteSet(Heading') /\ Cardinality(Heading') \in Nat
  BY FS_Subset, FS_CardinalityType DEF Heading, SynchListAssumption
<1>2. Cardinality(Heading) <= Cardinality(Heading') /\ Cardinality(Heading) \in Nat
  BY <1>1, FS_Subset, HeadingCount
<1>3. Len(list) \in Nat
  BY DEF TypeOK
<1> DEFINE c == Cardinality(Heading)
           d == Cardinality(Heading')
<1>4. waitQueue # <<>> => Len(list) <= c
  BY DEF NoLostSignal
<1>5. c <= d /\ c \in Nat /\ d \in Nat
  BY <1>1, <1>2
<1> HIDE DEF c, d
<1>6. waitQueue' # <<>> => Len(list') <= d
  BY <1>3, <1>4, <1>5
<1> QED
  BY <1>6 DEF NoLostSignal, d

(* An item comes with a signal while threads wait, and leaves with a       *)
(* thread that was on its way to it.                                       *)
LEMMA SignalStep == ListInv /\ NoLostSignal /\ [Next]_vars => NoLostSignal'
<1> SUFFICES ASSUME ListInv, NoLostSignal, [Next]_vars PROVE NoLostSignal'
  OBVIOUS
<1> USE SynchListAssumption
<1>0. TypeOK /\ HasItem /\ MonitorExclusion /\ WaiterSemaphores
  BY DEF ListInv
<1>1. ASSUME NEW t \in Thread, NEW where, where \in Location, Goto(t, where),
             pc[t] \in {"reacquire", "removing"} => where \in {"reacquire", "removing"},
             UNCHANGED <<list, waitQueue, signalled>>
      PROVE  NoLostSignal'
  <2>1. Heading \subseteq Heading'
    BY <1>0, <1>1, GotoStep DEF Heading
  <2> QED
    BY <1>0, <1>1, <2>1, SignalFrame
<1>2. ASSUME NEW t \in Thread, NEW x \in Item, CallAppend(t, x) PROVE NoLostSignal'
  BY <1>1, <1>2 DEF CallAppend, Location
<1>3. ASSUME NEW t \in Thread, CallRemove(t) PROVE NoLostSignal'
  BY <1>1, <1>3 DEF CallRemove, Location
<1>4. ASSUME NEW t \in Thread, Acquire(t) PROVE NoLostSignal'
  <2> DEFINE w == IF pc[t] = "append" THEN "appending" ELSE "removing"
  <2>1. /\ w \in Location /\ Goto(t, w)
        /\ pc[t] = "reacquire" => w = "removing"
        /\ pc[t] # "removing" /\ UNCHANGED <<list, waitQueue, signalled>>
    BY <1>4 DEF Acquire, Location
  <2> HIDE DEF w
  <2> QED
    BY <1>1, <2>1
<1>5. ASSUME NEW t \in Thread, AppendItem(t) PROVE NoLostSignal'
  <2>1. CASE waitQueue = <<>>
    BY <1>5, <2>1 DEF AppendItem, NoLostSignal
  <2>2. CASE waitQueue # <<>>
    <3> DEFINE h == Head(waitQueue)
               c == Cardinality(Heading)
               d == Cardinality(Heading')
    <3>1. /\ signalled' = signalled \cup {h} /\ list' = Append(list, item[t])
          /\ Goto(t, "appended") /\ pc[t] = "appending" /\ "appended" \in Location
      BY <1>5, <2>2 DEF AppendItem, Location
    <3>2. h \in Thread /\ h \in ToSet(waitQueue)
      BY <1>0, <2>2, TailSet DEF TypeOK
    <3>3. h \notin signalled /\ pc[h] = "waiting"
      BY <1>0, <3>2 DEF WaiterSemaphores
    <3>4. h \notin Heading /\ Heading' = Heading \cup {h}
      BY <1>0, <3>1, <3>2, <3>3, GotoStep DEF Heading
    <3>5. d = c + 1 /\ c \in Nat
      BY <3>4, HeadingCount
    <3>6. Len(list) <= c
      BY <2>2 DEF NoLostSignal
    <3>7. Len(list') = Len(list) + 1 /\ Len(list) \in Nat
      BY <1>0, <3>1 DEF TypeOK, HasItem
    <3> HIDE DEF c, d
    <3>8. Len(list') <= d
      BY <3>5, <3>6, <3>7
    <3> QED
      BY <3>8 DEF NoLostSignal, d
  <2> QED
    BY <2>1, <2>2
<1>6. ASSUME NEW t \in Thread, Release(t) PROVE NoLostSignal'
  BY <1>1, <1>6 DEF Release, Location
<1>7. ASSUME NEW t \in Thread, RemoveFront(t) PROVE NoLostSignal'
  <2> DEFINE c == Cardinality(Heading)
             d == Cardinality(Heading')
  <2>1. /\ pc[t] = "removing" /\ Goto(t, "outside") /\ "outside" \in Location
        /\ list # <<>> /\ list' = Tail(list) /\ UNCHANGED <<waitQueue, signalled>>
    BY <1>7 DEF RemoveFront, Location
  <2>2. t \in Heading /\ t \notin signalled
    BY <1>0, <2>1 DEF WaiterSemaphores, Heading
  <2>3. Heading' = Heading \ {t}
    BY <1>0, <2>1, <2>2, GotoStep DEF Heading
  <2>4. d = c - 1 /\ c \in Nat
    BY <2>2, <2>3, HeadingCount
  <2>5. Len(list') = Len(list) - 1 /\ Len(list) \in Nat
    BY <1>0, <2>1 DEF TypeOK
  <2>6. waitQueue # <<>> => Len(list) <= c
    BY DEF NoLostSignal
  <2> HIDE DEF c, d
  <2>7. waitQueue' # <<>> => Len(list') <= d
    BY <2>1, <2>4, <2>5, <2>6
  <2> QED
    BY <2>7 DEF NoLostSignal, d
<1>8. ASSUME NEW t \in Thread, Wait(t) PROVE NoLostSignal'
  <2>1. Len(list') = 0
    BY <1>8 DEF Wait
  <2>2. Cardinality(Heading') \in Nat
    BY FS_Subset, FS_CardinalityType DEF Heading, SynchListAssumption
  <2> QED
    BY <2>1, <2>2 DEF NoLostSignal
<1>9. ASSUME NEW t \in Thread, Awake(t) PROVE NoLostSignal'
  <2>1. /\ signalled' = signalled \ {t} /\ Goto(t, "reacquire") /\ "reacquire" \in Location
        /\ UNCHANGED <<list, waitQueue>>
    BY <1>9 DEF Awake, Location
  <2>2. Heading \subseteq Heading'
    BY <1>0, <2>1, GotoStep DEF Heading
  <2> QED
    BY <1>0, <2>1, <2>2, SignalFrame
<1>10. CASE UNCHANGED vars
  BY <1>0, <1>10, SignalFrame DEF vars, Heading
<1> QED
  BY <1>2, <1>3, <1>4, <1>5, <1>6, <1>7, <1>8, <1>9, <1>10 DEF Next

(* No signal is missed: while a thread waits, every item on the list has   *)
(* another thread on its way to it.                                        *)
THEOREM SignalsAreNotLost == Spec => []NoLostSignal
<1>1. Init => NoLostSignal
  BY DEF Init, NoLostSignal
<1> QED
  BY <1>1, SignalStep, ListInvariant, PTL DEF Spec

-----------------------------------------------------------------------------
(* Every step appends, asks, removes in order, or is not seen.             *)
LEMMA StepIsFifo == ListInv /\ [Next]_vars => [Fifo!Next]_(Fifo!vars)
<1> SUFFICES ASSUME ListInv, [Next]_vars PROVE [Fifo!Next]_(Fifo!vars)
  OBVIOUS
<1>0. TypeOK /\ HasItem
  BY DEF ListInv
<1> DEFINE Asking == {"remove", "removing", "waiting", "reacquire"}
<1>1. ASSUME NEW t \in Thread, NEW where \in Location, Goto(t, where),
             pc[t] \in Asking <=> where \in Asking
      PROVE  Removing' = Removing
  BY <1>0, <1>1, GotoStep DEF Removing
<1>2. ASSUME NEW t \in Thread, NEW x \in Item, CallAppend(t, x) PROVE UNCHANGED Fifo!vars
  BY <1>1, <1>2 DEF CallAppend, Location, Fifo!vars
<1>3. ASSUME NEW t \in Thread, CallRemove(t) PROVE Fifo!Next
  <2>1. Goto(t, "remove") /\ "remove" \in Location /\ pc[t] = "outside"
    BY <1>3 DEF CallRemove, Location
  <2>2. t \notin Removing /\ Removing' = Removing \cup {t}
    BY <1>0, <2>1, GotoStep DEF Removing
  <2>3. Fifo!Ask(t)
    BY <1>3, <2>2 DEF CallRemove, Fifo!Ask
  <2> QED
    BY <2>3 DEF Fifo!Next
<1>4. ASSUME NEW t \in Thread, Acquire(t) PROVE UNCHANGED Fifo!vars
  <2> DEFINE w == IF pc[t] = "append" THEN "appending" ELSE "removing"
  <2>1. /\ w \in Location /\ Goto(t, w)
        /\ pc[t] \in Asking <=> w \in Asking
        /\ UNCHANGED <<list, result>>
    BY <1>4 DEF Acquire, Location
  <2> HIDE DEF w
  <2> QED
    BY <1>1, <2>1 DEF Fifo!vars
<1>5. ASSUME NEW t \in Thread, AppendItem(t) PROVE Fifo!Next
  <2>1. /\ pc[t] = "appending" /\ list' = Append(list, item[t]) /\ result' = result
        /\ Goto(t, "outside") \/ Goto(t, "appended")
        /\ "outside" \in Location /\ "appended" \in Location
    BY <1>5 DEF AppendItem, Location
  <2>2. Removing' = Removing
    BY <1>1, <2>1
  <2>3. item[t] \in Item
    BY <1>0, <2>1 DEF HasItem
  <2>4. Fifo!Put(item[t])
    BY <2>1, <2>2 DEF Fifo!Put
  <2> QED
    BY <2>3, <2>4 DEF Fifo!Next
<1>6. ASSUME NEW t \in Thread, Release(t) PROVE UNCHANGED Fifo!vars
  BY <1>1, <1>6 DEF Release, Location, Fifo!vars
<1>7. ASSUME NEW t \in Thread, RemoveFront(t) PROVE Fifo!Next
  <2>1. Goto(t, "outside") /\ "outside" \in Location /\ pc[t] = "removing"
    BY <1>7 DEF RemoveFront, Location
  <2>2. t \in Removing /\ Removing' = Removing \ {t}
    BY <1>0, <2>1, GotoStep DEF Removing
  <2>3. Fifo!Get(t)
    BY <1>7, <2>2 DEF RemoveFront, Fifo!Get
  <2> QED
    BY <2>3 DEF Fifo!Next
<1>8. ASSUME NEW t \in Thread, Wait(t) PROVE UNCHANGED Fifo!vars
  BY <1>1, <1>8 DEF Wait, Location, Fifo!vars
<1>9. ASSUME NEW t \in Thread, Awake(t) PROVE UNCHANGED Fifo!vars
  BY <1>1, <1>9 DEF Awake, Location, Fifo!vars
<1>10. CASE UNCHANGED vars
  BY <1>10 DEF vars, Fifo!vars, Removing
<1> QED
  BY <1>2, <1>3, <1>4, <1>5, <1>6, <1>7, <1>8, <1>9, <1>10 DEF Next

(* The monitor is a first-in first-out queue: what is removed is what was  *)
(* appended first, once, and never from an empty list.                     *)
THEOREM ListIsFifo == Spec => ImplementsQueueSpec
<1>1. Init => Fifo!Init
  BY DEF Init, Fifo!Init, Removing
<1> QED
  BY <1>1, StepIsFifo, ListInvariant, PTL DEF Spec, ImplementsQueueSpec, Fifo!Spec
=============================================================================
