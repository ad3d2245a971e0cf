--------------------------- MODULE ThreadsProofs ---------------------------
(***************************************************************************)
(* Proofs about Threads for every set of threads, semaphores and locks:    *)
(* its types and its locks first; then where every thread is, the carcass  *)
(* of a thread that has finished, and that no wake-up is lost.             *)
(***************************************************************************)
EXTENDS Threads, Lists

(* A list keeps its type when its head is taken off or t is added.         *)
LEMMA HeadTailType ==
  ASSUME NEW s \in Seq(Thread), s # <<>>
  PROVE  Head(s) \in Thread /\ Tail(s) \in Seq(Thread)
  OBVIOUS

(* Appending a thread gives a non-empty list of threads.                   *)
LEMMA AppendType ==
  ASSUME NEW s \in Seq(Thread), NEW t \in Thread
  PROVE  Append(s, t) \in Seq(Thread) /\ Append(s, t) # <<>>
<1>1. Append(s, t) \in Seq(Thread) /\ Len(Append(s, t)) = Len(s) + 1
  OBVIOUS
<1>2. Len(s) + 1 # 0 /\ Len(<<>>) = 0
  OBVIOUS
<1> QED
  BY <1>1, <1>2

(* Dispatching from a non-empty list of threads keeps the scheduler typed. *)
LEMMA RunType ==
  ASSUME NEW st \in [Thread -> Status], NEW rl \in Seq(Thread), rl # <<>>,
         Run(st, rl)
  PROVE  /\ currentThread' \in Thread /\ readyList' \in Seq(Thread)
         /\ status' \in [Thread -> Status]
         /\ level' \in {"IntOn", "IntOff"} /\ idle' \in BOOLEAN
  BY HeadTailType DEF Run, Status

(* Sleep dispatches a thread or goes idle; the scheduler stays typed.      *)
LEMMA SleepType ==
  ASSUME TypeOK, NEW st \in [Thread -> Status], Sleep(st)
  PROVE  /\ currentThread' \in Thread /\ readyList' \in Seq(Thread)
         /\ status' \in [Thread -> Status]
         /\ level' \in {"IntOn", "IntOff"} /\ idle' \in BOOLEAN
<1> DEFINE blocked == [st EXCEPT ![currentThread] = "BLOCKED"]
<1>1. blocked \in [Thread -> Status]
  BY DEF Status, TypeOK
<1>2. CASE readyList # <<>> /\ Run(blocked, readyList)
  <2>1. readyList \in Seq(Thread)
    BY DEF TypeOK
  <2> QED
    BY <1>1, <1>2, <2>1, RunType
<1>3. CASE /\ readyList = <<>> /\ status' = blocked /\ idle' = TRUE
           /\ level' = "IntOff" /\ UNCHANGED <<currentThread, readyList>>
  BY <1>1, <1>3 DEF TypeOK
<1> QED
  BY <1>2, <1>3 DEF Sleep

(* The four effects of V are well typed on every semaphore.                *)
LEMMA VType ==
  ASSUME TypeOK, NEW s \in Semaphores
  PROVE  /\ VReadyList(s) \in Seq(Thread)
         /\ VStatus(s) \in [Thread -> Status]
         /\ VQueue(s) \in [Semaphores -> Seq(Thread)]
         /\ VValue(s) \in [Semaphores -> Nat]
<1>1. queue[s] \in Seq(Thread) /\ queue \in [Semaphores -> Seq(Thread)]
  BY DEF TypeOK
<1>2. queue[s] # <<>> => Head(queue[s]) \in Thread /\ Tail(queue[s]) \in Seq(Thread)
  BY <1>1, HeadTailType
<1>3. VReadyList(s) \in Seq(Thread)
  BY <1>2 DEF VReadyList, TypeOK
<1>4. VStatus(s) \in [Thread -> Status]
  BY <1>2 DEF VStatus, TypeOK, Status
<1>5. VQueue(s) \in [Semaphores -> Seq(Thread)]
  BY <1>1, <1>2 DEF VQueue
<1>6. VValue(s) \in [Semaphores -> Nat]
  BY DEF VValue, TypeOK
<1> QED
  BY <1>3, <1>4, <1>5, <1>6

(* P's bookkeeping when the value is positive: t leaves P(s).              *)
LEMMA TakeType ==
  ASSUME TypeOK, NEW t \in Thread, NEW s \in Semaphores, value[s] > 0,
         value' = [value EXCEPT ![s] = @ - 1],
         pc' = [pc EXCEPT ![t] = AfterP(s)],
         sem' = [sem EXCEPT ![t] = s]
  PROVE  /\ value' \in [Semaphores -> Nat]
         /\ pc' \in [Thread -> Location]
         /\ sem' \in [Thread -> Semaphores \cup {NoThread}]
         /\ \A u \in Thread : pc'[u] = "P" => sem'[u] \in Semaphores
         /\ \A u \in Thread : pc'[u] = "acquired" => sem'[u] \in Lock
<1>1. value[s] - 1 \in Nat
  BY DEF TypeOK
<1>2. value' \in [Semaphores -> Nat]
  BY <1>1 DEF TypeOK
<1>3. AfterP(s) \in {"body", "acquired"} /\ (AfterP(s) = "acquired" => s \in Lock)
  BY DEF AfterP
<1>4. pc' \in [Thread -> Location] /\ sem' \in [Thread -> Semaphores \cup {NoThread}]
  BY <1>3 DEF TypeOK, Location
<1>5. \A u \in Thread : pc'[u] = "P" => sem'[u] \in Semaphores
  BY <1>3 DEF TypeOK
<1>6. \A u \in Thread : pc'[u] = "acquired" => sem'[u] \in Lock
  BY <1>3 DEF TypeOK
<1> QED
  BY <1>2, <1>4, <1>5, <1>6

(* P's bookkeeping when the value is 0: t goes to the end of the queue.    *)
LEMMA QueueType ==
  ASSUME TypeOK, NEW t \in Thread, NEW s \in Semaphores
  PROVE  [queue EXCEPT ![s] = Append(@, t)] \in [Semaphores -> Seq(Thread)]
<1>1. Append(queue[s], t) \in Seq(Thread)
  BY AppendType DEF TypeOK
<1> QED
  BY <1>1 DEF TypeOK

-----------------------------------------------------------------------------
(* Every action keeps the types.                                           *)
LEMMA StepType == TypeOK /\ [Next]_vars => TypeOK'
<1> SUFFICES ASSUME TypeOK, [Next]_vars PROVE TypeOK'
  OBVIOUS
<1> USE ThreadsAssumption DEF Semaphores
<1>1. ASSUME NEW t \in Thread, NEW u \in Thread, Fork(t, u) PROVE TypeOK'
  BY <1>1 DEF TypeOK, Fork, InBody, Status, Location, synchVars
<1>2. ASSUME NEW t \in Thread, Yield(t) PROVE TypeOK'
  <2>1. [status EXCEPT ![t] = "READY"] \in [Thread -> Status]
    BY DEF TypeOK, Status
  <2>2. Append(readyList, t) \in Seq(Thread) /\ Append(readyList, t) # <<>>
    BY AppendType DEF TypeOK
  <2>3. Run([status EXCEPT ![t] = "READY"], Append(readyList, t))
    BY <1>2 DEF Yield
  <2> QED
    BY <1>2, <2>1, <2>2, <2>3, RunType DEF TypeOK, Yield, synchVars
<1>3. ASSUME NEW t \in Thread, Resume(t) PROVE TypeOK'
  BY <1>3 DEF TypeOK, Resume, CheckToBeDestroyed, Status, Location, synchVars
<1>4. CheckToBeDestroyed \in [Thread -> Status]
  BY DEF TypeOK, CheckToBeDestroyed, Status
<1>5. ASSUME NEW t \in Thread, ResumeP(t) PROVE TypeOK'
  <2> DEFINE s == sem[t]
  <2>1. s \in Semaphores /\ t = currentThread /\ pc[t] = "P"
    BY <1>5 DEF TypeOK, ResumeP
  <2>2. sem' = [sem EXCEPT ![t] = s] /\ toBeDestroyed' = NoThread
    BY <1>5 DEF TypeOK, ResumeP
  <2>3. CASE value[s] > 0
    <3>1. /\ value' = [value EXCEPT ![s] = @ - 1]
          /\ pc' = [pc EXCEPT ![t] = AfterP(s)]
          /\ status' = CheckToBeDestroyed /\ level' = "IntOn"
          /\ UNCHANGED <<queue, currentThread, idle, readyList>>
      BY <1>5, <2>3 DEF ResumeP
    <3> QED
      BY <1>4, <1>5, <2>1, <2>2, <2>3, <3>1, TakeType DEF TypeOK, ResumeP
  <2>4. CASE value[s] = 0
    <3>1. /\ Sleep(CheckToBeDestroyed) /\ UNCHANGED <<value, pc>>
          /\ queue' = [queue EXCEPT ![s] = Append(@, t)]
      BY <1>5, <2>1, <2>4 DEF ResumeP
    <3>2. queue' \in [Semaphores -> Seq(Thread)]
      BY <2>1, <3>1, QueueType
    <3> QED
      BY <1>4, <1>5, <2>1, <2>2, <3>1, <3>2, SleepType DEF TypeOK, ResumeP
  <2>5. value[s] > 0 \/ value[s] = 0
    BY <2>1 DEF TypeOK
  <2> QED
    BY <2>3, <2>4, <2>5
<1>6. ASSUME NEW t \in Thread, Acquired(t) PROVE TypeOK'
  BY <1>6 DEF TypeOK, Acquired, Location, schedVars
<1>7. ASSUME NEW t \in Thread, Finish(t) PROVE TypeOK'
  BY <1>7, SleepType DEF TypeOK, Finish, InBody, Location, synchVars
<1>8. ASSUME NEW t \in Thread, NEW s \in Semaphores, P(t, s) PROVE TypeOK'
  <2>1. CASE value[s] > 0
    <3>1. /\ value' = [value EXCEPT ![s] = @ - 1]
          /\ pc' = [pc EXCEPT ![t] = AfterP(s)]
          /\ sem' = [sem EXCEPT ![t] = s]
          /\ UNCHANGED <<queue, currentThread, level, idle, readyList, status>>
      BY <1>8, <2>1 DEF P
    <3> QED
      BY <1>8, <2>1, <3>1, TakeType DEF TypeOK, P
  <2>2. CASE value[s] = 0
    <3>1. /\ Sleep(status) /\ UNCHANGED value
          /\ queue' = [queue EXCEPT ![s] = Append(@, t)]
          /\ pc' = [pc EXCEPT ![t] = "P"] /\ sem' = [sem EXCEPT ![t] = s]
      BY <1>8, <2>2 DEF P
    <3>2. queue' \in [Semaphores -> Seq(Thread)]
      BY <3>1, QueueType
    <3>3. /\ pc' \in [Thread -> Location]
          /\ sem' \in [Thread -> Semaphores \cup {NoThread}]
          /\ \A u \in Thread : pc'[u] = "P" => sem'[u] \in Semaphores
          /\ \A u \in Thread : pc'[u] = "acquired" => sem'[u] \in Lock
      BY <3>1 DEF TypeOK, Location
    <3>4. status \in [Thread -> Status]
      BY DEF TypeOK
    <3> QED
      BY <1>8, <3>1, <3>2, <3>3, <3>4, SleepType DEF TypeOK, P
  <2>3. value[s] > 0 \/ value[s] = 0
    BY DEF TypeOK
  <2> QED
    BY <2>1, <2>2, <2>3
<1>9. ASSUME NEW t \in Thread, NEW s \in Sem \ Device, V(t, s) PROVE TypeOK'
  BY <1>9, VType DEF TypeOK, V
<1>10. ASSUME NEW t \in Thread, NEW l \in Lock, Release(t, l) PROVE TypeOK'
  BY <1>10, VType DEF TypeOK, Release
<1>11. ASSUME NEW t \in Thread, NEW s \in Device, StartIO(t, s) PROVE TypeOK'
  BY <1>11 DEF TypeOK, StartIO, schedVars, synchVars
<1>12. ASSUME NEW s \in Device, Interrupt(s) PROVE TypeOK'
  BY <1>12, VType DEF TypeOK, Interrupt
<1>13. ASSUME NEW s \in Device, IdleInterrupt(s) PROVE TypeOK'
  <2>1. s \in Semaphores
    OBVIOUS
  <2>2. CASE VReadyList(s) # <<>>
    <3>1. Run(VStatus(s), VReadyList(s))
      BY <1>13, <2>2 DEF IdleInterrupt
    <3> QED
      BY <1>13, <2>1, <2>2, <3>1, VType, RunType DEF TypeOK, IdleInterrupt
  <2>3. CASE VReadyList(s) = <<>>
    BY <1>13, <2>1, <2>3, VType DEF TypeOK, IdleInterrupt, schedVars
  <2> QED
    BY <2>2, <2>3
<1>14. CASE UNCHANGED vars
  BY <1>14 DEF TypeOK, vars, schedVars, synchVars
<1> QED
  BY <1>1, <1>2, <1>3, <1>5, <1>6, <1>7, <1>8, <1>9, <1>10, <1>11, <1>12,
     <1>13, <1>14 DEF Next

(* The state of the thread system keeps its types: in particular the value *)
(* of a semaphore never becomes negative (synch.h: "always >= 0"), which   *)
(* is what the loop around Sleep in Semaphore::P is for.                   *)
THEOREM TypeCorrect == Spec => []TypeOK
<1>1. Init => TypeOK
  <2> SUFFICES ASSUME Init PROVE TypeOK
    OBVIOUS
  <2>1. <<>> \in Seq(Thread)
    OBVIOUS
  <2>2. value \in [Semaphores -> Nat]
    BY ThreadsAssumption DEF Init, Semaphores
  <2>3. queue \in [Semaphores -> Seq(Thread)]
    BY <2>1 DEF Init
  <2> QED
    BY <2>1, <2>2, <2>3, ThreadsAssumption DEF Init, TypeOK, Status, Location
<1> QED
  BY <1>1, StepType, PTL DEF Spec

-----------------------------------------------------------------------------
(* The value of a lock's semaphore is 1 while nobody is inside, 0 while    *)
(* somebody is; at most one thread is, and lockHolder names it as soon as  *)
(* it has stored itself there.                                             *)
LockInv ==
  /\ \A l \in Lock : value[l] \in {0, 1}
  /\ \A l \in Lock : value[l] = 1 <=> \A t \in Thread : ~Inside(t, l)
  /\ MutualExclusion
  /\ HolderIsKnown

(* An action that changes no lock's semaphore, no lockHolder and no        *)
(* thread's position relative to the locks preserves LockInv.              *)
LEMMA LockInvFrame ==
  ASSUME LockInv,
         \A l \in Lock : value'[l] = value[l] /\ lockHolder'[l] = lockHolder[l],
         \A t \in Thread : held'[t] = held[t],
         \A t \in Thread, l \in Lock :
           (pc'[t] = "acquired" /\ sem'[t] = l) <=> (pc[t] = "acquired" /\ sem[t] = l),
         TypeOK
  PROVE  LockInv'
<1>1. \A t \in Thread, l \in Lock : Inside(t, l)' <=> Inside(t, l)
  BY DEF Inside
<1>2. HolderIsKnown'
  BY DEF LockInv, HolderIsKnown, TypeOK
<1>3. MutualExclusion'
  BY <1>1 DEF LockInv, MutualExclusion
<1> QED
  BY <1>1, <1>2, <1>3 DEF LockInv

(* P takes a positive value of s for t: of a lock, t is then inside alone. *)
LEMMA LockInvTake ==
  ASSUME LockInv, TypeOK, ThreadsAssumption, NEW t \in Thread, NEW s \in Semaphores,
         s \notin held[t], value[s] > 0, pc[t] \in {"body", "P"},
         value' = [value EXCEPT ![s] = @ - 1],
         pc' = [pc EXCEPT ![t] = AfterP(s)],
         sem' = [sem EXCEPT ![t] = s],
         UNCHANGED <<lockHolder, held>>
  PROVE  LockInv'
<1> USE DEF Semaphores
<1>1. CASE s \in Lock
  <2>1. value[s] = 1 /\ \A u \in Thread : ~Inside(u, s)
    BY <1>1 DEF LockInv
  <2>2. Inside(t, s)' /\ value'[s] = 0
    BY <1>1, <2>1 DEF Inside, AfterP, TypeOK
  <2>3. \A u \in Thread, l \in Lock :
          <<u, l>> # <<t, s>> => (Inside(u, l)' <=> Inside(u, l))
    BY <1>1 DEF Inside, AfterP, TypeOK
  <2>4. \A l \in Lock : l # s => value'[l] = value[l]
    BY DEF TypeOK
  <2>5. MutualExclusion'
    BY <2>1, <2>3 DEF LockInv, MutualExclusion
  <2>6. HolderIsKnown'
    BY DEF LockInv, HolderIsKnown
  <2> QED
    BY <2>1, <2>2, <2>3, <2>4, <2>5, <2>6 DEF LockInv
<1>2. CASE s \notin Lock
  <2>1. \A u \in Thread, l \in Lock :
          (pc'[u] = "acquired" /\ sem'[u] = l) <=> (pc[u] = "acquired" /\ sem[u] = l)
    BY <1>2 DEF AfterP, TypeOK
  <2>2. \A l \in Lock : value'[l] = value[l]
    BY <1>2 DEF TypeOK
  <2> QED
    BY <2>1, <2>2, LockInvFrame
<1> QED
  BY <1>1, <1>2

(* Every other step: the threads asleep in P, the scheduler and the        *)
(* semaphores that belong to no lock play no part in LockInv.              *)
LEMMA LockInvStep ==
  TypeOK /\ LockInv /\ [Next]_vars => LockInv'
<1> SUFFICES ASSUME TypeOK, LockInv, [Next]_vars PROVE LockInv'
  OBVIOUS
<1> USE ThreadsAssumption
<1>1. ASSUME NEW t \in Thread, NEW u \in Thread, Fork(t, u) PROVE LockInv'
  BY <1>1, LockInvFrame DEF Fork, InBody, synchVars, TypeOK
<1>2. ASSUME NEW t \in Thread, Yield(t) PROVE LockInv'
  BY <1>2, LockInvFrame DEF Yield, synchVars
<1>3. ASSUME NEW t \in Thread, Resume(t) PROVE LockInv'
  BY <1>3, LockInvFrame DEF Resume, synchVars, TypeOK
<1>4. ASSUME NEW t \in Thread, ResumeP(t) PROVE LockInv'
  <2> DEFINE s == sem[t]
  <2>1. s \in Semaphores /\ pc[t] = "P" /\ UNCHANGED <<lockHolder, held>>
    BY <1>4 DEF TypeOK, ResumeP
  <2>2. sem' = [sem EXCEPT ![t] = s]
    BY <1>4 DEF TypeOK, ResumeP
  <2>3. CASE value[s] > 0 /\ s \notin held[t]
    <3>1. /\ value' = [value EXCEPT ![s] = @ - 1]
          /\ pc' = [pc EXCEPT ![t] = AfterP(s)]
      BY <1>4, <2>3 DEF ResumeP
    <3> QED
      BY <2>1, <2>2, <2>3, <3>1, LockInvTake
  <2>4. CASE value[s] = 0
    BY <1>4, <2>4, LockInvFrame DEF ResumeP
  <2>5. CASE value[s] > 0 /\ s \in held[t]
    \* impossible: t is inside s, so that the value is 0
    <3>1. s \in Lock /\ Inside(t, s)
      BY <2>5 DEF TypeOK, Inside
    <3>2. value[s] # 1
      BY <3>1 DEF LockInv
    <3> QED
      BY <2>5, <3>1, <3>2 DEF LockInv
  <2>6. value[s] > 0 \/ value[s] = 0
    BY <2>1 DEF TypeOK
  <2> QED
    BY <2>3, <2>4, <2>5, <2>6
<1>5. ASSUME NEW t \in Thread, Acquired(t) PROVE LockInv'
  <2> DEFINE l == sem[t]
  <2>1. l \in Lock /\ Inside(t, l) /\ UNCHANGED <<value, sem>>
    BY <1>5 DEF TypeOK, Acquired, Inside
  <2>2. \A u \in Thread, k \in Lock : Inside(u, k)' <=> Inside(u, k)
    BY <1>5, <2>1 DEF TypeOK, Acquired, Inside
  <2>3. \A u \in Thread : l \in held[u] => u = t
    BY <2>1 DEF LockInv, MutualExclusion, Inside
  <2>4. HolderIsKnown'
    BY <1>5, <2>1, <2>3 DEF LockInv, HolderIsKnown, Acquired, TypeOK
  <2>5. MutualExclusion'
    BY <2>2 DEF LockInv, MutualExclusion
  <2> QED
    BY <2>1, <2>2, <2>4, <2>5 DEF LockInv
<1>6. ASSUME NEW t \in Thread, Finish(t) PROVE LockInv'
  BY <1>6, LockInvFrame DEF Finish, InBody, synchVars, TypeOK
<1>7. ASSUME NEW t \in Thread, NEW s \in Semaphores, P(t, s) PROVE LockInv'
  <2>1. CASE value[s] > 0
    <3>1. /\ value' = [value EXCEPT ![s] = @ - 1]
          /\ pc' = [pc EXCEPT ![t] = AfterP(s)]
          /\ sem' = [sem EXCEPT ![t] = s]
          /\ s \notin held[t] /\ pc[t] = "body"
          /\ UNCHANGED <<lockHolder, held>>
      BY <1>7, <2>1 DEF P, InBody
    <3> QED
      BY <2>1, <3>1, LockInvTake
  <2>2. CASE value[s] = 0
    BY <1>7, <2>2, LockInvFrame DEF P, InBody, TypeOK
  <2>3. value[s] > 0 \/ value[s] = 0
    BY DEF TypeOK
  <2> QED
    BY <2>1, <2>2, <2>3
<1>8. ASSUME NEW s \in Sem, VValue(s) = value',
             UNCHANGED <<pc, sem, lockHolder, held>>
      PROVE  LockInv'
  <2>1. \A l \in Lock : value'[l] = value[l]
    BY <1>8 DEF VValue, TypeOK, Semaphores
  <2> QED
    BY <1>8, <2>1, LockInvFrame
<1>9. ASSUME NEW t \in Thread, NEW s \in Sem \ Device, V(t, s) PROVE LockInv'
  BY <1>8, <1>9 DEF V
<1>10. ASSUME NEW t \in Thread, NEW l \in Lock, Release(t, l) PROVE LockInv'
  <2>1. Inside(t, l) /\ l \in held[t] /\ pc[t] = "body"
    BY <1>10 DEF Release, InBody, Inside
  <2>2. \A u \in Thread : Inside(u, l) => u = t
    BY <2>1 DEF LockInv, MutualExclusion
  <2>3. value[l] = 0
    BY <2>1 DEF LockInv
  <2>4. value'[l] = 1 /\ \A k \in Lock : k # l => value'[k] = value[k]
    BY <1>10, <2>3 DEF Release, VValue, TypeOK, Semaphores
  <2>5. \A u \in Thread, k \in Lock :
          Inside(u, k)' <=> Inside(u, k) /\ <<u, k>> # <<t, l>>
    BY <1>10, <2>1 DEF Release, Inside, TypeOK
  <2>6. HolderIsKnown'
    BY <1>10, <2>2 DEF LockInv, HolderIsKnown, Release, TypeOK, Inside
  <2>7. MutualExclusion'
    BY <2>5 DEF LockInv, MutualExclusion
  <2> QED
    BY <2>2, <2>4, <2>5, <2>6, <2>7 DEF LockInv
<1>11. ASSUME NEW t \in Thread, NEW s \in Device, StartIO(t, s) PROVE LockInv'
  BY <1>11, LockInvFrame DEF StartIO, synchVars
<1>12. ASSUME NEW s \in Device, Interrupt(s) PROVE LockInv'
  BY <1>8, <1>12 DEF Interrupt
<1>13. ASSUME NEW s \in Device, IdleInterrupt(s) PROVE LockInv'
  BY <1>8, <1>13 DEF IdleInterrupt
<1>14. CASE UNCHANGED vars
  BY <1>14, LockInvFrame DEF vars, synchVars
<1> QED
  BY <1>1, <1>2, <1>3, <1>4, <1>5, <1>6, <1>7, <1>9, <1>10, <1>11, <1>12,
     <1>13, <1>14 DEF Next

(* At the start every lock is free.                                        *)
LEMMA LockInvInit == Init => LockInv
  BY ThreadsAssumption DEF Init, LockInv, MutualExclusion, HolderIsKnown, Inside,
     Semaphores

(* At most one thread is ever inside a lock.                               *)
THEOREM LockMutualExclusion == Spec => []MutualExclusion
<1>1. LockInv => MutualExclusion
  BY DEF LockInv
<1> QED
  BY <1>1, LockInvInit, LockInvStep, TypeCorrect, PTL DEF Spec

(* The assertion in Lock::Release never fails: lockHolder names the thread *)
(* that has acquired the lock until that thread releases it.               *)
THEOREM LockHolderIsKnown == Spec => []HolderIsKnown
<1>1. LockInv => HolderIsKnown
  BY DEF LockInv
<1> QED
  BY <1>1, LockInvInit, LockInvStep, TypeCorrect, PTL DEF Spec

-----------------------------------------------------------------------------
(* The refinement mapping is a function of who is inside which lock.       *)
LEMMA OwnerValue ==
  ASSUME MutualExclusion, NEW l \in Lock
  PROVE  /\ \A t \in Thread : Inside(t, l) => Owner[l] = t
         /\ (\A t \in Thread : ~Inside(t, l)) => Owner[l] = NoThread
<1>1. ASSUME NEW t \in Thread, Inside(t, l) PROVE Owner[l] = t
  <2>1. (CHOOSE u \in Thread : Inside(u, l)) = t
    BY <1>1 DEF MutualExclusion
  <2> QED
    BY <1>1, <2>1 DEF Owner
<1>2. ASSUME \A t \in Thread : ~Inside(t, l) PROVE Owner[l] = NoThread
  BY <1>2 DEF Owner
<1> QED
  BY <1>1, <1>2

(* Owner is determined by its value for each lock.                         *)
LEMMA OwnerIsFunction ==
  Owner = [l \in Lock |-> Owner[l]] /\ Owner' = [l \in Lock |-> Owner'[l]]
  BY DEF Owner

(* A lock that nobody enters or leaves keeps its owner.                    *)
LEMMA OwnerFrame ==
  ASSUME MutualExclusion, MutualExclusion', NEW l \in Lock,
         \A u \in Thread : Inside(u, l)' <=> Inside(u, l)
  PROVE  Owner'[l] = Owner[l]
<1>1. CASE \E t \in Thread : Inside(t, l)
  <2>1. PICK t \in Thread : Inside(t, l)
    BY <1>1
  <2>2. Owner[l] = t
    BY <2>1, OwnerValue
  <2>3. (CHOOSE u \in Thread : Inside(u, l)') = t
    BY <2>1 DEF MutualExclusion
  <2> QED
    BY <2>1, <2>2, <2>3 DEF Owner
<1>2. CASE \A t \in Thread : ~Inside(t, l)
  BY <1>2 DEF Owner
<1> QED
  BY <1>1, <1>2

(* A step that moves nobody into, out of or towards a lock is a stutter.   *)
LEMMA StutterFrame ==
  ASSUME MutualExclusion, MutualExclusion',
         \A u \in Thread, l \in Lock : Inside(u, l)' <=> Inside(u, l),
         \A u \in Thread, l \in Lock :
           (pc'[u] = "P" /\ sem'[u] = l) <=> (pc[u] = "P" /\ sem[u] = l)
  PROVE  UNCHANGED Abstract!vars
<1>1. \A l \in Lock : Owner'[l] = Owner[l]
  BY OwnerFrame
<1>2. Owner' = Owner
  BY <1>1, OwnerIsFunction
<1>3. Waiting' = Waiting
  BY DEF Waiting
<1> QED
  BY <1>2, <1>3 DEF Abstract!vars

(* Taking a positive value of a lock is Grant, of another semaphore a      *)
(* stutter; t may come from the body or from the queue.                    *)
LEMMA TakeRefines ==
  ASSUME TypeOK, LockInv, LockInv', ThreadsAssumption,
         NEW t \in Thread, NEW s \in Semaphores,
         value[s] > 0, pc[t] = "body" \/ (pc[t] = "P" /\ sem[t] = s),
         pc' = [pc EXCEPT ![t] = AfterP(s)], sem' = [sem EXCEPT ![t] = s],
         UNCHANGED held
  PROVE  [Abstract!Next]_(Abstract!vars)
<1> USE DEF Semaphores
<1>0. MutualExclusion /\ MutualExclusion'
  BY DEF LockInv
<1>1. CASE s \in Lock
  <2>1. \A u \in Thread : ~Inside(u, s)
    BY <1>1 DEF LockInv
  <2>2. Inside(t, s)' /\ \A u \in Thread, l \in Lock : l # s => (Inside(u, l)' <=> Inside(u, l))
    BY <1>1, <2>1 DEF Inside, AfterP, TypeOK
  <2>3. Owner[s] = NoThread
    BY <1>0, <1>1, <2>1, OwnerValue
  <2>4. (CHOOSE u \in Thread : Inside(u, s)') = t
    BY <1>0, <1>1, <2>2 DEF MutualExclusion
  <2>5. Owner'[s] = t
    BY <1>1, <2>2, <2>4 DEF Owner
  <2>6. \A l \in Lock : l # s => Owner'[l] = Owner[l]
    BY <1>0, <2>2, OwnerFrame
  <2>7. Owner' = [Owner EXCEPT ![s] = t]
    BY <2>5, <2>6, OwnerIsFunction
  <2>8. Waiting' = Waiting \ {<<t, s>>}
    <3>1. \A u \in Thread, l \in Lock :
            (pc'[u] = "P" /\ sem'[u] = l) <=>
              (pc[u] = "P" /\ sem[u] = l /\ (u # t \/ l # s))
      BY <1>1 DEF AfterP, TypeOK
    <3>2. \A w \in Thread \X Lock : w \in Waiting' <=> w \in Waiting /\ w # <<t, s>>
      BY <3>1 DEF Waiting
    <3>3. Waiting \subseteq Thread \X Lock /\ Waiting' \subseteq Thread \X Lock
      BY DEF Waiting
    <3> QED
      BY <3>2, <3>3
  <2>9. \A k \in Lock \ {s} : <<t, k>> \notin Waiting
    BY DEF Waiting
  <2>10. Abstract!Grant(t, s)
    BY <2>3, <2>7, <2>8, <2>9 DEF Abstract!Grant
  <2> QED
    BY <1>1, <2>10 DEF Abstract!Next
<1>2. CASE s \notin Lock
  <2>1. \A u \in Thread, l \in Lock : Inside(u, l)' <=> Inside(u, l)
    BY <1>2 DEF Inside, AfterP, TypeOK
  <2>2. \A u \in Thread, l \in Lock :
          (pc'[u] = "P" /\ sem'[u] = l) <=> (pc[u] = "P" /\ sem[u] = l)
    BY <1>2 DEF AfterP, TypeOK
  <2> QED
    BY <1>0, <2>1, <2>2, StutterFrame
<1> QED
  BY <1>1, <1>2

(* Every step is a step of the abstract lock or leaves it alone.           *)
LEMMA StepRefines ==
  TypeOK /\ LockInv /\ LockInv' /\ [Next]_vars => [Abstract!Next]_(Abstract!vars)
<1> SUFFICES ASSUME TypeOK, LockInv, LockInv', [Next]_vars
             PROVE  [Abstract!Next]_(Abstract!vars)
  OBVIOUS
<1> USE ThreadsAssumption
<1>0. MutualExclusion /\ MutualExclusion'
  BY DEF LockInv
<1>1. ASSUME UNCHANGED <<pc, sem, held>> PROVE UNCHANGED Abstract!vars
  BY <1>0, <1>1, StutterFrame DEF Inside
<1>2. ASSUME NEW t \in Thread, NEW u \in Thread, Fork(t, u)
      PROVE  UNCHANGED Abstract!vars
  <2>1. pc' = [pc EXCEPT ![u] = "root"] /\ pc[u] = "created" /\ UNCHANGED <<sem, held>>
    BY <1>2 DEF Fork, synchVars
  <2> QED
    BY <1>0, <2>1, StutterFrame DEF Inside, TypeOK
<1>3. ASSUME NEW t \in Thread, Yield(t) PROVE UNCHANGED Abstract!vars
  BY <1>1, <1>3 DEF Yield, synchVars
<1>4. ASSUME NEW t \in Thread, Resume(t) PROVE UNCHANGED Abstract!vars
  <2>1. /\ pc' = [pc EXCEPT ![t] = IF @ = "root" THEN "body" ELSE @]
        /\ UNCHANGED <<sem, held>>
    BY <1>4 DEF Resume, synchVars
  <2> QED
    BY <1>0, <2>1, StutterFrame DEF Inside, TypeOK
<1>5. ASSUME NEW t \in Thread, ResumeP(t) PROVE [Abstract!Next]_(Abstract!vars)
  <2> DEFINE s == sem[t]
  <2>1. s \in Semaphores /\ pc[t] = "P" /\ UNCHANGED <<sem, held>>
    BY <1>5 DEF TypeOK, ResumeP
  <2>2. sem' = [sem EXCEPT ![t] = s]
    BY <2>1 DEF TypeOK
  <2>3. CASE value[s] > 0
    <3>1. pc' = [pc EXCEPT ![t] = AfterP(s)]
      BY <1>5, <2>3 DEF ResumeP
    <3> QED
      BY <2>1, <2>2, <2>3, <3>1, TakeRefines
  <2>4. CASE value[s] = 0
    BY <1>1, <1>5, <2>1, <2>4 DEF ResumeP
  <2>5. value[s] > 0 \/ value[s] = 0
    BY <2>1 DEF TypeOK
  <2> QED
    BY <2>3, <2>4, <2>5
<1>6. ASSUME NEW t \in Thread, Acquired(t) PROVE UNCHANGED Abstract!vars
  <2>1. \A u \in Thread, l \in Lock : Inside(u, l)' <=> Inside(u, l)
    BY <1>6 DEF Acquired, Inside, TypeOK
  <2>2. \A u \in Thread, l \in Lock :
          (pc'[u] = "P" /\ sem'[u] = l) <=> (pc[u] = "P" /\ sem[u] = l)
    BY <1>6 DEF Acquired, TypeOK
  <2> QED
    BY <1>0, <2>1, <2>2, StutterFrame
<1>7. ASSUME NEW t \in Thread, Finish(t) PROVE UNCHANGED Abstract!vars
  <2>1. pc' = [pc EXCEPT ![t] = "finished"] /\ pc[t] = "body" /\ UNCHANGED <<sem, held>>
    BY <1>7 DEF Finish, InBody, synchVars
  <2> QED
    BY <1>0, <2>1, StutterFrame DEF Inside, TypeOK
<1>8. ASSUME NEW t \in Thread, NEW s \in Semaphores, P(t, s)
      PROVE  [Abstract!Next]_(Abstract!vars)
  <2>1. pc[t] = "body" /\ sem' = [sem EXCEPT ![t] = s] /\ UNCHANGED held
    BY <1>8 DEF P, InBody
  <2>2. CASE value[s] > 0
    <3>1. pc' = [pc EXCEPT ![t] = AfterP(s)]
      BY <1>8, <2>2 DEF P
    <3> QED
      BY <2>1, <2>2, <3>1, TakeRefines
  <2>3. CASE value[s] = 0
    <3>1. pc' = [pc EXCEPT ![t] = "P"]
      BY <1>8, <2>3 DEF P
    <3>2. \A u \in Thread, l \in Lock : Inside(u, l)' <=> Inside(u, l)
      BY <2>1, <3>1 DEF Inside, TypeOK
    <3>3. CASE s \in Lock
      <4>1. PICK u \in Thread : Inside(u, s)
        BY <2>3, <3>3 DEF LockInv
      <4>2. Owner[s] # NoThread
        BY <1>0, <3>3, <4>1, OwnerValue
      <4>3. Owner' = Owner
        <5>1. \A l \in Lock : Owner'[l] = Owner[l]
          BY <1>0, <3>2, OwnerFrame
        <5> QED
          BY <5>1, OwnerIsFunction
      <4>4. Waiting' = Waiting \cup {<<t, s>>}
        BY <2>1, <3>1, <3>3 DEF Waiting, TypeOK
      <4>5. \A k \in Lock : <<t, k>> \notin Waiting
        BY <2>1 DEF Waiting
      <4>6. Abstract!Wait(t, s)
        BY <4>2, <4>3, <4>4, <4>5 DEF Abstract!Wait
      <4> QED
        BY <3>3, <4>6 DEF Abstract!Next
    <3>4. CASE s \notin Lock
      BY <1>0, <2>1, <3>1, <3>2, <3>4, StutterFrame DEF TypeOK
    <3> QED
      BY <3>3, <3>4
  <2>4. value[s] > 0 \/ value[s] = 0
    BY DEF TypeOK
  <2> QED
    BY <2>2, <2>3, <2>4
<1>9. ASSUME NEW t \in Thread, NEW s \in Sem \ Device, V(t, s)
      PROVE  UNCHANGED Abstract!vars
  BY <1>1, <1>9 DEF V
<1>10. ASSUME NEW t \in Thread, NEW l \in Lock, Release(t, l)
       PROVE  [Abstract!Next]_(Abstract!vars)
  <2>1. /\ l \in held[t] /\ held' = [held EXCEPT ![t] = @ \ {l}]
        /\ pc[t] = "body" /\ UNCHANGED <<pc, sem>>
    BY <1>10 DEF Release, InBody
  <2>2. Inside(t, l) /\ \A u \in Thread : Inside(u, l) => u = t
    BY <1>0, <2>1 DEF Inside, MutualExclusion
  <2>3. /\ \A u \in Thread : ~Inside(u, l)'
        /\ \A u \in Thread, k \in Lock : k # l => (Inside(u, k)' <=> Inside(u, k))
    BY <2>1, <2>2 DEF Inside, TypeOK
  <2>4. Owner[l] = t
    BY <1>0, <2>2, OwnerValue
  <2>5. Owner'[l] = NoThread
    BY <2>3 DEF Owner
  <2>6. \A k \in Lock : k # l => Owner'[k] = Owner[k]
    BY <1>0, <2>3, OwnerFrame
  <2>7. Owner' = [Owner EXCEPT ![l] = NoThread]
    BY <2>5, <2>6, OwnerIsFunction
  <2>8. UNCHANGED Waiting /\ \A k \in Lock : <<t, k>> \notin Waiting
    BY <2>1 DEF Waiting
  <2>9. Abstract!Free(t, l)
    BY <2>4, <2>7, <2>8 DEF Abstract!Free
  <2> QED
    BY <2>9 DEF Abstract!Next
<1>11. ASSUME NEW t \in Thread, NEW s \in Device, StartIO(t, s)
       PROVE  UNCHANGED Abstract!vars
  BY <1>1, <1>11 DEF StartIO, synchVars
<1>12. ASSUME NEW s \in Device, Interrupt(s) \/ IdleInterrupt(s)
       PROVE  UNCHANGED Abstract!vars
  BY <1>1, <1>12 DEF Interrupt, IdleInterrupt
<1>13. CASE UNCHANGED vars
  BY <1>1, <1>13 DEF vars, synchVars
<1> QED
  BY <1>2, <1>3, <1>4, <1>5, <1>6, <1>7, <1>8, <1>9, <1>10, <1>11, <1>12,
     <1>13 DEF Next

(* The semaphore-based Lock of synch.cc implements the abstract lock: in   *)
(* particular a thread that is woken but overtaken has not acquired        *)
(* anything, and goes on waiting.                                          *)
THEOREM LockRefinement == Spec => ImplementsLockSpec
<1>1. Init => Abstract!Init
  <2> SUFFICES ASSUME Init PROVE Abstract!Init
    OBVIOUS
  <2>1. \A t \in Thread, l \in Lock : ~Inside(t, l)
    BY DEF Init, Inside
  <2>2. Owner = [l \in Lock |-> NoThread]
    BY <2>1 DEF Owner
  <2>3. Waiting = {}
    BY DEF Init, Waiting
  <2> QED
    BY <2>2, <2>3 DEF Abstract!Init
<1> QED
  BY <1>1, StepRefines, LockInvInit, LockInvStep, TypeCorrect, PTL
     DEF Spec, ImplementsLockSpec, Abstract!Spec
-----------------------------------------------------------------------------
(* OnePlace for a status st of the threads, a ready list rl, queues q and  *)
(* locations p, m of the threads, when thread run has the processor: the   *)
(* scheduler passes through such states in the middle of a step.           *)
Places(st, rl, q, p, m, run) ==
  /\ IsInjective(rl) /\ \A s \in Semaphores : IsInjective(q[s])
  /\ \A t \in Thread :
       /\ st[t] = "RUNNING" <=> t = run
       /\ st[t] = "READY" <=> t \in ToSet(rl)
       /\ \A s \in Semaphores :
            t \in ToSet(q[s]) <=> st[t] = "BLOCKED" /\ p[t] = "P" /\ m[t] = s

Running == IF idle THEN NoThread ELSE currentThread

(* What the status of a thread says about where it is in its code. *)
Alive == {"root", "body", "acquired", "P"}
StatusFits(st, p) ==
  \A t \in Thread :
    /\ st[t] = "JUST_CREATED" <=> p[t] = "created"
    /\ st[t] \in {"READY", "RUNNING"} => p[t] \in Alive
    /\ st[t] = "BLOCKED" => p[t] \in {"P", "finished"}
    /\ st[t] = "DELETED" => p[t] = "finished"

(* Interrupts are on in the body of a procedure and in Acquire; a carcass  *)
(* waits only while a thread that has just been dispatched has them off.   *)
ProcessorFits ==
  /\ level = "IntOn" => /\ ~idle /\ toBeDestroyed = NoThread
                        /\ pc[currentThread] \in {"body", "acquired"}
  /\ idle => /\ level = "IntOff" /\ readyList = <<>> /\ toBeDestroyed = NoThread
             /\ status[currentThread] = "BLOCKED"
  /\ toBeDestroyed # NoThread => /\ pc[toBeDestroyed] = "finished"
                                 /\ status[toBeDestroyed] = "BLOCKED"

SchedInv ==
  /\ Places(status, readyList, queue, pc, sem, Running)
  /\ StatusFits(status, pc)
  /\ ProcessorFits

-----------------------------------------------------------------------------
(* Run moves the head of the ready list to the processor.                  *)
LEMMA RunPlaces ==
  ASSUME NEW st \in [Thread -> Status], NEW rl \in Seq(Thread), NEW q, NEW p, NEW m,
         NoThread \notin Thread, rl # <<>>, Run(st, rl),
         Places(st, rl, q, p, m, NoThread), StatusFits(st, p)
  PROVE  /\ Places(status', readyList', q, p, m, Running')
         /\ StatusFits(status', p)
         /\ currentThread' \in Thread /\ st[currentThread'] = "READY"
         /\ status' = [st EXCEPT ![currentThread'] = "RUNNING"]
         /\ p[currentThread'] \in Alive
         /\ level' = "IntOff" /\ idle' = FALSE
<1> DEFINE h == Head(rl)
<1>1. h \in Thread /\ h \in ToSet(rl) /\ ToSet(rl) = ToSet(Tail(rl)) \cup {h}
  BY TailSet
<1>2. IsInjective(Tail(rl)) /\ h \notin ToSet(Tail(rl))
  BY TailSet DEF Places
<1>3. /\ currentThread' = h /\ readyList' = Tail(rl) /\ level' = "IntOff"
      /\ idle' = FALSE /\ status' = [st EXCEPT ![h] = "RUNNING"]
  BY DEF Run
<1> HIDE DEF h
<1>4. st[h] = "READY" /\ p[h] \in Alive
  BY <1>1 DEF Places, StatusFits
<1>5. Places(status', readyList', q, p, m, h)
  <2>1. \A t \in Thread : status'[t] = "RUNNING" <=> t = h
    BY <1>1, <1>3 DEF Places
  <2>2. \A t \in Thread : status'[t] = "READY" <=> t \in ToSet(readyList')
    BY <1>1, <1>2, <1>3 DEF Places
  <2>3. \A t \in Thread, s \in Semaphores :
          t \in ToSet(q[s]) <=> status'[t] = "BLOCKED" /\ p[t] = "P" /\ m[t] = s
    BY <1>1, <1>3, <1>4 DEF Places
  <2> QED
    BY <1>2, <1>3, <2>1, <2>2, <2>3 DEF Places
<1>6. StatusFits(status', p)
  BY <1>1, <1>3, <1>4 DEF StatusFits
<1> QED
  BY <1>1, <1>3, <1>4, <1>5, <1>6 DEF Running

(* Sleep of the current thread, which b already counts as blocked.         *)
LEMMA SleepPlaces ==
  ASSUME TypeOK, ThreadsAssumption,
         NEW st \in [Thread -> Status], NEW q, NEW p, NEW m, NEW b,
         b = [st EXCEPT ![currentThread] = "BLOCKED"], Sleep(st),
         Places(b, readyList, q, p, m, NoThread), StatusFits(b, p)
  PROVE  /\ Places(status', readyList', q, p, m, Running')
         /\ StatusFits(status', p)
         /\ level' = "IntOff" /\ currentThread' \in Thread
         /\ (idle' => readyList' = <<>> /\ status'[currentThread'] = "BLOCKED")
<1>1. b \in [Thread -> Status] /\ readyList \in Seq(Thread) /\ currentThread \in Thread
  BY DEF TypeOK, Status
<1>2. CASE readyList # <<>> /\ Run(b, readyList)
  <2>1. /\ Places(status', readyList', q, p, m, Running') /\ StatusFits(status', p)
        /\ currentThread' \in Thread /\ b[currentThread'] = "READY"
        /\ status' = [b EXCEPT ![currentThread'] = "RUNNING"]
        /\ level' = "IntOff" /\ idle' = FALSE
    BY <1>1, <1>2, RunPlaces DEF ThreadsAssumption
  <2> QED
    BY <1>1, <1>2, <2>1
<1>3. CASE /\ readyList = <<>> /\ status' = b /\ idle' = TRUE
           /\ level' = "IntOff" /\ UNCHANGED <<currentThread, readyList>>
  <2>1. Running' = NoThread
    BY <1>3 DEF Running
  <2> QED
    BY <1>1, <1>3, <2>1
<1> QED
  BY <1>2, <1>3 DEF Sleep

(* A thread other than the sleeping ones goes to the end of the queue of s *)
(* and sleeps.                                                             *)
LEMMA QueuePlaces ==
  ASSUME TypeOK, ThreadsAssumption, NEW st \in [Thread -> Status],
         NEW t \in Thread, NEW s \in Semaphores, NEW p, NEW m,
         Places(st, readyList, queue, pc, sem, t), StatusFits(st, pc),
         p = [pc EXCEPT ![t] = "P"], m = [sem EXCEPT ![t] = s]
  PROVE  LET b == [st EXCEPT ![t] = "BLOCKED"]
         IN  /\ Places(b, readyList, [queue EXCEPT ![s] = Append(@, t)], p, m, NoThread)
             /\ StatusFits(b, p)
<1> DEFINE b == [st EXCEPT ![t] = "BLOCKED"]
           q == [queue EXCEPT ![s] = Append(@, t)]
<1>1. queue[s] \in Seq(Thread) /\ queue \in [Semaphores -> Seq(Thread)]
      /\ pc \in [Thread -> Location] /\ sem \in [Thread -> Semaphores \cup {NoThread}]
      /\ readyList \in Seq(Thread)
  BY DEF TypeOK
<1>2. st[t] = "RUNNING" /\ t \notin ToSet(queue[s]) /\ t \notin ToSet(readyList)
  BY DEF Places
<1>3. ToSet(q[s]) = ToSet(queue[s]) \cup {t} /\ IsInjective(q[s])
  BY <1>1, <1>2, AppendSet DEF Places
<1>4. \A r \in Semaphores : r # s => q[r] = queue[r]
  BY <1>1
<1>5. b \in [Thread -> Status] /\ b[t] = "BLOCKED" /\ \A u \in Thread : u # t => b[u] = st[u]
  BY DEF Status
<1>6. /\ p[t] = "P" /\ m[t] = s
      /\ \A u \in Thread : u # t => p[u] = pc[u] /\ m[u] = sem[u]
  BY <1>1
<1> HIDE DEF b, q
<1>7. \A u \in Thread, r \in Semaphores :
        u \in ToSet(q[r]) <=> b[u] = "BLOCKED" /\ p[u] = "P" /\ m[u] = r
  <2> SUFFICES ASSUME NEW u \in Thread, NEW r \in Semaphores
               PROVE  u \in ToSet(q[r]) <=> b[u] = "BLOCKED" /\ p[u] = "P" /\ m[u] = r
    OBVIOUS
  <2>1. u \in ToSet(queue[r]) <=> st[u] = "BLOCKED" /\ pc[u] = "P" /\ sem[u] = r
    BY DEF Places
  <2>2. u \in ToSet(q[r]) <=> u \in ToSet(queue[r]) \/ (u = t /\ r = s)
    BY <1>3, <1>4
  <2> QED
    BY <1>2, <1>5, <1>6, <2>1, <2>2
<1>8. \A u \in Thread : /\ b[u] = "RUNNING" <=> u = NoThread
                        /\ b[u] = "READY" <=> u \in ToSet(readyList)
  BY <1>2, <1>5 DEF Places, ThreadsAssumption
<1>9. \A r \in Semaphores : IsInjective(q[r])
  BY <1>3, <1>4 DEF Places
<1>10. Places(b, readyList, q, p, m, NoThread)
  BY <1>7, <1>8, <1>9 DEF Places
<1>11. StatusFits(b, p)
  BY <1>5, <1>6 DEF StatusFits, Alive
<1> QED
  BY <1>10, <1>11 DEF b, q

(* V moves the first waiter, if there is one, to the ready list.           *)
LEMMA VPlaces ==
  ASSUME TypeOK, NEW s \in Semaphores, NEW run,
         Places(status, readyList, queue, pc, sem, run), StatusFits(status, pc)
  PROVE  /\ Places(VStatus(s), VReadyList(s), VQueue(s), pc, sem, run)
         /\ StatusFits(VStatus(s), pc)
         /\ \A t \in Thread : pc[t] = "finished" => VStatus(s)[t] = status[t]
<1>1. CASE queue[s] = <<>>
  BY <1>1 DEF VStatus, VReadyList, VQueue
<1>2. CASE queue[s] # <<>>
  <2> DEFINE h == Head(queue[s])
             q == VQueue(s)
             rl == VReadyList(s)
             st == VStatus(s)
  <2>1. queue[s] \in Seq(Thread) /\ queue \in [Semaphores -> Seq(Thread)]
        /\ readyList \in Seq(Thread) /\ status \in [Thread -> Status]
    BY DEF TypeOK
  <2>2. /\ h \in Thread /\ h \in ToSet(queue[s])
        /\ ToSet(queue[s]) = ToSet(Tail(queue[s])) \cup {h}
        /\ IsInjective(Tail(queue[s])) /\ h \notin ToSet(Tail(queue[s]))
    BY <1>2, <2>1, TailSet DEF Places
  <2>3. /\ rl = Append(readyList, h) /\ st = [status EXCEPT ![h] = "READY"]
        /\ q = [queue EXCEPT ![s] = Tail(queue[s])]
    BY <1>2 DEF VStatus, VReadyList, VQueue
  <2>4. status[h] = "BLOCKED" /\ pc[h] = "P" /\ sem[h] = s
    BY <2>2 DEF Places
  <2>5. h \notin ToSet(readyList)
    BY <2>2, <2>4 DEF Places
  <2>6. ToSet(rl) = ToSet(readyList) \cup {h} /\ IsInjective(rl)
    BY <2>1, <2>2, <2>3, <2>5, AppendSet DEF Places
  <2>7. q[s] = Tail(queue[s]) /\ \A r \in Semaphores : r # s => q[r] = queue[r]
    BY <2>1, <2>3
  <2>8. st[h] = "READY" /\ \A u \in Thread : u # h => st[u] = status[u]
    BY <2>1, <2>2, <2>3
  <2> HIDE DEF h, q, rl, st
  <2>9. \A u \in Thread, r \in Semaphores :
          u \in ToSet(q[r]) <=> st[u] = "BLOCKED" /\ pc[u] = "P" /\ sem[u] = r
    <3> SUFFICES ASSUME NEW u \in Thread, NEW r \in Semaphores
                 PROVE  u \in ToSet(q[r]) <=> st[u] = "BLOCKED" /\ pc[u] = "P" /\ sem[u] = r
      OBVIOUS
    <3>1. u \in ToSet(queue[r]) <=> status[u] = "BLOCKED" /\ pc[u] = "P" /\ sem[u] = r
      BY DEF Places
    <3>2. u \in ToSet(q[r]) <=> u \in ToSet(queue[r]) /\ ~(u = h /\ r = s)
      BY <2>2, <2>7
    <3> QED
      BY <2>4, <2>8, <3>1, <3>2
  <2>10. \A u \in Thread : /\ st[u] = "RUNNING" <=> u = run
                           /\ st[u] = "READY" <=> u \in ToSet(rl)
    BY <2>2, <2>4, <2>6, <2>8 DEF Places
  <2>11. \A r \in Semaphores : IsInjective(q[r])
    BY <2>2, <2>7 DEF Places
  <2>12. Places(st, rl, q, pc, sem, run)
    BY <2>6, <2>9, <2>10, <2>11 DEF Places
  <2>13. StatusFits(st, pc)
    BY <2>4, <2>8 DEF StatusFits, Alive
  <2> QED
    BY <2>2, <2>4, <2>8, <2>12, <2>13 DEF q, rl, st
<1> QED
  BY <1>1, <1>2

(* The carcass leaves; it is in no list.                                   *)
LEMMA DestroyPlaces ==
  ASSUME TypeOK, SchedInv, NEW run,
         Places(status, readyList, queue, pc, sem, run)
  PROVE  /\ Places(CheckToBeDestroyed, readyList, queue, pc, sem, run)
         /\ StatusFits(CheckToBeDestroyed, pc)
<1>1. CASE toBeDestroyed = NoThread
  BY <1>1 DEF CheckToBeDestroyed, SchedInv
<1>2. CASE toBeDestroyed # NoThread
  <2> DEFINE c == toBeDestroyed
             st == CheckToBeDestroyed
  <2>1. pc[c] = "finished" /\ status[c] = "BLOCKED" /\ c \in Thread
    BY <1>2 DEF SchedInv, ProcessorFits, TypeOK
  <2>2. st[c] = "DELETED" /\ \A u \in Thread : u # c => st[u] = status[u]
    BY <1>2, <2>1 DEF CheckToBeDestroyed, TypeOK
  <2> HIDE DEF c, st
  <2>3. Places(st, readyList, queue, pc, sem, run)
    BY <2>1, <2>2 DEF Places
  <2>4. StatusFits(st, pc)
    BY <2>1, <2>2 DEF StatusFits, SchedInv, Alive
  <2> QED
    BY <2>3, <2>4 DEF st
<1> QED
  BY <1>1, <1>2
-----------------------------------------------------------------------------
(* Main is on the processor and every list is empty.                       *)
LEMMA SchedInvInit == Init => SchedInv
<1> SUFFICES ASSUME Init PROVE SchedInv
  OBVIOUS
<1> USE ThreadsAssumption
<1>1. Running = Main
  BY DEF Init, Running
<1>2. Places(status, readyList, queue, pc, sem, Main)
  BY NoElements DEF Init, Places
<1> QED
  BY <1>1, <1>2 DEF Init, SchedInv, StatusFits, ProcessorFits, Alive

(* The steps in which the processor stays with the same thread and nobody  *)
(* goes to or leaves a list.                                               *)
LEMMA SchedInvFrame ==
  ASSUME TypeOK, SchedInv, UNCHANGED <<schedVars, queue>>,
         NEW t \in Thread, status[t] = "RUNNING",
         pc' = [pc EXCEPT ![t] = pc'[t]], sem' = [sem EXCEPT ![t] = sem'[t]],
         pc'[t] \in {"body", "acquired"}
  PROVE  SchedInv'
<1>1. /\ pc' \in [Thread -> Location \cup {pc'[t]}]
      /\ \A u \in Thread : u # t => pc'[u] = pc[u] /\ sem'[u] = sem[u]
  BY DEF TypeOK
<1>2. Running' = Running /\ UNCHANGED <<status, readyList, level, idle, toBeDestroyed, currentThread>>
  BY DEF Running, schedVars
<1>3. Places(status, readyList, queue, pc', sem', Running)
  BY <1>1 DEF SchedInv, Places
<1>4. StatusFits(status, pc')
  BY <1>1 DEF SchedInv, StatusFits, Alive
<1>5. ProcessorFits'
  BY <1>1, <1>2 DEF SchedInv, ProcessorFits, TypeOK
<1> QED
  BY <1>2, <1>3, <1>4, <1>5 DEF SchedInv

(* V by the running thread, by an interrupt handler, or by Release.        *)
LEMMA SchedInvV ==
  ASSUME TypeOK, SchedInv, NEW s \in Semaphores, level = "IntOn",
         readyList' = VReadyList(s), status' = VStatus(s), queue' = VQueue(s),
         UNCHANGED <<currentThread, level, idle, toBeDestroyed, pc, sem>>
  PROVE  SchedInv'
<1>1. /\ Places(status', readyList', queue', pc, sem, Running)
      /\ StatusFits(status', pc)
  BY VPlaces DEF SchedInv
<1>2. Running' = Running
  BY DEF Running
<1>3. ProcessorFits'
  BY DEF SchedInv, ProcessorFits
<1> QED
  BY <1>1, <1>2, <1>3 DEF SchedInv

(* After Sleep, when no carcass is left.                                   *)
LEMMA SchedInvSleep ==
  ASSUME TypeOK, ThreadsAssumption, NEW st \in [Thread -> Status], NEW b,
         b = [st EXCEPT ![currentThread] = "BLOCKED"], Sleep(st),
         Places(b, readyList, queue', pc', sem', NoThread), StatusFits(b, pc'),
         toBeDestroyed' = NoThread
  PROVE  SchedInv'
<1>1. /\ Places(status', readyList', queue', pc', sem', Running')
      /\ StatusFits(status', pc')
      /\ level' = "IntOff"
      /\ (idle' => readyList' = <<>> /\ status'[currentThread'] = "BLOCKED")
  BY SleepPlaces
<1> QED
  BY <1>1 DEF SchedInv, ProcessorFits

(* A thread that has been dispatched deletes the carcass and goes on.      *)
LEMMA SchedInvResume ==
  ASSUME TypeOK, SchedInv, NEW t \in Thread, t = currentThread, ~idle,
         toBeDestroyed' = NoThread, status' = CheckToBeDestroyed,
         pc' = [pc EXCEPT ![t] = pc'[t]], pc'[t] \in {"body", "acquired"},
         UNCHANGED <<currentThread, idle, readyList, sem, queue>>
  PROVE  SchedInv'
<1>1. Running' = Running /\ Running = t
  BY DEF Running
<1>2. /\ Places(status', readyList, queue, pc, sem, t)
      /\ StatusFits(status', pc)
  BY <1>1, DestroyPlaces DEF SchedInv
<1>3. \A u \in Thread : u # t => pc'[u] = pc[u]
  BY DEF TypeOK
<1>4. status'[t] = "RUNNING"
  BY <1>2 DEF Places
<1>5. Places(status', readyList, queue, pc', sem, t)
  BY <1>2, <1>3, <1>4 DEF Places
<1>6. StatusFits(status', pc')
  BY <1>2, <1>3, <1>4 DEF StatusFits, Alive
<1>7. ProcessorFits'
  BY DEF ProcessorFits
<1> QED
  BY <1>1, <1>5, <1>6, <1>7 DEF SchedInv

(* One step per action: who leaves a list arrives in exactly one other.    *)
LEMMA SchedInvStep == TypeOK /\ SchedInv /\ [Next]_vars => SchedInv'
<1> SUFFICES ASSUME TypeOK, SchedInv, [Next]_vars PROVE SchedInv'
  OBVIOUS
<1> USE ThreadsAssumption DEF Semaphores
<1>0. /\ Places(status, readyList, queue, pc, sem, Running)
      /\ StatusFits(status, pc) /\ ProcessorFits
  BY DEF SchedInv
<1>1. ASSUME NEW t \in Thread, t = currentThread, ~idle
      PROVE  status[t] = "RUNNING" /\ Running = t
  BY <1>0, <1>1 DEF Running, Places
<1>2. level = "IntOn" => ~idle /\ toBeDestroyed = NoThread
  BY <1>0 DEF ProcessorFits
<1>3. ASSUME NEW t \in Thread, NEW u \in Thread, Fork(t, u) PROVE SchedInv'
  <2>1. /\ pc[u] = "created" /\ pc' = [pc EXCEPT ![u] = "root"]
        /\ status' = [status EXCEPT ![u] = "READY"]
        /\ readyList' = Append(readyList, u)
        /\ UNCHANGED <<currentThread, level, idle, toBeDestroyed, sem, queue>>
    BY <1>3 DEF Fork, synchVars
  <2>2. status[u] = "JUST_CREATED"
    BY <1>0, <2>1 DEF StatusFits
  <2>3. /\ readyList \in Seq(Thread) /\ status \in [Thread -> Status]
        /\ pc \in [Thread -> Location]
    BY DEF TypeOK
  <2>4. u \notin ToSet(readyList)
    BY <1>0, <2>2 DEF Places
  <2>5. ToSet(readyList') = ToSet(readyList) \cup {u} /\ IsInjective(readyList')
    BY <1>0, <2>1, <2>3, <2>4, AppendSet DEF Places
  <2>6. Running' = Running
    BY <2>1 DEF Running
  <2>7. Places(status', readyList', queue', pc', sem', Running)
    BY <1>0, <2>1, <2>2, <2>3, <2>5 DEF Places
  <2>8. StatusFits(status', pc')
    BY <1>0, <2>1, <2>3 DEF StatusFits, Alive
  <2>9. currentThread # u /\ toBeDestroyed # u /\ currentThread \in Thread
    BY <1>0, <1>1, <1>2, <1>3, <2>1 DEF ProcessorFits, Fork, InBody, TypeOK
  <2>10. ProcessorFits'
    BY <1>0, <1>2, <1>3, <2>1, <2>3, <2>9 DEF ProcessorFits, Fork, InBody
  <2> QED
    BY <2>6, <2>7, <2>8, <2>10 DEF SchedInv
<1>4. ASSUME NEW t \in Thread, Yield(t) PROVE SchedInv'
  <2> DEFINE st == [status EXCEPT ![t] = "READY"]
             rl == Append(readyList, t)
  <2>1. /\ t = currentThread /\ Run(st, rl) /\ level = "IntOn"
        /\ UNCHANGED <<toBeDestroyed, pc, sem, queue>>
    BY <1>4 DEF Yield, synchVars
  <2>2. status[t] = "RUNNING" /\ Running = t /\ ~idle /\ toBeDestroyed = NoThread
    BY <1>1, <1>2, <2>1
  <2>3. /\ st \in [Thread -> Status] /\ readyList \in Seq(Thread)
        /\ st[t] = "READY" /\ \A u \in Thread : u # t => st[u] = status[u]
    BY DEF TypeOK, Status
  <2>4. t \notin ToSet(readyList)
    BY <1>0, <2>2 DEF Places
  <2>5. /\ rl \in Seq(Thread) /\ rl # <<>>
        /\ ToSet(rl) = ToSet(readyList) \cup {t} /\ IsInjective(rl)
    BY <1>0, <2>3, <2>4, AppendSet DEF Places
  <2> HIDE DEF st, rl
  <2>6. Places(st, rl, queue, pc, sem, NoThread)
    BY <1>0, <2>2, <2>3, <2>5 DEF Places
  <2>7. StatusFits(st, pc)
    BY <1>0, <2>2, <2>3 DEF StatusFits
  <2>8. /\ Places(status', readyList', queue, pc, sem, Running')
        /\ StatusFits(status', pc) /\ level' = "IntOff" /\ idle' = FALSE
    BY <2>1, <2>3, <2>5, <2>6, <2>7, RunPlaces
  <2> QED
    BY <2>1, <2>2, <2>8 DEF SchedInv, ProcessorFits
<1>5. ASSUME NEW t \in Thread, Resume(t) PROVE SchedInv'
  <2>1. pc'[t] \in {"body", "acquired"} /\ pc' = [pc EXCEPT ![t] = pc'[t]]
    BY <1>5 DEF Resume, TypeOK
  <2> QED
    BY <1>5, <2>1, SchedInvResume DEF Resume, synchVars
<1>6. CheckToBeDestroyed \in [Thread -> Status]
  BY DEF TypeOK, CheckToBeDestroyed, Status
<1>7. ASSUME NEW t \in Thread, ResumeP(t) PROVE SchedInv'
  <2> DEFINE s == sem[t]
             st == CheckToBeDestroyed
  <2>1. /\ s \in Semaphores /\ t = currentThread /\ pc[t] = "P" /\ ~idle
        /\ toBeDestroyed' = NoThread /\ sem' = sem
    BY <1>7 DEF TypeOK, ResumeP
  <2>2. CASE value[s] > 0
    <3>1. /\ pc' = [pc EXCEPT ![t] = AfterP(s)] /\ status' = CheckToBeDestroyed
          /\ UNCHANGED <<queue, currentThread, idle, readyList>>
      BY <1>7, <2>2 DEF ResumeP
    <3>2. pc'[t] \in {"body", "acquired"} /\ pc' = [pc EXCEPT ![t] = pc'[t]]
      BY <3>1 DEF AfterP, TypeOK
    <3> QED
      BY <2>1, <3>1, <3>2, SchedInvResume
  <2>3. CASE value[s] = 0
    <3>1. /\ Sleep(st) /\ pc' = pc /\ queue' = [queue EXCEPT ![s] = Append(@, t)]
      BY <1>7, <2>1, <2>3 DEF ResumeP
    <3>2. Places(st, readyList, queue, pc, sem, t) /\ StatusFits(st, pc)
      BY <1>0, <1>1, <2>1, DestroyPlaces
    <3>3. pc' = [pc EXCEPT ![t] = "P"] /\ sem' = [sem EXCEPT ![t] = s]
      BY <2>1, <3>1 DEF TypeOK
    <3>4. LET b == [st EXCEPT ![t] = "BLOCKED"]
          IN  Places(b, readyList, queue', pc', sem', NoThread) /\ StatusFits(b, pc')
      BY <1>6, <2>1, <3>1, <3>2, <3>3, QueuePlaces
    <3> QED
      BY <1>6, <2>1, <3>1, <3>4, SchedInvSleep
  <2>4. value[s] > 0 \/ value[s] = 0
    BY <2>1 DEF TypeOK
  <2> QED
    BY <2>2, <2>3, <2>4
<1>8. ASSUME NEW t \in Thread, Acquired(t) PROVE SchedInv'
  <2>1. /\ t = currentThread /\ ~idle /\ pc' = [pc EXCEPT ![t] = "body"]
        /\ UNCHANGED <<schedVars, sem, queue>>
    BY <1>2, <1>8 DEF Acquired
  <2>2. pc'[t] = "body" /\ sem' = [sem EXCEPT ![t] = sem'[t]]
    BY <2>1 DEF TypeOK
  <2> QED
    BY <1>1, <2>1, <2>2, SchedInvFrame
<1>9. ASSUME NEW t \in Thread, Finish(t) PROVE SchedInv'
  <2> DEFINE b == [status EXCEPT ![t] = "BLOCKED"]
  <2>1. /\ t = currentThread /\ level = "IntOn" /\ Sleep(status)
        /\ pc' = [pc EXCEPT ![t] = "finished"]
        /\ toBeDestroyed' = IF readyList # <<>> THEN t ELSE toBeDestroyed
        /\ UNCHANGED <<sem, queue>>
    BY <1>9 DEF Finish, InBody, synchVars
  <2>2. status[t] = "RUNNING" /\ Running = t /\ toBeDestroyed = NoThread /\ t # NoThread
    BY <1>1, <1>2, <2>1
  <2>3. /\ status \in [Thread -> Status] /\ pc' \in [Thread -> Location]
        /\ b[t] = "BLOCKED" /\ \A u \in Thread : u # t => b[u] = status[u]
        /\ pc'[t] = "finished" /\ \A u \in Thread : u # t => pc'[u] = pc[u]
    BY <2>1 DEF TypeOK, Location
  <2>4. b = [status EXCEPT ![currentThread] = "BLOCKED"]
    BY <2>1
  <2> HIDE DEF b
  <2>5. Places(b, readyList, queue, pc', sem, NoThread)
    BY <1>0, <2>2, <2>3 DEF Places
  <2>6. StatusFits(b, pc')
    BY <1>0, <2>3 DEF StatusFits, Alive
  <2>7. Places(status', readyList', queue, pc', sem, Running') /\ StatusFits(status', pc')
    BY <2>1, <2>3, <2>4, <2>5, <2>6, SleepPlaces
  <2>8. level' = "IntOff" /\ (idle' => readyList' = <<>> /\ status'[currentThread'] = "BLOCKED")
    BY <2>1, <2>3, <2>4, <2>5, <2>6, SleepPlaces
  <2>9. idle' => readyList = <<>>
    BY <2>1 DEF Sleep, Run
  <2>10. status'[t] = "BLOCKED"
    <3>1. CASE readyList # <<>> /\ Run(b, readyList)
      <4>1. Head(readyList) \in ToSet(readyList)
        BY <3>1, TailSet DEF TypeOK
      <4>2. b[t] # "READY" /\ t # Head(readyList)
        BY <2>3, <2>5, <4>1 DEF Places
      <4> QED
        BY <2>3, <3>1, <4>2 DEF Run
    <3>2. CASE status' = b
      BY <2>3, <3>2
    <3> QED
      BY <2>1, <2>4, <3>1, <3>2 DEF Sleep
  <2>11. ProcessorFits'
    BY <2>1, <2>2, <2>3, <2>8, <2>9, <2>10 DEF ProcessorFits
  <2> QED
    BY <2>1, <2>7, <2>11 DEF SchedInv
<1>10. ASSUME NEW t \in Thread, NEW s \in Semaphores, P(t, s) PROVE SchedInv'
  <2>1. /\ t = currentThread /\ level = "IntOn" /\ sem' = [sem EXCEPT ![t] = s]
        /\ toBeDestroyed' = toBeDestroyed
    BY <1>10 DEF P, InBody
  <2>2. /\ status[t] = "RUNNING" /\ Running = t /\ ~idle
        /\ toBeDestroyed = NoThread /\ status \in [Thread -> Status]
    BY <1>1, <1>2, <2>1 DEF TypeOK
  <2>3. CASE value[s] > 0
    <3>1. /\ pc' = [pc EXCEPT ![t] = AfterP(s)]
          /\ UNCHANGED <<queue, currentThread, level, idle, readyList, status>>
      BY <1>10, <2>3 DEF P
    <3>2. /\ pc'[t] \in {"body", "acquired"} /\ pc' = [pc EXCEPT ![t] = pc'[t]]
          /\ sem' = [sem EXCEPT ![t] = sem'[t]]
      BY <2>1, <3>1 DEF AfterP, TypeOK
    <3> QED
      BY <2>1, <2>2, <3>1, <3>2, SchedInvFrame DEF schedVars
  <2>4. CASE value[s] = 0
    <3>1. /\ Sleep(status) /\ queue' = [queue EXCEPT ![s] = Append(@, t)]
          /\ pc' = [pc EXCEPT ![t] = "P"]
      BY <1>10, <2>4 DEF P
    <3>2. LET b == [status EXCEPT ![t] = "BLOCKED"]
          IN  Places(b, readyList, queue', pc', sem', NoThread) /\ StatusFits(b, pc')
      BY <1>0, <2>1, <2>2, <3>1, QueuePlaces
    <3> QED
      BY <2>1, <2>2, <3>1, <3>2, SchedInvSleep
  <2>5. value[s] > 0 \/ value[s] = 0
    BY DEF TypeOK
  <2> QED
    BY <2>3, <2>4, <2>5
<1>11. ASSUME NEW t \in Thread, NEW s \in Sem \ Device, V(t, s) PROVE SchedInv'
  BY <1>11, SchedInvV DEF V, InBody
<1>12. ASSUME NEW t \in Thread, NEW l \in Lock, Release(t, l) PROVE SchedInv'
  BY <1>12, SchedInvV DEF Release, InBody
<1>13. ASSUME NEW s \in Device, Interrupt(s) PROVE SchedInv'
  BY <1>13, SchedInvV DEF Interrupt
<1>14. ASSUME NEW s \in Device, IdleInterrupt(s) PROVE SchedInv'
  <2> DEFINE c == currentThread
  <2>1. /\ s \in Semaphores /\ idle /\ Running = NoThread /\ UNCHANGED <<pc, sem>>
        /\ queue' = VQueue(s)
    BY <1>14 DEF IdleInterrupt, Running
  <2>2. /\ Places(VStatus(s), VReadyList(s), VQueue(s), pc, sem, NoThread)
        /\ StatusFits(VStatus(s), pc)
        /\ \A t \in Thread : pc[t] = "finished" => VStatus(s)[t] = status[t]
    BY <1>0, <2>1, VPlaces
  <2>3. /\ c \in Thread /\ status[c] = "BLOCKED" /\ toBeDestroyed = NoThread
        /\ level = "IntOff" /\ readyList = <<>>
    BY <1>0, <2>1 DEF ProcessorFits, TypeOK
  <2>4. CASE VReadyList(s) # <<>>
    <3>1. /\ Run(VStatus(s), VReadyList(s))
          /\ toBeDestroyed' = IF pc[c] = "finished" THEN c ELSE toBeDestroyed
      BY <1>14, <2>4 DEF IdleInterrupt
    <3>2. /\ Places(status', readyList', VQueue(s), pc, sem, Running')
          /\ StatusFits(status', pc) /\ level' = "IntOff" /\ idle' = FALSE
          /\ currentThread' \in Thread /\ pc[currentThread'] \in Alive
          /\ status' = [VStatus(s) EXCEPT ![currentThread'] = "RUNNING"]
      BY <2>1, <2>2, <2>4, <3>1, VType, RunPlaces
    <3>3. pc[c] = "finished" => status'[c] = "BLOCKED"
      BY <2>1, <2>2, <2>3, <3>2, VType DEF Alive
    <3>4. ProcessorFits'
      BY <2>1, <2>3, <3>1, <3>2, <3>3 DEF ProcessorFits
    <3> QED
      BY <2>1, <3>2, <3>4 DEF SchedInv
  <2>5. CASE VReadyList(s) = <<>>
    <3>1. UNCHANGED schedVars
      BY <1>14, <2>5 DEF IdleInterrupt
    <3>2. queue[s] = <<>>
      BY <2>1, <2>5, AppendType, HeadTailType DEF VReadyList, TypeOK
    <3> QED
      BY <1>0, <2>1, <3>1, <3>2
         DEF VQueue, SchedInv, schedVars, Running, ProcessorFits
  <2> QED
    BY <2>4, <2>5
<1>15. ASSUME UNCHANGED <<schedVars, queue, pc, sem>> PROVE SchedInv'
  BY <1>0, <1>15 DEF SchedInv, schedVars, Running, ProcessorFits
<1>16. ASSUME NEW t \in Thread, NEW s \in Device, StartIO(t, s) PROVE SchedInv'
  BY <1>15, <1>16 DEF StartIO, synchVars
<1>17. CASE UNCHANGED vars
  BY <1>15, <1>17 DEF vars, synchVars
<1> QED
  BY <1>3, <1>4, <1>5, <1>7, <1>8, <1>9, <1>10, <1>11, <1>12, <1>13, <1>14,
     <1>16, <1>17 DEF Next

(* The inductive invariant holds in every state.                           *)
LEMMA SchedInvariant == Spec => []SchedInv
  BY SchedInvInit, SchedInvStep, TypeCorrect, PTL DEF Spec

(* Every thread is in exactly one place: on the processor, once in the     *)
(* ready list, or once in the queue of the semaphore it sleeps on.         *)
THEOREM ThreadsInOnePlace == Spec => []OnePlace
<1>1. TypeOK /\ SchedInv => OnePlace
  BY ThreadsAssumption DEF SchedInv, Places, OnePlace, Running
<1> QED
  BY <1>1, SchedInvariant, TypeCorrect, PTL

(* The assertions on the carcass of a finished thread never fail: there is *)
(* never a second one, it is not the running thread, and it is deleted     *)
(* before interrupts come on again.                                        *)
THEOREM CarcassAssertsHold == Spec => []CarcassAsserts
<1>1. ASSUME TypeOK, SchedInv PROVE CarcassAsserts
  <2>1. ProcessorFits /\ Places(status, readyList, queue, pc, sem, Running)
    BY <1>1 DEF SchedInv
  <2>2. currentThread \in Thread /\ level \in {"IntOn", "IntOff"}
    BY <1>1 DEF TypeOK
  <2>3. status[currentThread] = IF idle THEN "BLOCKED" ELSE "RUNNING"
    BY <2>1, <2>2 DEF ProcessorFits, Places, Running
  <2> QED
    BY <2>1, <2>2, <2>3 DEF ProcessorFits, CarcassAsserts
<1> QED
  BY <1>1, SchedInvariant, TypeCorrect, PTL
-----------------------------------------------------------------------------
(* No wake-up is lost.  WakeupAt says it of one semaphore, so that a step  *)
(* has to be looked at only where it happens.                              *)
WakeupAt(s) == queue[s] # <<>> => value[s] <= Cardinality(Woken(s))

(* Woken threads can be counted: V adds one, a P that returns takes one.   *)
LEMMA WokenCount ==
  ASSUME ThreadsAssumption, NEW s, NEW t
  PROVE  /\ IsFiniteSet(Woken(s)) /\ Cardinality(Woken(s)) \in Nat
         /\ t \notin Woken(s) =>
              Cardinality(Woken(s) \cup {t}) = Cardinality(Woken(s)) + 1
         /\ t \in Woken(s) =>
              Cardinality(Woken(s) \ {t}) = Cardinality(Woken(s)) - 1
<1>1. IsFiniteSet(Woken(s))
  BY FS_Subset DEF Woken, ThreadsAssumption
<1>2. t \notin Woken(s) => Cardinality(Woken(s) \cup {t}) = Cardinality(Woken(s)) + 1
  BY <1>1, FS_AddElement
<1>3. t \in Woken(s) => Cardinality(Woken(s) \ {t}) = Cardinality(Woken(s)) - 1
  BY <1>1, FS_RemoveElement
<1> QED
  BY <1>1, <1>2, <1>3, FS_CardinalityType

(* Nothing happens to s.                                                   *)
LEMMA WakeupFrame ==
  ASSUME NEW s, WakeupAt(s), queue'[s] = queue[s], value'[s] = value[s],
         \A u \in Thread : (pc'[u] = "P" /\ sem'[u] = s) <=> (pc[u] = "P" /\ sem[u] = s)
  PROVE  WakeupAt(s)'
<1>1. Woken(s)' = Woken(s)
  BY DEF Woken
<1> QED
  BY <1>1 DEF WakeupAt

(* Nothing happens to any queue, and no thread enters or leaves P.         *)
LEMMA WakeupStutter ==
  ASSUME NoLostWakeup, UNCHANGED <<queue, value, sem>>,
         \A u \in Thread : pc'[u] = "P" <=> pc[u] = "P"
  PROVE  NoLostWakeup'
<1>1. \A s \in Semaphores : WakeupAt(s)
  BY DEF NoLostWakeup, WakeupAt
<1>2. \A s \in Semaphores : WakeupAt(s)'
  BY <1>1, WakeupFrame
<1> QED
  BY <1>2 DEF NoLostWakeup, WakeupAt

(* V moves the first waiter among the woken ones and raises the value.     *)
LEMMA WakeupV ==
  ASSUME TypeOK, SchedInv, NoLostWakeup, ThreadsAssumption, NEW s \in Semaphores,
         queue' = VQueue(s), value' = VValue(s), UNCHANGED <<pc, sem>>
  PROVE  NoLostWakeup'
<1>1. /\ queue \in [Semaphores -> Seq(Thread)] /\ value \in [Semaphores -> Nat]
      /\ queue[s] \in Seq(Thread)
  BY DEF TypeOK
<1>2. \A r \in Semaphores : r # s => queue'[r] = queue[r] /\ value'[r] = value[r]
  BY <1>1 DEF VQueue, VValue
<1>3. \A r \in Semaphores : r # s => WakeupAt(r)'
  BY <1>2, WakeupFrame DEF NoLostWakeup, WakeupAt
<1>4. CASE queue[s] = <<>>
  BY <1>3, <1>4 DEF NoLostWakeup, WakeupAt, VQueue
<1>5. CASE queue[s] # <<>>
  <2> DEFINE h == Head(queue[s])
  <2>1. /\ h \in Thread /\ h \in ToSet(queue[s]) /\ IsInjective(queue[s])
        /\ ToSet(queue[s]) = ToSet(Tail(queue[s])) \cup {h}
        /\ h \notin ToSet(Tail(queue[s]))
    BY <1>1, <1>5, TailSet DEF SchedInv, Places
  <2>2. queue'[s] = Tail(queue[s]) /\ value'[s] = value[s] + 1
    BY <1>1, <1>5 DEF VQueue, VValue
  <2> HIDE DEF h
  <2>3. pc[h] = "P" /\ sem[h] = s
    BY <2>1 DEF SchedInv, Places
  <2>4. h \notin Woken(s) /\ Woken(s)' = Woken(s) \cup {h}
    BY <2>1, <2>2, <2>3 DEF Woken
  <2>5. Cardinality(Woken(s)') = Cardinality(Woken(s)) + 1
    BY <2>4, WokenCount
  <2>6. value[s] <= Cardinality(Woken(s)) /\ Cardinality(Woken(s)) \in Nat
    BY <1>5, WokenCount DEF NoLostWakeup
  <2>7. value'[s] <= Cardinality(Woken(s)')
    BY <1>1, <2>2, <2>5, <2>6
  <2> QED
    BY <1>3, <2>7 DEF NoLostWakeup, WakeupAt
<1> QED
  BY <1>4, <1>5

(* A thread that finds a positive value takes one unit of it.              *)
LEMMA WakeupTake ==
  ASSUME TypeOK, NoLostWakeup, ThreadsAssumption,
         NEW t \in Thread, NEW s \in Semaphores, value[s] > 0,
         pc[t] = "P" => sem[t] = s /\ t \notin ToSet(queue[s]),
         value' = [value EXCEPT ![s] = @ - 1], queue' = queue,
         pc' = [pc EXCEPT ![t] = AfterP(s)], sem' = [sem EXCEPT ![t] = s]
  PROVE  NoLostWakeup'
<1>1. value \in [Semaphores -> Nat]
  BY DEF TypeOK
<1>2. pc'[t] # "P" /\ \A u \in Thread : u # t => pc'[u] = pc[u] /\ sem'[u] = sem[u]
  BY DEF TypeOK, AfterP
<1>3. \A r \in Semaphores : r # s => WakeupAt(r)'
  <2> SUFFICES ASSUME NEW r \in Semaphores, r # s PROVE WakeupAt(r)'
    OBVIOUS
  <2>1. \A u \in Thread : (pc'[u] = "P" /\ sem'[u] = r) <=> (pc[u] = "P" /\ sem[u] = r)
    BY <1>2
  <2>2. value'[r] = value[r] /\ queue'[r] = queue[r] /\ WakeupAt(r)
    BY <1>1 DEF NoLostWakeup, WakeupAt
  <2> QED
    BY <2>1, <2>2, WakeupFrame
<1>4. Woken(s)' = Woken(s) \ {t}
  BY <1>2 DEF Woken
<1>5. Cardinality(Woken(s)') >= Cardinality(Woken(s)) - 1 /\ Cardinality(Woken(s)) \in Nat
  <2>1. CASE t \in Woken(s)
    BY <1>4, <2>1, WokenCount
  <2>2. CASE t \notin Woken(s)
    <3>1. Woken(s)' = Woken(s)
      BY <1>4, <2>2
    <3>2. Cardinality(Woken(s)) \in Nat
      BY WokenCount
    <3> QED
      BY <3>1, <3>2
  <2> QED
    BY <2>1, <2>2
<1>6. Cardinality(Woken(s)') \in Nat
  BY <1>4, <1>5, WokenCount, FS_RemoveElement, FS_CardinalityType
<1>7. value'[s] = value[s] - 1 /\ value[s] \in Nat
  BY <1>1
<1>8. WakeupAt(s)'
  BY <1>5, <1>6, <1>7 DEF NoLostWakeup, WakeupAt
<1> QED
  BY <1>3, <1>8 DEF NoLostWakeup, WakeupAt

(* A thread that finds 0 joins the queue.                                  *)
LEMMA WakeupQueue ==
  ASSUME TypeOK, NoLostWakeup, ThreadsAssumption,
         NEW t \in Thread, NEW s \in Semaphores, value[s] = 0, value' = value,
         pc[t] = "P" => sem[t] = s, queue' = [queue EXCEPT ![s] = Append(@, t)],
         pc' = [pc EXCEPT ![t] = "P"], sem' = [sem EXCEPT ![t] = s]
  PROVE  NoLostWakeup'
<1>1. \A u \in Thread : u # t => pc'[u] = pc[u] /\ sem'[u] = sem[u]
  BY DEF TypeOK
<1>2. sem'[t] = s
  BY DEF TypeOK
<1>3. \A r \in Semaphores : r # s => WakeupAt(r)'
  <2> SUFFICES ASSUME NEW r \in Semaphores, r # s PROVE WakeupAt(r)'
    OBVIOUS
  <2>1. \A u \in Thread : (pc'[u] = "P" /\ sem'[u] = r) <=> (pc[u] = "P" /\ sem[u] = r)
    BY <1>1, <1>2
  <2>2. value'[r] = value[r] /\ queue'[r] = queue[r] /\ WakeupAt(r)
    BY DEF NoLostWakeup, WakeupAt, TypeOK
  <2> QED
    BY <2>1, <2>2, WakeupFrame
<1>4. Cardinality(Woken(s)') \in Nat
  <2>1. Woken(s)' \subseteq Thread
    BY DEF Woken
  <2> QED
    BY <2>1, FS_Subset, FS_CardinalityType DEF ThreadsAssumption
<1>5. WakeupAt(s)'
  BY <1>4 DEF WakeupAt
<1> QED
  BY <1>3, <1>5 DEF NoLostWakeup, WakeupAt

(* Only V raises a value and only V empties a queue, one for one.          *)
LEMMA WakeupStep ==
  TypeOK /\ SchedInv /\ NoLostWakeup /\ [Next]_vars => NoLostWakeup'
<1> SUFFICES ASSUME TypeOK, SchedInv, NoLostWakeup, [Next]_vars PROVE NoLostWakeup'
  OBVIOUS
<1> USE ThreadsAssumption DEF Semaphores
<1>1. ASSUME UNCHANGED <<pc, sem, queue, value>> PROVE NoLostWakeup'
  BY <1>1, WakeupStutter
<1>2. ASSUME NEW t \in Thread, NEW u \in Thread, Fork(t, u) PROVE NoLostWakeup'
  BY <1>2, WakeupStutter DEF Fork, synchVars, TypeOK
<1>3. ASSUME NEW t \in Thread, Yield(t) PROVE NoLostWakeup'
  BY <1>1, <1>3 DEF Yield, synchVars
<1>4. ASSUME NEW t \in Thread, Resume(t) PROVE NoLostWakeup'
  BY <1>4, WakeupStutter DEF Resume, synchVars, TypeOK
<1>5. ASSUME NEW t \in Thread, ResumeP(t) PROVE NoLostWakeup'
  <2> DEFINE s == sem[t]
  <2>1. s \in Semaphores /\ t = currentThread /\ pc[t] = "P" /\ ~idle
    BY <1>5 DEF TypeOK, ResumeP
  <2>2. sem' = [sem EXCEPT ![t] = s]
    BY <1>5 DEF TypeOK, ResumeP
  <2>3. status[t] = "RUNNING" /\ t \notin ToSet(queue[s])
    BY <2>1 DEF SchedInv, Places, Running
  <2>4. CASE value[s] > 0
    <3>1. /\ value' = [value EXCEPT ![s] = @ - 1] /\ queue' = queue
          /\ pc' = [pc EXCEPT ![t] = AfterP(s)]
      BY <1>5, <2>4 DEF ResumeP
    <3> QED
      BY <2>1, <2>2, <2>3, <2>4, <3>1, WakeupTake
  <2>5. CASE value[s] = 0
    <3>1. /\ value' = value /\ queue' = [queue EXCEPT ![s] = Append(@, t)]
          /\ pc' = [pc EXCEPT ![t] = "P"]
      BY <1>5, <2>1, <2>5 DEF ResumeP, TypeOK
    <3> QED
      BY <2>1, <2>2, <2>5, <3>1, WakeupQueue
  <2>6. value[s] > 0 \/ value[s] = 0
    BY <2>1 DEF TypeOK
  <2> QED
    BY <2>4, <2>5, <2>6
<1>6. ASSUME NEW t \in Thread, Acquired(t) PROVE NoLostWakeup'
  BY <1>6, WakeupStutter DEF Acquired, TypeOK
<1>7. ASSUME NEW t \in Thread, Finish(t) PROVE NoLostWakeup'
  BY <1>7, WakeupStutter DEF Finish, InBody, synchVars, TypeOK
<1>8. ASSUME NEW t \in Thread, NEW s \in Semaphores, P(t, s) PROVE NoLostWakeup'
  <2>1. pc[t] = "body" /\ sem' = [sem EXCEPT ![t] = s]
    BY <1>8 DEF P, InBody
  <2>2. CASE value[s] > 0
    <3>1. /\ value' = [value EXCEPT ![s] = @ - 1] /\ queue' = queue
          /\ pc' = [pc EXCEPT ![t] = AfterP(s)]
      BY <1>8, <2>2 DEF P
    <3> QED
      BY <2>1, <2>2, <3>1, WakeupTake
  <2>3. CASE value[s] = 0
    <3>1. /\ value' = value /\ queue' = [queue EXCEPT ![s] = Append(@, t)]
          /\ pc' = [pc EXCEPT ![t] = "P"]
      BY <1>8, <2>3 DEF P
    <3> QED
      BY <2>1, <2>3, <3>1, WakeupQueue
  <2>4. value[s] > 0 \/ value[s] = 0
    BY DEF TypeOK
  <2> QED
    BY <2>2, <2>3, <2>4
<1>9. ASSUME NEW t \in Thread, NEW s \in Sem \ Device, V(t, s) PROVE NoLostWakeup'
  BY <1>9, WakeupV DEF V
<1>10. ASSUME NEW t \in Thread, NEW l \in Lock, Release(t, l) PROVE NoLostWakeup'
  BY <1>10, WakeupV DEF Release
<1>11. ASSUME NEW t \in Thread, NEW s \in Device, StartIO(t, s) PROVE NoLostWakeup'
  BY <1>1, <1>11 DEF StartIO, synchVars
<1>12. ASSUME NEW s \in Device, Interrupt(s) \/ IdleInterrupt(s) PROVE NoLostWakeup'
  BY <1>12, WakeupV DEF Interrupt, IdleInterrupt
<1>13. CASE UNCHANGED vars
  BY <1>1, <1>13 DEF vars, synchVars
<1> QED
  BY <1>2, <1>3, <1>4, <1>5, <1>6, <1>7, <1>8, <1>9, <1>10, <1>11, <1>12, <1>13
     DEF Next

(* No wake-up is lost: while a thread sleeps in the queue of a semaphore,  *)
(* its value is covered by woken threads that will look at it.             *)
THEOREM WakeupsAreNotLost == Spec => []NoLostWakeup
<1>1. Init => NoLostWakeup
  BY DEF Init, NoLostWakeup
<1> QED
  BY <1>1, WakeupStep, SchedInvariant, TypeCorrect, PTL DEF Spec
=============================================================================
