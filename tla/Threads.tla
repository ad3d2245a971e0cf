------------------------------ MODULE Threads ------------------------------
(***************************************************************************)
(* The Nachos thread system: Thread, Scheduler, Semaphore and Lock on one  *)
(* simulated processor (threads/thread.cc, scheduler.cc, synch.cc) and the *)
(* interrupts that make it preemptive (machine/interrupt.cc).              *)
(*                                                                         *)
(* Kernel code is interrupted only where it turns interrupts back on:      *)
(* Interrupt::SetLevel(IntOn) calls OneTick, which runs the handlers that  *)
(* are due and, when the timer's handler asked for it, Yields for the      *)
(* current thread.  Everything between two such points is one action here. *)
(* Whether an interrupt is due at a tick is left open: any device with an  *)
(* operation outstanding may complete, the timer may always expire.        *)
(*                                                                         *)
(* The threads run an arbitrary program over the operations, within the    *)
(* conventions synch.h asks of callers: a lock is released by the thread   *)
(* that acquired it, it is not acquired twice by the same thread, and a    *)
(* thread finishes without locks.                                          *)
(***************************************************************************)
EXTENDS Naturals, FiniteSets, SequencesExt

CONSTANTS
  Thread,        \* Thread objects
  Main,          \* the thread Nachos starts in
  NoThread,      \* NULL
  Sem,           \* semaphores used as such
  Device,        \* the ones of Sem that an interrupt handler Vs
  Lock,          \* locks; each is identified with the semaphore inside it
  InitialValue,  \* initial value of every semaphore of Sem
  MaxValue       \* bound on the value of a semaphore, to keep TLC finite

Semaphores == Sem \cup Lock

ASSUME ThreadsAssumption ==
  /\ IsFiniteSet(Thread)
  /\ Main \in Thread
  /\ NoThread \notin Thread
  /\ Device \subseteq Sem
  /\ Sem \cap Lock = {}
  /\ MaxValue \in Nat \ {0}
  /\ InitialValue \in [Sem -> 0 .. MaxValue]

VARIABLES
  currentThread, \* kernel->currentThread
  level,         \* interrupt level: IntOn or IntOff
  idle,          \* currentThread sleeps with nobody ready: Interrupt::Idle
  readyList,     \* Scheduler::readyList
  toBeDestroyed, \* Scheduler::toBeDestroyed
  status,        \* Thread::status; DELETED once the destructor has run
  pc,            \* where a thread is in its code (see Location)
  sem,           \* the semaphore whose P a thread is in
  value,         \* Semaphore::value
  queue,         \* Semaphore::queue
  lockHolder,    \* Lock::lockHolder
  held,          \* locks a thread has acquired and not yet released
  pending        \* devices with an operation, hence an interrupt, to come

schedVars == <<currentThread, level, idle, readyList, toBeDestroyed, status>>
synchVars == <<value, queue, lockHolder, held>>
vars == <<schedVars, pc, sem, synchVars, pending>>

-----------------------------------------------------------------------------
(* Where a thread is:                                                      *)
(*   created   not forked yet                                              *)
(*   root      forked, not yet dispatched: will run ThreadRoot and Begin   *)
(*   body      in its procedure, between two operations                    *)
(*   P         in the while loop of Semaphore::P, asleep in queue or woken *)
(*   acquired  in Lock::Acquire, after P and before lockHolder is stored   *)
(*   finished  in Finish, will not run again                               *)
Location == {"created", "root", "body", "P", "acquired", "finished"}
Status == {"JUST_CREATED", "RUNNING", "READY", "BLOCKED", "DELETED"}

TypeOK ==
  /\ currentThread \in Thread
  /\ level \in {"IntOn", "IntOff"}
  /\ idle \in BOOLEAN
  /\ readyList \in Seq(Thread)
  /\ toBeDestroyed \in Thread \cup {NoThread}
  /\ status \in [Thread -> Status]
  /\ pc \in [Thread -> Location]
  /\ sem \in [Thread -> Semaphores \cup {NoThread}]
  /\ \A t \in Thread : pc[t] = "P" => sem[t] \in Semaphores
  /\ \A t \in Thread : pc[t] = "acquired" => sem[t] \in Lock
  /\ value \in [Semaphores -> Nat]
  /\ queue \in [Semaphores -> Seq(Thread)]
  /\ lockHolder \in [Lock -> Thread \cup {NoThread}]
  /\ held \in [Thread -> SUBSET Lock]
  /\ pending \subseteq Device

(* Kernel::Initialize: the main thread runs, interrupts are enabled, no    *)
(* other thread is ready.                                                  *)
Init ==
  /\ currentThread = Main
  /\ level = "IntOn"
  /\ idle = FALSE
  /\ readyList = <<>>
  /\ toBeDestroyed = NoThread
  /\ status = [t \in Thread |-> IF t = Main THEN "RUNNING" ELSE "JUST_CREATED"]
  /\ pc = [t \in Thread |-> IF t = Main THEN "body" ELSE "created"]
  /\ sem = [t \in Thread |-> NoThread]
  /\ value = [s \in Semaphores |-> IF s \in Lock THEN 1 ELSE InitialValue[s]]
  /\ queue = [s \in Semaphores |-> <<>>]
  /\ lockHolder = [l \in Lock |-> NoThread]
  /\ held = [t \in Thread |-> {}]
  /\ pending = {}

-----------------------------------------------------------------------------
(* Scheduler::Run(FindNextToRun()): the first thread of the ready list rl  *)
(* gets the processor; it continues, at Resume, with interrupts off.  st   *)
(* is the status of the threads when Run is called.                        *)
Run(st, rl) ==
  /\ currentThread' = Head(rl)
  /\ readyList' = Tail(rl)
  /\ status' = [st EXCEPT ![Head(rl)] = "RUNNING"]
  /\ level' = "IntOff"
  /\ idle' = FALSE

(* Thread::Sleep of the current thread: run the next ready thread, or wait *)
(* in Interrupt::Idle for an interrupt to make one ready.                  *)
Sleep(st) ==
  LET blocked == [st EXCEPT ![currentThread] = "BLOCKED"]
  IN  \/ /\ readyList # <<>>
         /\ Run(blocked, readyList)
      \/ /\ readyList = <<>>
         /\ status' = blocked
         /\ idle' = TRUE
         /\ level' = "IntOff"
         /\ UNCHANGED <<currentThread, readyList>>

(* Scheduler::CheckToBeDestroyed: status once the carcass is deleted. *)
CheckToBeDestroyed ==
  IF toBeDestroyed = NoThread THEN status
  ELSE [status EXCEPT ![toBeDestroyed] = "DELETED"]

(* Where P leaves its caller: a lock's Acquire still has to note the holder. *)
AfterP(s) == IF s \in Lock THEN "acquired" ELSE "body"

(* Semaphore::V: wake the first waiter if there is one, and increment. *)
(* Slip: the waiter leaves the queue and is not made ready. *)
VReadyListForgetsWaiter(s) == readyList
VReadyList(s) ==
  IF queue[s] = <<>> THEN readyList ELSE Append(readyList, Head(queue[s]))
VStatus(s) ==
  IF queue[s] = <<>> THEN status ELSE [status EXCEPT ![Head(queue[s])] = "READY"]
(* Slip: the waiter is woken and stays in the queue. *)
VQueueKeepsWaiter(s) == queue
VQueue(s) ==
  IF queue[s] = <<>> THEN queue ELSE [queue EXCEPT ![s] = Tail(queue[s])]
VValue(s) == [value EXCEPT ![s] = @ + 1]

(* The current thread t is in its procedure, at a tick, interrupts on. *)
InBody(t) == /\ t = currentThread
             /\ level = "IntOn"
             /\ pc[t] = "body"

-----------------------------------------------------------------------------
(* Thread::Fork: t makes u ready. *)
Fork(t, u) ==
  /\ InBody(t)
  /\ pc[u] = "created"
  /\ pc' = [pc EXCEPT ![u] = "root"]
  /\ status' = [status EXCEPT ![u] = "READY"]
  /\ readyList' = Append(readyList, u)
  /\ UNCHANGED <<currentThread, level, idle, toBeDestroyed, sem, synchVars,
                 pending>>

(* Slip: Yield puts the thread at the front of the ready list. *)
YieldToFront(t) ==
  /\ t = currentThread
  /\ level = "IntOn"
  /\ readyList # <<>>
  /\ Run([status EXCEPT ![t] = "READY"], <<t>> \o readyList)
  /\ UNCHANGED <<toBeDestroyed, pc, sem, synchVars, pending>>

(* Thread::Yield, called by t itself or, when the timer has expired, by    *)
(* OneTick at any point where t has turned interrupts back on.             *)
Yield(t) ==
  /\ t = currentThread
  /\ level = "IntOn"
  /\ readyList # <<>>
  /\ Run([status EXCEPT ![t] = "READY"], Append(readyList, t))
  /\ UNCHANGED <<toBeDestroyed, pc, sem, synchVars, pending>>

(* Slip: a thread that is resumed forgets CheckToBeDestroyed. *)
ResumeLeavesCarcass(t) ==
  /\ t = currentThread
  /\ level = "IntOff" /\ ~idle
  /\ pc[t] \in {"root", "body", "acquired"}
  /\ level' = "IntOn"
  /\ pc' = [pc EXCEPT ![t] = IF @ = "root" THEN "body" ELSE @]
  /\ UNCHANGED <<currentThread, idle, readyList, toBeDestroyed, status, sem,
                 synchVars, pending>>

(* What Scheduler::Run does after SWITCH returns in the thread that is     *)
(* dispatched, or Thread::Begin in a new one, up to where interrupts come  *)
(* on again: delete the thread that has finished, and go on from where it  *)
(* left the processor.                                                     *)
Resume(t) ==
  /\ t = currentThread
  /\ level = "IntOff" /\ ~idle
  /\ pc[t] \in {"root", "body", "acquired"}
  /\ toBeDestroyed' = NoThread
  /\ status' = CheckToBeDestroyed
  /\ level' = "IntOn"
  /\ pc' = [pc EXCEPT ![t] = IF @ = "root" THEN "body" ELSE @]
  /\ UNCHANGED <<currentThread, idle, readyList, sem, synchVars, pending>>

(* Slip: P tests the value once (if), not again after the sleep (while). *)
ResumePTestsOnce(t) ==
  LET s == sem[t]
  IN  /\ t = currentThread
      /\ level = "IntOff" /\ ~idle
      /\ pc[t] = "P"
      /\ toBeDestroyed' = NoThread
      /\ value' = [value EXCEPT ![s] = @ - 1]
      /\ pc' = [pc EXCEPT ![t] = AfterP(s)]
      /\ status' = CheckToBeDestroyed
      /\ level' = "IntOn"
      /\ UNCHANGED <<queue, currentThread, idle, readyList, sem, lockHolder,
                     held, pending>>

(* The same for a thread that slept in P: it looks at the value again, and *)
(* goes back to the end of the queue when someone was faster.              *)
ResumeP(t) ==
  LET s == sem[t]
  IN  /\ t = currentThread
      /\ level = "IntOff" /\ ~idle
      /\ pc[t] = "P"
      /\ toBeDestroyed' = NoThread
      /\ \/ /\ value[s] > 0
            /\ value' = [value EXCEPT ![s] = @ - 1]
            /\ pc' = [pc EXCEPT ![t] = AfterP(s)]
            /\ status' = CheckToBeDestroyed
            /\ level' = "IntOn"
            /\ UNCHANGED <<queue, currentThread, idle, readyList>>
         \/ /\ value[s] = 0
            /\ queue' = [queue EXCEPT ![s] = Append(@, t)]
            /\ Sleep(CheckToBeDestroyed)
            /\ UNCHANGED <<value, pc>>
      /\ UNCHANGED <<sem, lockHolder, held, pending>>

(* Semaphore::P, on a semaphore or at the start of Lock::Acquire. *)
P(t, s) ==
  /\ InBody(t)
  /\ s \notin held[t]
  /\ sem' = [sem EXCEPT ![t] = s]
  /\ \/ /\ value[s] > 0
        /\ value' = [value EXCEPT ![s] = @ - 1]
        /\ pc' = [pc EXCEPT ![t] = AfterP(s)]
        /\ UNCHANGED <<queue, currentThread, level, idle, readyList, status>>
     \/ /\ value[s] = 0
        /\ queue' = [queue EXCEPT ![s] = Append(@, t)]
        /\ pc' = [pc EXCEPT ![t] = "P"]
        /\ Sleep(status)
        /\ UNCHANGED value
  /\ UNCHANGED <<toBeDestroyed, lockHolder, held, pending>>

(* Semaphore::V called by a thread. *)
V(t, s) ==
  /\ InBody(t)
  /\ value[s] < MaxValue
  /\ readyList' = VReadyList(s)
  /\ status' = VStatus(s)
  /\ queue' = VQueue(s)
  /\ value' = VValue(s)
  /\ UNCHANGED <<currentThread, level, idle, toBeDestroyed, pc, sem, lockHolder,
                 held, pending>>

(* The rest of Lock::Acquire: store lockHolder. *)
Acquired(t) ==
  /\ t = currentThread
  /\ level = "IntOn"
  /\ pc[t] = "acquired"
  /\ lockHolder' = [lockHolder EXCEPT ![sem[t]] = t]
  /\ held' = [held EXCEPT ![t] = @ \cup {sem[t]}]
  /\ pc' = [pc EXCEPT ![t] = "body"]
  /\ UNCHANGED <<schedVars, sem, value, queue, pending>>

(* Lock::Release: clear lockHolder, then V the lock's semaphore. *)
Release(t, l) ==
  /\ InBody(t)
  /\ l \in held[t]
  /\ held' = [held EXCEPT ![t] = @ \ {l}]
  /\ lockHolder' = [lockHolder EXCEPT ![l] = NoThread]
  /\ readyList' = VReadyList(l)
  /\ status' = VStatus(l)
  /\ queue' = VQueue(l)
  /\ value' = VValue(l)
  /\ UNCHANGED <<currentThread, level, idle, toBeDestroyed, pc, sem, pending>>

(* Thread::Finish: sleep for ever; the next thread to run deletes t. *)
Finish(t) ==
  /\ InBody(t)
  /\ held[t] = {}
  /\ pc' = [pc EXCEPT ![t] = "finished"]
  /\ Sleep(status)
  /\ toBeDestroyed' = IF readyList # <<>> THEN t ELSE toBeDestroyed
  /\ UNCHANGED <<sem, synchVars, pending>>

(* A thread starts an operation of a device, which schedules an interrupt. *)
StartIO(t, s) ==
  /\ InBody(t)
  /\ s \notin pending
  /\ value[s] < MaxValue
  /\ pending' = pending \cup {s}
  /\ UNCHANGED <<schedVars, pc, sem, synchVars>>

(* The interrupt handler of device s, a V with interrupts off, called by   *)
(* OneTick in the running thread ...                                       *)
Interrupt(s) ==
  /\ s \in pending
  /\ level = "IntOn"
  /\ pending' = pending \ {s}
  /\ readyList' = VReadyList(s)
  /\ status' = VStatus(s)
  /\ queue' = VQueue(s)
  /\ value' = VValue(s)
  /\ UNCHANGED <<currentThread, level, idle, toBeDestroyed, pc, sem, lockHolder,
                 held>>

(* ... or by Idle, below the Sleep of a thread that found nobody ready:    *)
(* Sleep then looks at the ready list again.                               *)
IdleInterrupt(s) ==
  /\ s \in pending
  /\ idle
  /\ pending' = pending \ {s}
  /\ queue' = VQueue(s)
  /\ value' = VValue(s)
  /\ \/ /\ VReadyList(s) # <<>>
        /\ Run(VStatus(s), VReadyList(s))
        /\ toBeDestroyed' = IF pc[currentThread] = "finished" THEN currentThread
                                                             ELSE toBeDestroyed
     \/ /\ VReadyList(s) = <<>>
        /\ UNCHANGED schedVars
  /\ UNCHANGED <<pc, sem, lockHolder, held>>

Next ==
  \/ \E t, u \in Thread : Fork(t, u)
  \/ \E t \in Thread :
        \/ Yield(t)
        \/ Resume(t)
        \/ ResumeP(t)
        \/ Acquired(t)
        \/ Finish(t)
        \/ \E s \in Semaphores : P(t, s)
        \/ \E s \in Sem \ Device : V(t, s)
        \/ \E l \in Lock : Release(t, l)
        \/ \E s \in Device : StartIO(t, s)
  \/ \E s \in Device : Interrupt(s) \/ IdleInterrupt(s)

(* The processor executes the current thread's code; the timer expires     *)
(* again and again, so a thread that stays on the processor is made to     *)
(* yield; a device completes what it was asked to do; and a thread leaves  *)
(* its critical sections.                                                  *)
Fairness ==
  /\ \A t \in Thread : /\ WF_vars(Resume(t) \/ ResumeP(t))
                       /\ WF_vars(Yield(t))
                       /\ SF_vars(Acquired(t))
                       /\ \A l \in Lock : SF_vars(Release(t, l))
  /\ \A s \in Device : WF_vars(Interrupt(s) \/ IdleInterrupt(s))

Spec == Init /\ [][Next]_vars
FairSpec == Spec /\ Fairness
-----------------------------------------------------------------------------
(* The thread is inside lock l: from the moment P returned until it calls  *)
(* Release.                                                                *)
Inside(t, l) == l \in held[t] \/ (pc[t] = "acquired" /\ sem[t] = l)

(* Every thread is in exactly one place: RUNNING on the processor, READY   *)
(* and once in readyList, or asleep in P and once in the queue of the one  *)
(* semaphore it waits for.  A thread in two lists would be dispatched      *)
(* twice, one in none would be lost.                                       *)
OnePlace ==
  /\ IsInjective(readyList) /\ \A s \in Semaphores : IsInjective(queue[s])
  /\ \A t \in Thread :
       /\ status[t] = "RUNNING" <=> t = currentThread /\ ~idle
       /\ status[t] = "READY" <=> t \in ToSet(readyList)
       /\ \A s \in Semaphores :
            t \in ToSet(queue[s]) <=> status[t] = "BLOCKED" /\ pc[t] = "P" /\ sem[t] = s

(* At most one thread is inside a lock (synch.h: Acquire waits "until the  *)
(* lock is FREE"), although a woken waiter competes with newcomers.        *)
MutualExclusion ==
  \A l \in Lock : \A t, u \in Thread : Inside(t, l) /\ Inside(u, l) => t = u

(* ASSERT(IsHeldByCurrentThread()) in Lock::Release and in Condition never *)
(* fails for a thread that has acquired the lock: nobody overwrites        *)
(* lockHolder between its Acquire and its Release, although lockHolder is  *)
(* stored after P has turned interrupts on again, and cleared before V.    *)
HolderIsKnown ==
  \A t \in Thread : \A l \in held[t] : lockHolder[l] = t

(* The threads that have been taken out of the queue of s and have not     *)
(* looked at its value again.                                              *)
Woken(s) == {t \in Thread : /\ pc[t] = "P" /\ sem[t] = s
                            /\ t \notin ToSet(queue[s])}

(* No wake-up is lost: while threads sleep in the queue of s, every unit of *)
(* its value is matched by a woken thread that is about to look at it, so   *)
(* that nobody sleeps on a semaphore that is free for good.                 *)
NoLostWakeup ==
  \A s \in Semaphores : queue[s] # <<>> => value[s] <= Cardinality(Woken(s))

(* ASSERT(toBeDestroyed == NULL) in Scheduler::Run and ASSERT(this !=      *)
(* kernel->currentThread) in ~Thread never fail: there is at most one      *)
(* carcass, it is not the running thread and it is deleted before the      *)
(* thread that runs next does anything else.                               *)
CarcassAsserts ==
  /\ toBeDestroyed # NoThread =>
       /\ toBeDestroyed # currentThread
       /\ pc[toBeDestroyed] = "finished" /\ status[toBeDestroyed] = "BLOCKED"
       /\ level = "IntOff" /\ ~idle
  /\ status[currentThread] # "DELETED"

(* thread.cc on Yield: a thread put on the end of the ready list "will     *)
(* eventually be re-scheduled".                                            *)
ReadyRuns ==
  \A t \in Thread : status[t] = "READY" ~> status[t] = "RUNNING"

(* A lock that is free while threads wait for it is taken by someone: the  *)
(* V of Release always leaves somebody on the way to it.                   *)
FreeLockIsTaken ==
  \A l \in Lock : value[l] = 1 /\ queue[l] # <<>> ~> value[l] = 0

(* The lock implements LockSpec: its owner is the thread inside it, and    *)
(* the threads asleep in, or woken from, P of its semaphore wait.          *)
Owner == [l \in Lock |-> IF \E t \in Thread : Inside(t, l)
                         THEN CHOOSE t \in Thread : Inside(t, l)
                         ELSE NoThread]
Waiting == {w \in Thread \X Lock : pc[w[1]] = "P" /\ sem[w[1]] = w[2]}
Abstract == INSTANCE LockSpec WITH owner <- Owner, waiting <- Waiting
ImplementsLockSpec == Abstract!Spec
=============================================================================
