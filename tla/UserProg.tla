------------------------------- MODULE UserProg -------------------------------
(***************************************************************************)
(* User programs in Assignment 2: the instructions of several programs,    *)
(* interleaved by the time slices of Alarm and Scheduler, on top of Paging *)
(* (machine/mipssim.cc, threads/alarm.cc, threads/scheduler.cc), and the   *)
(* system calls of userprog/exception.cc: Fork_POS starts a kernel thread  *)
(* under a pid, Wait_POS waits for it, and the thread ends in Exit_POS.    *)
(*                                                                         *)
(* The thread Fork_POS starts has pid q until it finishes, in the step in  *)
(* which it gives q back, so that q names the thread.  Interrupts other    *)
(* than the timer's, arithmetic and the system call Halt are left out.     *)
(***************************************************************************)
EXTENDS Paging

CONSTANTS
  NoThread,    \* nobody
  Wild,        \* what an entry of waiting_list holds that was never set
  Code,        \* the pages instructions are fetched from
  MaxThreads,  \* MAX_THREADS: pids are below it (256 in the code)
  Cleared,     \* entries of waiting_list that the constructor clears (100)
  Quantum      \* the least number of instructions in a time slice

Pid == 0 .. MaxThreads - 1
Thread == Program \cup Pid

ASSUME UserProgAssumption ==
  /\ NoThread \notin Thread
  /\ Wild \notin Thread \cup {NoThread}
  /\ Program \cap Pid = {}
  /\ Code \subseteq Page /\ Code # {}
  /\ MaxThreads \in Nat \ {0}
  /\ Cleared \in 0 .. MaxThreads
  /\ Quantum \in Nat \ {0}

VARIABLES
  current,    \* kernel->currentThread
  readyList,  \* Scheduler::readyList
  table,      \* machine->pageTable: the program it belongs to
  slice,      \* instructions since the last dispatch, up to Quantum
  pending,    \* the instruction a program restarts after a page fault
  seen,       \* what the last load returned
  pid,        \* Scheduler::pid, where NextPid starts to look
  occupied,   \* Scheduler::pid_occupied
  waiting,    \* Scheduler::waiting_list
  machine     \* "up", until one of the two happens that end it:
              \* "hung"  NextPid looks for a free pid without end
              \* "wild"  ReadyToRun was given what is not a thread

sched == <<current, readyList, table, slice>>
pids == <<pid, occupied, waiting>>
vars == <<paging, sched, pids, pending, seen, machine>>

(* An instruction is fetched from a page and may use a page of data or a   *)
(* pid; "write" is the system call Write of something in one page, and     *)
(* "add" any instruction or system call that does not touch this state.    *)
Instr ==
       [op : {"load", "write"}, fetch : Code, page : Page, arg : {Zero}]
  \cup [op : {"store"}, fetch : Code, page : Page \ Code, arg : Value]
  \cup [op : {"add", "fork", "exit"}, fetch : Code, page : {0}, arg : {Zero}]
  \cup [op : {"wait"}, fetch : Code, page : {0}, arg : Pid]
NoInstr == [op |-> "none", fetch |-> 0, page |-> 0, arg |-> Zero]

(* An instruction that could not be fetched: which one it is, is not known *)
(* before it is fetched again.                                             *)
Unfetched(c) == [op |-> "unfetched", fetch |-> c, page |-> 0, arg |-> Zero]

(* An instruction that uses a page of data needs it in memory. *)
UsesPage(i) == i.op \in {"load", "store"}

TypeOK ==
  /\ PagingTypeOK
  /\ current \in Thread \cup {NoThread}
  /\ readyList \in Seq(Thread) /\ IsInjective(readyList)
  /\ table \in Program \cup {NoThread}
  /\ slice \in 0 .. Quantum
  /\ pending \in [Program -> Instr \cup {NoInstr} \cup {Unfetched(c) : c \in Code}]
  /\ seen \in Value
  /\ pid \in 0 .. MaxThreads
  /\ occupied \subseteq Pid
  /\ waiting \in [Pid -> Program \cup {NoThread, Wild}]
  /\ machine \in {"up", "hung", "wild"}

(* main has forked a thread for each program, in some order, and finished. *)
(* The entries of waiting_list that the constructor of Scheduler leaves    *)
(* alone hold whatever was in memory, which may be zero.                   *)
Init ==
  /\ PagingInit
  /\ \E order \in SetToSeqs(Program) :
       current = Head(order) /\ readyList = Tail(order)
  /\ table = NoThread
  /\ slice = 0
  /\ pending = [p \in Program |-> NoInstr]
  /\ seen = Zero
  /\ pid = 0
  /\ occupied = {}
  /\ \E stale \in SUBSET (Cleared .. MaxThreads - 1) :
       waiting = [q \in Pid |-> IF q \in stale THEN Wild ELSE NoThread]
  /\ machine = "up"
-----------------------------------------------------------------------------
(* Slip: the page table register is left as it is. *)
DispatchWithoutRestore(list) ==
  /\ IF list = <<>>
     THEN current' = NoThread /\ readyList' = list
     ELSE current' = Head(list) /\ readyList' = Tail(list)
  /\ slice' = 0
  /\ UNCHANGED table

(* Scheduler::Run of the first of the ready threads: the timer's slice     *)
(* starts, and a thread that has an address space restores its page table. *)
(* With nobody ready the machine idles.                                    *)
Dispatch(list) ==
  /\ IF list = <<>>
     THEN current' = NoThread /\ readyList' = list
     ELSE current' = Head(list) /\ readyList' = Tail(list)
  /\ slice' = 0
  /\ table' = IF list # <<>> /\ Head(list) \in loaded THEN Head(list) ELSE table

(* Slip: the timer does not look how long the thread has run. *)
PreemptAtOnce ==
  /\ machine = "up"
  /\ current # NoThread
  /\ slice > 0
  /\ readyList # <<>>
  /\ Dispatch(Append(readyList, current))
  /\ UNCHANGED <<paging, pids, pending, seen, machine>>

(* The timer expires and the thread has used up its quantum. *)
Preempt ==
  /\ machine = "up"
  /\ current # NoThread
  /\ slice = Quantum
  /\ readyList # <<>>
  /\ Dispatch(Append(readyList, current))
  /\ UNCHANGED <<paging, pids, pending, seen, machine>>

(* A program's thread starts: AddrSpace::Load, then Execute. *)
Start(p) ==
  /\ machine = "up"
  /\ current = p
  /\ Load(p)
  /\ table' = p
  /\ UNCHANGED <<current, readyList, slice, pids, pending, seen, machine>>
-----------------------------------------------------------------------------
(* Program p runs instruction i: a new one, or the one to restart. *)
Runs(p, i) ==
  /\ machine = "up"
  /\ current = p
  /\ p \in loaded
  /\ pending[p] \in {i, Unfetched(i.fetch), NoInstr}

(* OneTick, while the thread keeps the processor. *)
Tick ==
  /\ slice' = IF slice < Quantum THEN slice + 1 ELSE slice
  /\ UNCHANGED <<current, readyList, table>>

(* Machine::OneInstruction cannot fetch, or cannot load or store: it       *)
(* returns, after the exception handler has brought the page in.           *)
PageFault(p) ==
  /\ \E i \in Instr :
       /\ Runs(p, i)
       /\ \/ /\ ~ Translates(table, i.fetch)
             /\ PageReplacement(table, i.fetch)
             /\ pending' = [pending EXCEPT ![p] = Unfetched(i.fetch)]
          \/ /\ Translates(table, i.fetch)
             /\ UsesPage(i) /\ ~ Translates(table, i.page)
             /\ PageReplacement(table, i.page)
             /\ pending' = [pending EXCEPT ![p] = i]
  /\ Tick
  /\ UNCHANGED <<pids, seen, machine>>

(* Program p completes an instruction of kind op. *)
Completes(p, i, op) ==
  /\ Runs(p, i)
  /\ i.op = op
  /\ Translates(table, i.fetch)
  /\ UsesPage(i) => Translates(table, i.page)
  /\ pending' = [pending EXCEPT ![p] = NoInstr]

LoadWord(p) ==
  \E i \in Instr :
    /\ Completes(p, i, "load")
    /\ seen' = mainMemory[FrameOf(table, i.page)]
    /\ Tick
    /\ UNCHANGED <<paging, pids, machine>>

StoreWord(p) ==
  \E i \in Instr :
    /\ Completes(p, i, "store")
    /\ WriteMem(table, i.page, i.arg)
    /\ Tick
    /\ UNCHANGED <<pids, seen, machine>>

(* SC_Write reads a byte, and reads it again when that was a page fault. *)
Write(p) ==
  \E i \in Instr :
    /\ Completes(p, i, "write")
    /\ \/ /\ Translates(table, i.page)
          /\ UNCHANGED paging
          /\ seen' = mainMemory[FrameOf(table, i.page)]
       \/ /\ ~ Translates(table, i.page)
          /\ PageReplacement(table, i.page)
          /\ seen' = mainMemory'[pageTable'[table][i.page].physicalPage]
    /\ Tick
    /\ UNCHANGED <<pids, machine>>

Add(p) ==
  \E i \in Instr :
    /\ Completes(p, i, "add")
    /\ Tick
    /\ UNCHANGED <<paging, pids, seen, machine>>

(* SC_Exit: Thread::Finish.  The address space, and its frames, stay. *)
Exit(p) ==
  \E i \in Instr :
    /\ Completes(p, i, "exit")
    /\ Dispatch(readyList)
    /\ UNCHANGED <<paging, pids, seen, machine>>
-----------------------------------------------------------------------------
(* Scheduler::NextPid: the first of n pids that is free, from the counter  *)
(* on and around.                                                          *)
NextFree(from, free, n) ==
  LET ahead == {q \in free : q >= from % n}
  IN  Min(IF ahead # {} THEN ahead ELSE free)

NextPid == NextFree(pid, Pid \ occupied, MaxThreads)

(* SC_Fork_POS: a new thread, which is ready.  With every pid in use       *)
(* NextPid calls itself without end.                                       *)
ForkPOS(p) ==
  \E i \in Instr :
    /\ Completes(p, i, "fork")
    /\ \/ /\ occupied # Pid
          /\ occupied' = occupied \cup {NextPid}
          /\ pid' = NextPid + 1
          /\ readyList' = Append(readyList, NextPid)
          /\ slice' = IF slice < Quantum THEN slice + 1 ELSE slice
          /\ UNCHANGED <<current, table, machine>>
       \/ /\ occupied = Pid
          /\ machine' = "hung"
          /\ UNCHANGED <<sched, pid, occupied>>
    /\ UNCHANGED <<paging, waiting, seen>>

(* SC_Wait_POS: CheckPid, then AddWaiting, which sleeps. *)
WaitPOS(p) ==
  \E i \in Instr :
    /\ Completes(p, i, "wait")
    /\ \/ /\ i.arg \in occupied
          /\ waiting' = [waiting EXCEPT ![i.arg] = p]
          /\ Dispatch(readyList)
       \/ /\ i.arg \notin occupied
          /\ Tick
          /\ UNCHANGED waiting
    /\ UNCHANGED <<paging, pid, occupied, seen, machine>>

(* Exit_POS of pid q finds no thread, one that waits, or what an entry     *)
(* held that was never set, and makes it ready.  What happens then is not  *)
(* defined, and not modelled any further.                                  *)
WakesUp(q) ==
  \/ /\ waiting[q] # Wild
     /\ Dispatch(IF waiting[q] = NoThread THEN readyList ELSE Append(readyList, waiting[q]))
     /\ UNCHANGED machine
  \/ /\ waiting[q] = Wild
     /\ machine' = "wild"
     /\ current' = NoThread
     /\ UNCHANGED <<readyList, table, slice>>

(* Slip: Exit_POS without RemoveWaiting. *)
ExitPOSKeepsWaiter(q) ==
  /\ machine = "up"
  /\ current = q
  /\ occupied' = occupied \ {q}
  /\ WakesUp(q)
  /\ UNCHANGED <<paging, pid, waiting, pending, seen>>

(* A thread of Fork_POS, at the end of its loops: Exit_POS gives the pid   *)
(* back and wakes the thread that waits for it, and the thread finishes.   *)
ExitPOS(q) ==
  /\ machine = "up"
  /\ current = q
  /\ occupied' = occupied \ {q}
  /\ waiting' = [waiting EXCEPT ![q] = NoThread]
  /\ WakesUp(q)
  /\ UNCHANGED <<paging, pid, pending, seen>>

(* Its loops: the clock runs past the end of its time slice. *)
Loop(q) ==
  /\ machine = "up"
  /\ current = q
  /\ slice < Quantum
  /\ slice' = Quantum
  /\ UNCHANGED <<paging, current, readyList, table, pids, pending, seen, machine>>
-----------------------------------------------------------------------------
Instruction(p) ==
  \/ PageFault(p) \/ LoadWord(p) \/ StoreWord(p) \/ Write(p) \/ Add(p)
  \/ Exit(p) \/ ForkPOS(p) \/ WaitPOS(p)

Run ==
  \/ \E p \in Program : Start(p) \/ Instruction(p)
  \/ \E q \in Pid : Loop(q)

Next == Preempt \/ Run \/ \E q \in Pid : ExitPOS(q)

(* The processor goes on, the timer expires again and again, and the loops *)
(* of a Fork_POS thread are finite: dispatched often enough, it ends.      *)
Fairness ==
  /\ WF_vars(Run)
  /\ WF_vars(Preempt)
  /\ \A q \in Pid : SF_vars(ExitPOS(q))

Spec == Init /\ [][Next]_vars /\ Fairness
-----------------------------------------------------------------------------
Virtual == INSTANCE VirtualMemory WITH mem <- AddressSpaces, runs <- current

(* Whatever the programs do, page faults, write-backs and switches of      *)
(* program never show: the program that runs finds in its pages what its   *)
(* executable had there or it stored there itself, and changes no other's. *)
ImplementsVirtualMemory == Virtual!Spec

(* A thread that waits for a pid sleeps, and the thread with that pid is   *)
(* alive and will come to Exit_POS; pids in use are those of the threads   *)
(* that are alive, although numbers are used again.  So Exit_POS wakes a   *)
(* thread that waits for it, nobody, or what was never set.                *)
Ready == ToSet(readyList)
WaitersHaveChildren ==
  /\ occupied = {q \in Pid : q \in Ready \cup {current}}
  /\ current \notin Ready
  /\ \A q \in Pid : waiting[q] \in Program =>
       /\ q \in occupied
       /\ waiting[q] \notin Ready \cup {current}

Busy(p) == pending[p] # NoInstr \/ \E q \in Pid : waiting[q] = p

(* An instruction that has faulted completes, whatever the other programs  *)
(* do to the frames meanwhile; and a thread that waits for a pid wakes up, *)
(* unless a second one that waits for the same pid takes its place, or the *)
(* machine has come to an end.                                             *)
Proceeds == \A p \in Program : Busy(p) ~> ~ Busy(p) \/ machine # "up"
=============================================================================
