-------------------------------- MODULE Process --------------------------------
(***************************************************************************)
(* The processes of Assignment 1 (threads/process.cc) and the priority     *)
(* scheduler that runs them (PriorityScheduler, threads/scheduler.cc):     *)
(* fork, clone, join and termination, and the tree of parents and children *)
(* that termination and the destructor take apart.                         *)
(*                                                                         *)
(* Only the current process acts.  It loses the processor in Yield, which  *)
(* the timer calls too, and when it waits for its children or terminates;  *)
(* all of these run with interrupts off.  A process that is never used     *)
(* after its deletion is what the family is about: a use of one, or a      *)
(* failed assertion, is "crashed", after which nothing happens any more.   *)
(*                                                                         *)
(* The threads inside a process are left out.  Every process ends by       *)
(* calling Terminate, as those of threads/threadtest.cc do, and is joined, *)
(* or cloned, before it is deleted.                                        *)
(***************************************************************************)
EXTENDS Integers, FiniteSets, FiniteSetsExt, SequencesExt

CONSTANTS
  MaxProcess,  \* MAX_PROCESS: how many processes are made, ever
  Priority     \* priorities of processes other than the first

Process == 0 .. MaxProcess - 1
InitProc == 0     \* the "Init Process" of Kernel::Initialize
NoProcess == -1   \* NULL

ASSUME ProcessAssumption ==
  /\ MaxProcess \in Nat \ {0}
  /\ Priority \subseteq Nat \ {0}

VARIABLES
  current,        \* kernel->currentProcess; NoProcess when the machine idles
  readyList,      \* PriorityScheduler::readyList
  toBeDestroyed,  \* PriorityScheduler::toBeDestroyed
  status,         \* _status; "unused" before construction, "deleted" at the end
  priority,       \* _priority
  needJoin,       \* processes whose _needjoin is 1
  parent,         \* _parent
  children,       \* _children
  leaving,        \* processes that are in Terminate
  crashed,        \* a deleted process was used, or an assertion failed
  lateClone       \* a process that is in Terminate was cloned

tree == <<parent, children>>
vars == <<current, readyList, toBeDestroyed, status, priority, needJoin, tree,
          leaving, crashed, lateClone>>

Live == {p \in Process : status[p] \notin {"unused", "deleted"}}

TypeOK ==
  /\ current \in Process \cup {NoProcess}
  /\ readyList \in Seq(Process) /\ IsInjective(readyList)
  /\ toBeDestroyed \in Process \cup {NoProcess}
  /\ status \in [Process -> {"unused", "running", "ready", "blocked",
                             "joined", "deleted"}]
  /\ priority \in [Process -> Priority \cup {0}]
  /\ needJoin \subseteq Process
  /\ parent \in [Process -> Process \cup {NoProcess}]
  /\ children \in [Process -> Seq(Process)]
  /\ leaving \subseteq Process
  /\ crashed \in BOOLEAN
  /\ lateClone \in BOOLEAN

Init ==
  /\ current = InitProc
  /\ readyList = <<>>
  /\ toBeDestroyed = NoProcess
  /\ status = [p \in Process |-> IF p = InitProc THEN "running" ELSE "unused"]
  /\ priority = [p \in Process |-> 0]
  /\ needJoin = {}
  /\ parent = [p \in Process |-> NoProcess]
  /\ children = [p \in Process |-> <<>>]
  /\ leaving = {}
  /\ crashed = FALSE
  /\ lateClone = FALSE
-----------------------------------------------------------------------------
(* Slip: a list that is not sorted. *)
InsertAtEnd(list, p) == Append(list, p)

(* SortedList::Insert with ProcessComp: in front of the first process with *)
(* a lower priority, or at the end.                                        *)
Insert(list, p) ==
  LET lower == {i \in DOMAIN list : priority'[list[i]] < priority'[p]}
  IN  InsertAt(list, Min(lower \cup {Len(list) + 1}), p)

(* Process p runs code of its own, with no deletion left to do. *)
Acts(p) ==
  /\ ~ crashed
  /\ current = p
  /\ toBeDestroyed = NoProcess

(* PriorityScheduler::Run of the first ready process.  Without one the     *)
(* machine idles: only a process could make another one ready.             *)
RunFirst(list, stat) ==
  \/ /\ list = <<>>
     /\ current' = NoProcess
     /\ readyList' = list
     /\ status' = stat
  \/ /\ list # <<>>
     /\ current' = Head(list)
     /\ readyList' = Tail(list)
     /\ status' = [stat EXCEPT ![Head(list)] = "running"]

(* The lowest pid that is not in use; none is ever given back. *)
Unused == {q \in Process : status[q] = "unused"}
IsNextPid(q) == Unused # {} /\ q = Min(Unused)

(* Process q, with its parent, joins the tree and becomes ready. *)
Adopt(q, par) ==
  /\ parent' = [parent EXCEPT ![q] = par]
  /\ children' = [children EXCEPT ![par] = Append(@, q)]
  /\ readyList' = Insert(readyList, q)
  /\ status' = [status EXCEPT ![q] = "ready"]

(* The constructor and Process::Fork: the current process is the parent. *)
Fork(p, q, n) ==
  /\ Acts(p) /\ p \notin leaving
  /\ IsNextPid(q)
  /\ priority' = [priority EXCEPT ![q] = n]
  /\ UNCHANGED <<current, toBeDestroyed, needJoin, leaving, crashed, lateClone>>
  /\ Adopt(q, p)

(* q->CloneToOwnChild(FALSE): the new process r is a child of q, whoever   *)
(* q is.                                                                   *)
CloneToOwnChild(p, q, r) ==
  /\ Acts(p) /\ p \notin leaving
  /\ q \in Live /\ priority[q] # 0
  /\ IsNextPid(r)
  /\ priority' = [priority EXCEPT ![r] = priority[q]]
  /\ lateClone' = (lateClone \/ q \in leaving)
  /\ UNCHANGED <<current, toBeDestroyed, needJoin, leaving, crashed>>
  /\ Adopt(r, q)

(* q->Join(): q is to wait for its children before it terminates. *)
Join(p, q) ==
  /\ Acts(p) /\ p \notin leaving
  /\ q \in Live \ needJoin
  /\ needJoin' = needJoin \cup {q}
  /\ UNCHANGED <<current, readyList, toBeDestroyed, status, priority, tree,
                 leaving, crashed, lateClone>>

(* Process::Yield, by the process itself or by the timer: only to one of   *)
(* the same or a higher priority.                                          *)
Yield(p) ==
  /\ Acts(p) /\ p \notin leaving
  /\ readyList # <<>>
  /\ priority[p] <= priority[Head(readyList)]
  /\ UNCHANGED <<toBeDestroyed, priority, needJoin, tree, leaving, crashed, lateClone>>
  /\ LET first == Head(readyList)
     IN  /\ current' = first
         /\ readyList' = Insert(Tail(readyList), p)
         /\ status' = [status EXCEPT ![p] = "ready", ![first] = "running"]
-----------------------------------------------------------------------------
(* Process::Terminate of a joined process that has children: it waits, and *)
(* goes on behind the wait when it runs again, without looking again.      *)
TerminateJoined(p) ==
  /\ Acts(p) /\ p \notin leaving
  /\ p \in needJoin /\ children[p] # <<>>
  /\ leaving' = leaving \cup {p}
  /\ RunFirst(readyList, [status EXCEPT ![p] = "joined"])
  /\ UNCHANGED <<toBeDestroyed, priority, needJoin, tree, crashed, lateClone>>

(* Slip: the children stay where they are. *)
TerminateLeavesChildren(p) ==
  /\ Acts(p) /\ p \notin leaving
  /\ p \in needJoin => children[p] = <<>>
  /\ leaving' = leaving \cup {p}
  /\ UNCHANGED <<current, readyList, toBeDestroyed, status, priority, needJoin, tree,
                 crashed, lateClone>>

(* Terminate of any other process: its children become its parent's, if it *)
(* has a parent.                                                           *)
Terminate(p) ==
  /\ Acts(p) /\ p \notin leaving
  /\ p \in needJoin => children[p] = <<>>
  /\ leaving' = leaving \cup {p}
  /\ \/ /\ parent[p] = NoProcess \/ children[p] = <<>>
        /\ UNCHANGED <<tree, crashed>>
     \/ /\ parent[p] \in Live /\ children[p] # <<>>
        /\ parent' = [q \in Process |->
                        IF q \in ToSet(children[p]) THEN parent[p] ELSE parent[q]]
        /\ children' = [children EXCEPT ![p] = <<>>, ![parent[p]] = @ \o children[p]]
        /\ UNCHANGED crashed
     \/ /\ parent[p] \in Process \ Live /\ children[p] # <<>>
        /\ crashed' = TRUE
        /\ UNCHANGED tree
  /\ UNCHANGED <<current, readyList, toBeDestroyed, status, priority, needJoin, lateClone>>

(* Slip: CheckJoin waits until there is no child left in the list. *)
JoinIsDoneWhenEmpty(q) == status[q] = "joined" /\ children[q] = <<>>

(* Slip: CheckJoin does not ask whether the process waits. *)
JoinIsDoneUnasked(q) == Len(children[q]) <= 1

(* CheckJoin of the parent: the child that calls is still in the list. *)
JoinIsDone(q) == status[q] = "joined" /\ Len(children[q]) <= 1

(* The end of Terminate: the parent's CheckJoin, and Sleep(TRUE). *)
Leave(p) ==
  /\ Acts(p) /\ p \in leaving
  /\ UNCHANGED <<priority, needJoin, tree, leaving, lateClone>>
  /\ LET par == parent[p]
         gone == [status EXCEPT ![p] = "blocked"]
         leaves(list, stat) ==
           /\ RunFirst(list, stat)
           /\ toBeDestroyed' = IF list = <<>> THEN NoProcess ELSE p
           /\ UNCHANGED crashed
     IN  \/ /\ par = NoProcess
            /\ leaves(readyList, gone)
         \/ /\ par \in Live /\ JoinIsDone(par)
            /\ leaves(Insert(readyList, par), [gone EXCEPT ![par] = "ready"])
         \/ /\ par \in Live /\ ~ JoinIsDone(par)
            /\ leaves(readyList, gone)
         \/ /\ par \in Process \ Live
            /\ crashed' = TRUE
            /\ UNCHANGED <<current, readyList, toBeDestroyed, status>>

(* CheckToBeDestroyed of the process that runs next, and ~Process.  It     *)
(* takes the children that are left out of the list before it deletes      *)
(* them, and each of them asserts that it is in the list.                  *)
Destroy ==
  /\ ~ crashed
  /\ toBeDestroyed # NoProcess
  /\ LET p == toBeDestroyed
     IN  \/ /\ parent[p] = NoProcess
            /\ status' = [status EXCEPT ![p] = "deleted"]
            /\ UNCHANGED <<children, crashed>>
         \/ /\ parent[p] # NoProcess /\ children[p] = <<>>
            /\ status' = [status EXCEPT ![p] = "deleted"]
            /\ children' = [children EXCEPT ![parent[p]] = RemoveFirst(@, p)]
            /\ UNCHANGED crashed
         \/ /\ parent[p] # NoProcess /\ children[p] # <<>>
            /\ crashed' = TRUE
            /\ UNCHANGED <<status, children>>
  /\ toBeDestroyed' = NoProcess
  /\ UNCHANGED <<current, readyList, priority, needJoin, parent, leaving, lateClone>>
-----------------------------------------------------------------------------
Ends ==
  \/ Destroy
  \/ \E p \in Process : TerminateJoined(p) \/ Terminate(p) \/ Leave(p)

Next ==
  \/ Ends
  \/ \E p \in Process :
       \/ Yield(p)
       \/ \E q \in Process :
            \/ Join(p, q)
            \/ \E n \in Priority : Fork(p, q, n)
            \/ \E r \in Process : CloneToOwnChild(p, q, r)

(* Nothing interrupts Terminate, and as long as processes run, one of them *)
(* calls it some day, as the processes of the test do.                     *)
Fairness == WF_vars(Ends)

Spec == Init /\ [][Next]_vars /\ Fairness
-----------------------------------------------------------------------------
(* Where each process is, and whose child: every process that was forked   *)
(* has the processor, is on the ready list, waits for its children or is   *)
(* about to be deleted, in one of these places; the ready list is in the   *)
(* order of priorities; lists of children and parents agree; and a process *)
(* that waits for its children has one.                                    *)
InitHasLeft == InitProc \in leaving /\ InitProc \notin needJoin

Family ==
  crashed \/
  /\ ToSet(readyList) = {p \in Live : status[p] = "ready"}
  /\ \A p \in Live : status[p] = "running" <=> p = current
  /\ \A p \in Live : status[p] = "blocked" => p = toBeDestroyed \/ current = NoProcess
  /\ \A i, j \in DOMAIN readyList :
       i < j => priority[readyList[i]] >= priority[readyList[j]]
  /\ \A p \in Live : IsInjective(children[p]) /\
       ToSet(children[p]) = {q \in Live : parent[q] = p}
  /\ \A p \in Live : status[p] = "joined" => children[p] # <<>>

(* No deleted process is used and no assertion of the lists fails, in      *)
(* whatever order processes are forked, cloned, joined and terminated,     *)
(* with two exceptions: the Init Process has terminated before its         *)
(* children, or a process was cloned after it began to terminate.          *)
CrashHasCause == crashed => InitHasLeft \/ lateClone

(* A process that waits for its children goes on: the last of them to      *)
(* terminate wakes it, also when its children got children of their own,   *)
(* or those of a child that did not wait.                                  *)
JoinEnds ==
  \A p \in Process : status[p] = "joined" ~> status[p] # "joined" \/ crashed
=============================================================================
