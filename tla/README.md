# A verification project for the operating system in `courses/su/cis657`

The repository collects course work.  Its one large program is Nachos, an
instructional operating system in C++, in five versions under
`courses/su/cis657`: `Lab2` (the base system with a small exercise), `Lab3`
(flight reservations), `Assignment1` (processes of threads and a priority
scheduler), `Assignment2` (demand paging and process system calls) and
`Final Project` (a new file system).  The modules here model that system.  The
rest of the repository (network and cryptography labs, homework in other
languages, device scripts) is independent of it and is not modelled.

Contents: 1 inventory, 2 what is modelled and how it corresponds to the code,
3 runs, bounds and fairness, 4 what is proved, 5 what disagrees with the
repository's own text, 6 what is not modelled, 7 plan.

Paths below are relative to `src/courses/su/cis657/`; `L2` is `Lab2/code`, `FP`
is `Final Project/code`, `A1` and `A2` are `Assignment1/code` and
`Assignment2/code`, `L3` is `Lab3/code`.

## 1. Inventory

| Component | State it keeps | Operations | What is hard, what makes it correct |
|---|---|---|---|
| Scheduler: `Thread`, `Scheduler`, `Interrupt`, `Timer`, `Alarm` (`L2/threads`, `L2/machine`) | current thread, ready list, thread status, carcass `toBeDestroyed`, interrupt level, pending interrupts | Fork, Yield, Sleep, Finish, Run, Idle, OneTick | preemption at every tick; a thread that idles on its own stack; each thread in exactly one place, carcasses deleted once and in time, no starvation by preemption |
| `Semaphore`, `Lock` (`L2/threads/synch.cc`) | value, queue of waiters, holder | P, V, Acquire, Release | woken waiters compete with newcomers; mutual exclusion, holder known, no lost wake-up |
| `Condition`, `SynchList` (`L2/threads`) | list, queue of waiter semaphores | Append, RemoveFront, Wait, Signal, Broadcast | Mesa semantics: state may change between the signal and the waiter's turn; FIFO, no lost signal, no use of a deleted semaphore |
| File system (`FP/filesys`): `FileSystem`, `OpenFile`, `Directory`, `MetaTable`, `FileHeader`, bitmaps | on disk: directory, inode and fragment bitmaps, headers; in memory: usage counts, deferred deletions, open files | Create, Open, close, Read, Write, Remove, Unlink, Allocate | operations of many disk requests, only some under `fs_control_lock`; inodes and fragments owned exactly once, deferred deletion happens once |
| Base file system (`L2/filesys`): `FileSystem`, `Directory`, `FileHeader`, `OpenFile`, `PersistentBitmap` | bitmap of sectors, directory, a header per file, sectors; open files with a copy of the header and a position | format, restart, Create, Open, Remove, Seek, Read, Write, close | reads and writes of any bytes on a disk of whole sectors; every sector owned once, nothing on disk when Create fails, bytes next to those written unchanged |
| `SynchDisk` (`FP/filesys/synchdisk.cc`) | lock, semaphore | ReadSector, WriteSector, CallBack | one request at a time, answer to the thread that asked |
| Processes (`A1/threads/process.cc`, `scheduler.cc`) | tree of parents and children, ready list by priority, joins, the process to be destroyed | Fork, CloneToOwnChild, Join, Yield, Terminate, CheckJoin, the destructor | a tree that terminating processes rearrange while others wait for their children; no use of a deleted process, each join ends |
| Paging (`A2/userprog/addrspace.cc`, `A2/machine/translate.cc`) | page tables, frames, queue of pages by age, swap file | Load, Translate, PageReplacement | a victim page of another program; instructions that start again; a read returns what was last written |
| Process calls (`A2/userprog/exception.cc`, `A2/threads/scheduler.cc`) | pids in use, one waiter per pid | Fork_POS, Wait_POS, Exit_POS, Write, Exit | exit before wait, two waiters on one pid, pids used again, none left |
| Flight reservations (`L3/threads/threadtest.cc`) | seat bitmap, passengers | reserve, board, stop | threads share seats; seats and passengers agree |
| Post office (`L2/network/post.cc`, `L2/machine/network.cc`) | mailboxes, `messageAvailable`, `messageSent`, `sendLock`, a buffer of one packet | Send, Receive, PostalDelivery, the two interrupts | packets that are lost; interrupts against waiting threads |
| Machine simulation, libraries, start-up | | | what the kernel sees of it, interrupts, is part of the scheduler's model |

Interaction: everything runs on one simulated processor.  Kernel code is not
interrupted between two ticks: a tick happens only where
`Interrupt::SetLevel` turns interrupts on again (the end of every P, V, Fork and
Yield) and runs the handlers that are due; if one was the timer's, the current
thread yields.  So the steps of the models run from tick to tick: a P or V, or a
disk request (which sleeps in a P).  Monitors are built from locks and
conditions, those from semaphores, those from the scheduler; the file system
uses locks and, through `SynchDisk`, semaphores that a device handler Vs.

The hazards, each at its line with the properties that cover it, are in
`PROJECT.json`.

## 2. Modules

| Module | Models | Abstract specification |
|---|---|---|
| `Threads` | `Thread`, `Scheduler`, `Interrupt`, `Semaphore`, `Lock` | `LockSpec` |
| `SynchList` | `SynchList`, `Condition`, on top of `LockSpec` | `QueueSpec` |
| `Paging` | `AddrSpace::Load`, `Machine::Translate`, `MemoryManager` | |
| `UserProg` | instructions, page faults, time slices and system calls of programs, on top of `Paging` | `VirtualMemory` |
| `Process` | `Process`, `PriorityScheduler` | |
| `PostOffice` | `PostOfficeOutput`, `PostOfficeInput`, `MailBox`, the network device | `MailSpec` |
| `Files` | the base file system | `FilesSpec` |
| `FileLife` | Create, Open, close, Remove, Unlink with the `MetaTable` | |
| `Fragments` | `Allocate`, its searches, `Unlink`, growth of the directory | reference definition of the search |
| `ThreadsProofs`, `SynchListProofs`, `PostOfficeProofs`, `FinalProjectProofs` (`FileLife` and `Fragments`), `UserProgProofs` (with `Paging`), `ProcessProofs`, `FilesProofs` | theorems about the modules they are named after, section 4 | |
| `Lists` | lemmas about sequences without duplicates and about least elements | |
| `MC...` | the instances for TLC | |

In every component module the definitions called "Slip" are variants of the
definition that follows, with a mistake in them; they are not part of the
specification.  Each checked property has one that it rejects.

**Threads.**  `currentThread`, `readyList`, `toBeDestroyed`, `status`, `value`,
`queue`, `lockHolder` and `level` are the fields of the same names.  `pc` says
where a thread is in kernel code, `sem` which semaphore it does a P on, `held` the
locks it has acquired (its part of the calling convention), `pending` the devices with an interrupt to come.
A thread that is dispatched continues in `Resume`, or in `ResumeP` when it slept
in P; until then interrupts are off and nothing else can happen.  `Sleep` with an
empty ready list sets `idle`, and `IdleInterrupt` is the loop of `Thread::Sleep`
around `Interrupt::Idle`.  `Yield` is both the call and the preemption.  Threads
execute any sequence of operations within the conventions of `synch.h`.  A lock is
the semaphore inside it plus `lockHolder`; `Acquire` is `P`/`ResumeP` followed by
`Acquired`, since P turns interrupts on before the holder is stored.

**SynchList.**  The lock is used through the actions `Grant` and `Free` of
`LockSpec`, which `Threads` implements.  A thread stands for the semaphore it
allocates in `Wait`.  An Append that finds nobody waiting, and a RemoveFront, release
the lock in the same step: there is no tick between the list operation and
`Release`.  After the V of a Signal there is one.  An item is appended only when
it is not on the list, which `List::Append` asserts.

**FileLife.**  A step ends at a disk request or a lock operation.  `frame[t]` holds the local
variables of the operation a thread is in, among them what it has read and not yet written back: `table` is the
copy of the whole directory (`Directory::FetchFrom`, `WriteBack`), `cfm` the bitmap of
Create, `maps` those of Unlink and of Allocate.  Open, which takes no lock, is opening the directory,
look-up, `waitingFinish` and the constructor.  Create takes the lock, reads the bitmap of one group
after the other (`CreateSearch`), writes the header, reads the directory (`CreateFind`), lets
`Allocate` read and write the bitmaps, writes the directory (`CreateAdd`) and last the
bitmap it read first (`CreateWrite`).  When Allocate finds no fragment (`AllocateFails`) the directory stays
as it was, which `Directory::WriteBack` does not report, and the bitmap is written all the
same: the inode is an orphan.  Remove reads the directory, writes it without the name, and
asks the `MetaTable` whether to unlink.  Unlink reads all bitmaps and writes them back.
Each operation opens and closes an `OpenFile` of the directory; the one that Open forgets when
it returns early is counted in `leaks`.  For a name that does not exist `waitingFinish` is
called with inode -1 and its answer is undefined: either can happen.

The arithmetic of inode numbers is the code's.  Create takes the bit's number in
whichever group it found it (line 268); number 1 of the second group is the
directory's, whose header is then overwritten (`CreateHeader`).  Unlink takes
`inode / n` for the group (lines 378 and 421), which for the last inode of a group is the next one: the
assertion of `Bitmap::Clear` fails (`UnlinkAborts`) and nothing happens any more.

There is one directory, whose contents are read or written in one step, and so are the
bitmaps of all groups where the code goes through them in a loop.

**Fragments.**  Used by one thread at a time; `frags[f]` lists the fragments in a
header.  `NextPlaceForSmallFragments` is the loop of the code as a recursive function over the
bits of the bitmap (`ScanBit` is its body, `InGap` its four cases);
`NextAlignedFragments` returns the first free aligned block, and Allocate calls it
until it has enough, so that `AlignedFragments` lists all of them in that order.
For an empty file the code starts the search in the group of
`tmp_old_fragments[-1]`: any group here.  `Create` keeps the order of the code: bitmaps read, directory
extended, bitmaps written.  Its names begin with `Frag` where `FileLife` has the same ones, since
`FinalProjectProofs` reasons about both.

**Paging and UserProg.**  `mainMemory`, `memory`, `fifo`, `swapCounter` and `pageTable`
are the fields of the same names, `swap` the swap file, as long as `swapEnd`.  A
page holds one value.  With the file system stub, which the build uses, reading
and writing the swap file is a call of the host, so that `PageReplacement` is one
step.  An instruction is one step, or several: each page that is missing makes
`OneInstruction` return after the handler has brought it in (`PageFault`), and the
instruction starts again; until it has been fetched nothing is known of it but its
page.  `table` is the machine's page table register, which `Dispatch`
(`Scheduler::Run`) restores only for threads with an address space.  `SC_Write` reads
through the page table in the kernel and brings the page in itself.  A thread of
Fork_POS is named by its pid.  `machine` is "up" until one of two things happens that
end it.  When all pids are in use `NextPid` calls itself for ever: "hung".  And the
constructor of `Scheduler` clears the first 100 of the 256 entries of `waiting_list`
(`Cleared` of `MaxThreads`); each of the others may hold anything at the start, NULL or not (`Wild`).  A
Wait_POS or an Exit_POS of its pid sets it; an Exit_POS that finds it `Wild` makes ready
what is no thread: "wild".

**Process.**  Only the current process acts; `Terminate` and `Yield` run with
interrupts off.  `Terminate` is `TerminateJoined` or `Terminate`, which deal with the
children, and then `Leave`, which tells the parent and sleeps; the process that runs
next deletes it (`Destroy`).  A joined process that waited goes on in
`Leave` without looking at its children again, as the code does.  A use of a deleted
process, or an assertion of `List` that fails, sets `crashed`, after which there is no step.
`lateClone` only records that a process was cloned after its `Terminate` had begun.

**PostOffice.**  `Send` is five steps, between which interrupts may come; the postal
worker's loop is three.  `inbox[m]` is the device's buffer, empty when
`inHdr.length` is 0.  Receiving from a mailbox is the `Get` of `QueueSpec`, taking
`sendLock` the `Grant` of `LockSpec`.  `NetworkSend` loses any packet it likes; the
`sendBusy` of the device is never set in the code, so its assertion says nothing and
is not in the model.

**Files.**  `freeMap` and `directory` are what the disk holds: each operation
reads them, changes its copy and writes it back at the end if all went well.  `FindAndSet`
says which sectors its calls one after the other find; `RemoveFile` is `FileSystem::Remove`.  A sector
has bytes (`data`) and, if a header was written there, that header; a header read as
bytes gives `HeaderByte`s.  An `OpenFile` keeps the header it read when it was opened.
`NewSector` is the buffer of `WriteAt`: bytes to be written, bytes read before, and
beyond the end of the file whatever `new` gave.  Programs keep two
conventions that nothing checks: they remove files that are not open, and
do not ask Create for more than `MaxFileSize` bytes.

## 3. Runs

| Run | Bounds | Shows |
|---|---|---|
| `threads_safety` | 3 threads, 1 lock, 1 device and 1 plain semaphore, values at most 1 | safety of the thread system, refinement of `LockSpec` |
| `threads_liveness` | 3 threads, 1 lock, 1 device | `ReadyRuns`, `FreeLockIsTaken` |
| `synchlist` | 4 threads, 2 items | monitor properties, refinement of `QueueSpec`, `ItemWakesWaiter` |
| `filelife_alone` | 1 thread, 2 names, 2 groups of 4 inodes, at most 2 `OpenFile`s of a file | deferred deletion and inode accounting |
| `filelife_shared` | 2 threads, 2 names, 2 groups of 3 inodes, at most 1 `OpenFile` of a file and thread; until Create leaves the first group | usage counts, deferred deletions and write-backs of the directory under concurrency |
| `userprog` | 2 programs of 2 pages, 2 frames, 2 values, 1 pid, whose entry of `waiting_list` is not cleared, time slices of 3 instructions | frames and pages agree, refinement of `VirtualMemory`, waiters wake up, instructions complete |
| `process` | 5 processes, 2 priorities (the Init Process has its own) | the tree of processes, no use after deletion but in two cases, joins end |
| `postoffice` | 2 machines with 2 mailboxes, 3 senders of one mail each | refinement of `MailSpec`, senders and mail do not get stuck |
| `files` | 4 free sectors of 2 bytes, 2 names, 1 open file, sizes 0, 1 and 3, 2 values of a byte | ownership of sectors, refinement of `FilesSpec` |
| `fragments` | 2 groups of 9 fragments, blocks of 3, 3 files up to 5 fragments | allocation, up to a full disk |
| `fragments_dir`, `filelife_last` | smaller | disagreements, section 5 |

Why the bounds are enough for the interesting cases.  Three threads give a holder, a
woken waiter and a newcomer at a lock; the device lets all of them sleep, so
that the processor idles.  Values are kept to 1 by the guards of V and StartIO,
so a semaphore still goes from 0 to 1 with waiters present.  With four threads on a list two
wait while a third appends and a fourth overtakes.  The directory, two
named files and a removed file that is still open, or an orphan, exhaust a group of four
inodes, and an inode is used again after its former file has gone; the one-thread run then goes on
in the second group, where numbers are given out twice, and through removals of a group's last inode
up to the failed assertion.  The two-thread run
is cut where Create has left the first group (`CONSTRAINT FirstGroupSuffices`): what it
checks is proved without that bound (section 4), and the one-thread run has the states behind it.
Names, and in that run threads, are permuted by symmetry; no action tells them apart.  Nine fragments in blocks of three give gaps inside a block,
across a boundary and across a whole block; in the code a block has 4 fragments
and a group 64.  Two programs with four pages on two frames take frames from
each other as well as from themselves, and an instruction needs two pages at once; one pid is
used again and runs out; a time slice of three instructions is the shortest in which an
instruction that faults twice completes (in the code it is 100 ticks).  Five processes give
a grandchild, a clone and a brother under the Init Process.  Two senders on one machine
compete for its lock, and a packet arrives while another is in the buffer.  A file
of three bytes ends in the middle of a sector, and is written across a sector boundary,
inside one, and up to its end; two of them do not fit on the disk.
`MaxValue`, `MaxOpen`, `MaxLength`, `MaxProcess`, `MaxThreads` and `MaxMail` are the only
bounds in guards.  Two of them are the code's: `MaxProcess`, 100 there, and
`MaxThreads`, `MAX_THREADS` of `A2/threads/scheduler.h:22`, 256 there; the modules allow any number, and
the assumption about `Cleared`, 100 there, is only that it is not above `MaxThreads`.
`MCUserProg` also evaluates `NextFreeCountsUp`: `NextPid`, which the model gives as a
minimum, is the pid that counting up finds first, for up to four pids (`NextPidCountsUp` proves it for
any number).

Deadlock is checked except where the system may stop: a machine where all
threads wait and no interrupt is pending halts (`Threads`), threads that all wait for an
item wait for ever (`SynchList`), programs end (`UserProg`, `Process`), all
mail has been sent and received (`PostOffice`), and a failed assertion ends nachos (`FileLife`).

`ImplementsMail` needs a word.  `MailSpec!Send` lets any packet come to the end of the mail at any time,
as any machine may send one.  So a packet that is handed over twice in a row looks like two that
were sent, if it is the last; that nothing comes twice is visible when
another packet is behind it.  The run has such states (three senders of one mail each).

Fairness.  In `Threads`: the thread that has been dispatched goes on (weak fairness of
`Resume`/`ResumeP`); the timer schedules its next interrupt whenever it fires
(`Timer::CallBack`), so that a thread that stays on the processor yields (weak
fairness of `Yield`); a device completes its request; and a thread leaves its critical sections
(strong fairness of `Acquired` and `Release`, since preemption disables both again and again),
which is what callers of a lock owe.  Nothing is assumed of threads between
operations, and neither waiters nor newcomers are favoured.  In `SynchList`: a thread inside the
monitor goes on, and a free lock is taken by one of the threads that want it
(`FreeLockIsTaken`); no thread is promised its turn, because `synch.cc` makes no such
promise: a woken thread that finds the value at 0 goes to the end of the queue.
In `UserProg`: the processor executes instructions, the timer expires, and a thread of
Fork_POS, whose loops are finite, ends if it is dispatched often enough (strong
fairness, since it may be preempted).  Nothing else is assumed: that a faulted instruction
completes although others take its pages follows from the length of a time slice.  In `Process`:
processes terminate some day, whichever they are (weak fairness of `Ends` as a whole).  In
`PostOffice`: each machine goes on while something can be done there; its
network device is one of the things that can, and no sender is favoured.

## 4. Proofs

Each module `XProofs` extends the component `X` (`FinalProjectProofs` the two components of the
final project's file system) and proves, by TLAPS, for every
value of the constants that satisfies the assumption of `X`.  The assumptions say that the
sets of actors are finite, that "no thread", "no entry" and the like are not elements of the
sets they are added to, that numbers are natural, and that what must exist does (a name, a
program, a sector with a byte in it); TLC evaluates them in every run.  Bounds that are
constants (`MaxOpen`, `MaxValue`, `NumPhysPages`, `SectorSize`...) may have any value; none
of the theorems uses that one is small.

A proof starts from an inductive invariant: the checked property is seldom
inductive, and the parts added to it are what the code relies on without
saying so.  Then there is one lemma per action, or per helper that several actions call,
and the theorem combines them.

**`ThreadsProofs`** (threads, semaphores, locks and devices: any finite number).
- `TypeCorrect`.  Values of semaphores stay natural because P tests again after it slept.
- `LockMutualExclusion`, `LockHolderIsKnown`.  `LockInv` adds what connects them: a lock's
  semaphore is 1 and nobody is inside, or it is 0 and exactly one thread is.
- `LockRefinement`.  `LockInv` makes the owner a function of the state; then every step is a Wait, a
  Grant, a Free or a stutter of `LockSpec`.
- `ThreadsInOnePlace`, `CarcassAssertsHold`.  `SchedInv` ties the status of every
  thread to the one list or processor it is in (`Places`) and to where it is in kernel code
  (`StatusFits`), and says what the processor does in between: a thread that idles
  is blocked and on no list but its queue, a carcass has finished (`ProcessorFits`).
- `WakeupsAreNotLost`.  By counting: V takes one thread off the queue for each unit, P that goes
  back to sleep finds the value at 0.

**`SynchListProofs`** (any threads and items).  `ListInv` is `TypeOK`, `MonitorExclusion`,
`WaiterSemaphores` and that a thread in Append has an item.  `SignalsAreNotLost`
adds a count of the threads on their way to the list; Append and Signal, and RemoveFront, change the
count and the length of the list together.  `ListIsFifo` is the refinement of `QueueSpec`.

**`PostOfficeProofs`** (any machines, boxes and senders).  `MailComesOnceInOrder` is the refinement of
`MailSpec`.  It rests on two counts that the code keeps in semaphores and never checks:
while a sender waits for its interrupt there is one interrupt or one unit of
`messageSent`, else none (`OneInterrupt`), and the buffer of the device holds at most one packet, for which there
is one unit of `messageAvailable` or one worker on its way (`BufferOfOne`).

**`FinalProjectProofs`, the life of files** (any names, groups, inodes and threads).  `LifeInv` proves the
types, `UsageIsTheNumberOfOpenFiles`, `DeferredDeletionIsDue` and
`DirectoryIsStable` for any number of threads, on every group: whoever has a copy of the directory
holds `fs_control_lock`, and all that write the directory hold it, `CreateHeader` included, which
overwrites the directory's header when the number 1 is given out again.
`InodesAreAccountedFor` and `OpenFilesSurvive` are proved for one thread, the hypothesis
`Thread = {user}` of the theorems, and speak of the time in which the first group has room, the hypothesis
`FirstGroupSuffices` of the properties.  With two threads they are false (an Open overtaken by a
Remove returns an `OpenFile` on a free inode; the Unlink of a last close overwrites the bitmap of a
Create), and behind the first group they are, too, since two files share a number.

**`FinalProjectProofs`, fragments** (any number of groups, any sizes of groups and blocks, any
files).
- `PlaceIsAlwaysFree`.  The search for a place is right on every bitmap (`PlaceFound`), whatever
  the file system has done to it.  `ScanInv` is the invariant of its loop: before bit i the place it has
  is one of the runs asked for, and if it has none, no run begins before the present gap.  The step
  (`GapFacts`) goes through the four cases of a gap across block boundaries.  The loop is a
  recursive function; that it exists, and that it keeps the invariant, is shown by
  looking at the least bit where it would not (`ScanExists`, `PlaceFound`), since
  induction is not available.
- `LayoutKept`, `FragTypeCorrect`.  `FragIInv` adds that the directory is exactly as long as its
  entries need, so that Remove can only cut it.  The rest is `AllocateFacts`, what Allocate does
  with any bitmaps and any old fragments: the blocks it keeps, the blocks it takes in the order of
  the search (`NewBlocksFacts`: no two calls find the same one) and the run it takes last
  (`NewRestFacts`) together are a layout of the length asked for.
- `GivenUpInOneGroup`.  When it extends a file, Allocate clears the fragments it gives up in the
  bitmap of the last fragment's group, without looking which group each is in
  (`filesys.cc:597`, `615-624`); the model clears each in its own group.  The theorem says that this is
  the same: the fragments behind the last full block stand in one block, and a block in one group.
- `FragmentsAccounted`.  `FragAccounts` adds to the property that no file owns a fragment of the
  control blocks, whose bit its removal would clear.  Writing and removing a file are the same step for
  the accounts (`Reassigned`): one file exchanges its fragments for others that were free, and the
  bitmaps follow.  The hypothesis, that the directory has room for all files in its first
  fragment, is that of the run; without it run `fragments_dir` shows the property false.
- `RefusedOnlyWhenFull`.  The blocks that the search can find, in whatever group it starts, are as
  many as there are free ones (`AsManyFound`, a bijection); if it found enough of them and yet no room for
  the rest, every free block was needed and no other has a gap of that length (`RefusalFacts`).

**`UserProgProofs`** (any programs, pages, frames, pids and time slices).  `PagingInv` relates the
page tables to the bitmap of frames, the queue of pages and the swap file, and says that
no two pages share a frame (`FramesDiffer`) or a place in the swap file (`SlotsDiffer`); the second is what
makes writing a victim back harmless to the other programs.  It is kept by `Load` and
by both forms of `PageReplacement`, and from it come `FramesHaveOneOwner` and `WaitersHaveLivingChildren`.
`PagingDoesNotShow` is the refinement of `VirtualMemory`: the contents of a page, in its
frame or in the swap file, change only by the stores of its own program.
`WaitersHaveLivingChildren` holds for every pid, also where the entry of `waiting_list` was never cleared, since it
speaks of programs that wait; what such an entry does is the subject of `ClearingAllEntriesSuffices`: with
`Cleared = MaxThreads`, unlike in the code, no Exit_POS makes ready what is not a thread.  `NextPidCountsUp` says
that the minimum by which the model gives a new pid is what the recursion of `NextPid` finds.

**`ProcessProofs`** (any number of processes and priorities).  Deleted processes are used in two
cases, so that the invariant is a disjunction: `Sound`, the ready list, the lists of children and the
joins agree and nobody's parent is gone, or one of the two causes has happened.
`FamilyIsConsistent` and `CrashesHaveACause` follow.  The order in which `Terminate`,
`Leave` and `Destroy` take a process out of its lists is what the proof is about.

**`FilesProofs`** (a disk, sectors, a directory and files of any size).  `FilesInv` says that a
header lists as many different sectors as its file needs (`WellFormed`), that files
share neither names nor sectors, that the bitmap is the set of these sectors, and that every
OpenFile has the header that is on the disk; `SectorsAreOwned` follows.  `SectorsDoNotShow`
is the refinement of `FilesSpec`.  For Write it needs that WriteAt reads every
sector first of which it leaves a byte (`PartsAreRead`, from the arithmetic of
`divRoundDown`); for Create, that there are as many clear sectors as the abstract specification
counts, by a bijection from its numbered sectors to those on the disk (`UsedSectors`).

**Model-checked only.**  Liveness (`ReadyRuns`, `FreeLockIsTaken`, `ItemWakesWaiter`, `Proceeds`,
`JoinEnds`, `Delivered` and the others): the prover handles neither fairness nor ENABLED.
Every invariant, action property and refinement that a passing run checks is stated by a theorem.

## 5. Disagreements found

- `fragments_dir`: Create writes back bitmaps it read before the directory grew
  (line 299), so that the directory's new fragment is marked free.
- `filelife_last`: Unlink looks for the last inode of a group in the next group
  (`FP/filesys/filesys.cc:378`, `421`), so that removing its file fails the assertion of `Bitmap::Clear`
  (`FP/lib/bitmap.cc:75`).

Seen while modelling, without a run of its own:

- `A1/threads/process.cc` announces "has been joined. No running child process.
  Terminating it." (line 259) without looking: a joined process that is cloned to its own child
  after it was made ready terminates over a running child, and the destructor's `Remove` then
  fails its assertion.  `CrashHasCause` says that this, and the Init Process ending
  before its children, are the only ways to a crash.
- `A1/threads/process.cc:164`: `CloneToOwnChild` has no return statement; callers that use its
  value use an undefined one.  A process whose function returns without `Terminate`
  leaves its thread asleep and the machine idle.
- `A2/threads/scheduler.cc:228`: the second thread that waits for a pid takes the place of the first, which
  never wakes up; `Proceeds` therefore speaks of the last.  Line 37 clears 100 of 256 entries, and
  Exit_POS of a higher pid reads what was there (`UserProg`, `machine = "wild"`).
- `FP/filesys/filesys.cc:341`: an Open overtaken by a Remove of another thread returns an `OpenFile` on an
  inode that is free, and the next Create gives it to another file.  The model has these steps;
  `filesys.cc:30-33` and `234` say that concurrent accesses are not synchronized, so that this
  contradicts nothing the repository says.
- `FP/filesys/filesys.cc:268`: the first file of the second group gets number 1 and overwrites the header
  of the root directory.  `FP/filesys/filesys.cc:284`: a new directory's "." and ".." are
  added to the current directory's file.
- `FP/filesys/directory.cc:79`: a directory that cannot grow is not written, and Create returns TRUE.
- `FP/filesys/filesys.cc:308`: Create returns TRUE for a name that is already in the directory,
  although the comment at line 228 says that it fails.
- `L2/filesys/filehdr.cc:51`: `Allocate` does not compare the size with `MaxFileSize` and writes past
  `dataSectors` for a longer file.

## 6. Not modelled

Arithmetic of instructions; stacks and registers; threads inside a process of assignment 1 and its
semaphores (a V there readies a process); the system call Halt;
`Condition::Broadcast` and `SynchList::Apply` (unused on these lists);
in the final project files longer than `NUM_DIRECT_FRAGMENTS`, file contents, cached
headers and sub-directories; a halt in the middle of an
operation of either file system (both say that they do not survive it); `SynchDisk`, whose
pattern is in `Threads`; Lab 3 and the waiting list of Lab 2, which are test programs on
unprotected state.

Why the map covers a small part of the repository's lines: Nachos is there five times, and most files
of the five copies are the same byte for byte; each component is modelled once, in the copy that
defines it.  Of what is left the largest parts are the simulation of the machine (a MIPS
interpreter, consoles, disks on UNIX files), code generated by an interface compiler under
`cse775`, graphical front ends and homework, all of them without state that
several actors share.

## 7. Plan

1. `FileLife`: sub-directories, and headers cached by `OpenFile` (`last_modified`).
2. `Fragments`: the indirect block; contents of files as in `Files`.
3. `Process`: threads inside a process and their semaphores.
4. Proofs: the one-thread theorems of `FileLife` for several threads that never use one name at
   the same time; `FragmentAccounting` for a directory that has grown, once the bitmaps
   that `Create` writes back are those on the disk.
