------------------------------ MODULE FileLife ------------------------------
(***************************************************************************)
(* The life of a file in the final project's file system: Create, Open,    *)
(* close (~OpenFile), Remove and Unlink (filesys/filesys.cc, openfile.cc), *)
(* with the usage counts and the deferred deletion of metatable.cc.        *)
(*                                                                         *)
(* Create and Remove hold fs_control_lock; Open, ~OpenFile and the Unlink  *)
(* that ~OpenFile calls do not.  A thread can lose the processor at every  *)
(* disk request and at every lock operation: a directory or a bitmap that  *)
(* is read from disk, changed in memory and written back whole is a copy   *)
(* in the frame of the operation, read in one step and written in another. *)
(* The MetaTable's own lock makes each of its operations one step.         *)
(*                                                                         *)
(* The arithmetic of inode numbers is the code's: bit i - 1 of a group's   *)
(* bitmap is found for number i, without the group's offset, and Unlink    *)
(* takes i / n for the group.  There is one directory, the root.  Which    *)
(* fragments Allocate takes is Fragments' subject: here it may fail, and   *)
(* it writes back the inode bitmaps it has read.  Files have no contents.  *)
(* The directory, and the bitmaps of all groups where the code fetches     *)
(* them all, are read and written at once.                                 *)
(***************************************************************************)
EXTENDS Naturals, FiniteSets, FiniteSetsExt

CONSTANTS
  Thread,          \* threads that use the file system
  NoThread,        \* nobody
  Name,            \* file names
  NoName,          \* the name of no file
  CylinderGroups,  \* CYLINDER_GROUPS
  InodesPerGroup,  \* getNumInodeInCylinder()
  MaxOpen          \* bound on the OpenFile objects of a thread for one inode

ASSUME FileLifeAssumption ==
  /\ IsFiniteSet(Thread)
  /\ NoThread \notin Thread
  /\ Name # {}
  /\ CylinderGroups \in Nat \ {0, 1}
  /\ InodesPerGroup \in Nat \ {0}
  /\ MaxOpen \in Nat

Cylinder == 0 .. CylinderGroups - 1
Inode == 1 .. InodesPerGroup    \* the numbers that Create hands out
Root == 1                       \* the inode of the directory
None == 0                       \* no inode: -1 in the code

VARIABLES
  dir,       \* on disk: the inode each name of the directory stands for
  inodeMap,  \* on disk: per group, the i whose bit i - 1 is set
  usage,     \* MetaTable: usage
  finish,    \* MetaTable: inodes whose finish is 1
  opened,    \* OpenFile objects of a thread for an inode
  leaks,     \* those of a thread for the directory that it cannot reach
  fsLock,    \* who holds fs_control_lock
  pc,        \* where a thread is (see Location)
  frame,     \* the local variables of its operation
  orphans    \* what was marked without a name: for InodeAccounting only

vars == <<dir, inodeMap, usage, finish, opened, leaks, fsLock, pc, frame, orphans>>

(*   idle        between operations                                        *)
(*   looking     Open: dir_file is open                                    *)
(*   found       Open: the name has been looked up                         *)
(*   opening     Open: an inode to open is known                           *)
(*   leaving     at "delete dir_file" of Open, Remove or Create            *)
(*   closing     ~OpenFile: the usage has been decremented                 *)
(*   unlinking   at the start of Unlink                                    *)
(*   unlinked    Unlink: the bitmaps have been read                        *)
(*   removing    Remove: dir_file is open                                  *)
(*   erasing     Remove: the directory has been read, the name found       *)
(*   removed     Remove: the directory has been written without the name   *)
(*   searching   Create: about to read the bitmap of the next group        *)
(*   creating    Create: a number is chosen and set in the copy            *)
(*   fetching    Create: the header is written, dir_file open              *)
(*   adding      Create: the directory has been read, the name is new      *)
(*   allocating  Create: Allocate has read the bitmaps                     *)
(*   growing     Create: Allocate has succeeded                            *)
(*   created     Create: WriteBack of the directory has returned           *)
(*   aborted     an ASSERT has failed: nachos is gone                      *)
Location == {"idle", "looking", "found", "opening", "leaving", "closing",
             "unlinking", "unlinked", "removing", "erasing", "removed",
             "searching", "creating", "fetching", "adding", "allocating",
             "growing", "created", "aborted"}

Maps == [Cylinder -> SUBSET Inode]
Table == [Name -> Inode \cup {None}]

(* A local that is not read again is reset.                                *)
Frame == [name : Name \cup {NoName},
          inode : Inode \cup {None},   \* the file the operation is about
          victim : Inode \cup {None},  \* the inode being closed or unlinked
          back : {"idle", "opening", "leaving"},  \* where that returns to
          group : Cylinder,            \* the group Create looks at ...
          cfm : SUBSET Inode,          \* ... and its copy of the bitmap
          maps : Maps,                 \* the copy of Unlink or of Allocate
          table : Table]               \* the copy of the directory

NoFrame == [name |-> NoName, inode |-> None, victim |-> None, back |-> "idle",
            group |-> 0, cfm |-> {}, maps |-> [g \in Cylinder |-> {}],
            table |-> [n \in Name |-> None]]

TypeOK ==
  /\ dir \in Table
  /\ inodeMap \in Maps
  /\ usage \in [Inode -> Nat]
  /\ finish \subseteq Inode
  /\ opened \in [Thread -> [Inode -> 0 .. MaxOpen + 1]]
  /\ leaks \in [Thread -> 0 .. MaxOpen + 1]
  /\ fsLock \in Thread \cup {NoThread}
  /\ pc \in [Thread -> Location]
  /\ frame \in [Thread -> Frame]
  /\ orphans \subseteq Inode

(* A formatted disk with its root directory, nothing open. *)
Init ==
  /\ dir = [n \in Name |-> None]
  /\ inodeMap = [g \in Cylinder |-> IF g = 0 THEN {Root} ELSE {}]
  /\ usage = [i \in Inode |-> 0]
  /\ finish = {}
  /\ opened = [t \in Thread |-> [i \in Inode |-> 0]]
  /\ leaks = [t \in Thread |-> 0]
  /\ fsLock = NoThread
  /\ pc = [t \in Thread |-> "idle"]
  /\ frame = [t \in Thread |-> NoFrame]
  /\ orphans = {}

Goto(t, where) == pc' = [pc EXCEPT ![t] = where]

SetFrame(t, f) == frame' = [frame EXCEPT ![t] = f]

(* An idle thread calls an operation; an operation returns. *)
Start(t, where, f) == pc[t] = "idle" /\ Goto(t, where) /\ SetFrame(t, f)
Return(t) == Goto(t, "idle") /\ SetFrame(t, NoFrame)

(* The constructor of OpenFile counts the object, ... *)
CountOpen(t, i) ==
  /\ usage' = [usage EXCEPT ![i] = @ + 1]
  /\ opened' = [opened EXCEPT ![t][i] = @ + 1]

(* ... and its destructor calls decUsage. *)
CountClose(t, i) ==
  /\ usage' = [usage EXCEPT ![i] = IF @ > 1 THEN @ - 1 ELSE 0]
  /\ opened' = [opened EXCEPT ![t][i] = @ - 1]

(* ~OpenFile, or the Unlink it calls, or that Remove calls, is done: the   *)
(* operation goes on, and releases fs_control_lock if it still holds it.   *)
Continue(t) ==
  /\ Goto(t, frame[t].back)
  /\ SetFrame(t, IF frame[t].back = "idle"
                 THEN NoFrame ELSE [frame[t] EXCEPT !.back = "idle"])
  /\ fsLock' = IF fsLock = t THEN NoThread ELSE fsLock
-----------------------------------------------------------------------------
(* FileSystem::Open opens the directory, without fs_control_lock, ... *)
Open(t, n) ==
  /\ \A i \in Inode : opened[t][i] < MaxOpen
  /\ Start(t, "looking", [NoFrame EXCEPT !.name = n])
  /\ CountOpen(t, Root)
  /\ UNCHANGED <<dir, inodeMap, finish, leaks, fsLock, orphans>>

(* ... or takes "/" for inode 1; ... *)
OpenRoot(t) ==
  /\ \A i \in Inode : opened[t][i] < MaxOpen
  /\ Start(t, "opening", [NoFrame EXCEPT !.inode = Root])
  /\ UNCHANGED <<dir, inodeMap, usage, finish, opened, leaks, fsLock, orphans>>

(* ... it looks the name up, ... *)
OpenFind(t) ==
  /\ pc[t] = "looking"
  /\ SetFrame(t, [frame[t] EXCEPT !.inode = dir[frame[t].name]])
  /\ Goto(t, "found")
  /\ UNCHANGED <<dir, inodeMap, usage, finish, opened, leaks, fsLock, orphans>>

(* ... asks meta_table->waitingFinish and, if so, returns without deleting *)
(* dir_file; of the inode -1 of a name that is not there findInodeIndex    *)
(* returns no value, so that either can happen.                            *)
OpenCheck(t) ==
  /\ pc[t] = "found"
  /\ \/ /\ frame[t].inode \in finish \cup {None}
        /\ leaks' = [leaks EXCEPT ![t] = @ + 1]
        /\ Return(t)
     \/ /\ frame[t].inode \notin finish
        /\ SetFrame(t, [NoFrame EXCEPT
                          !.inode = frame[t].inode,
                          !.back = IF frame[t].inode = None THEN "idle" ELSE "opening"])
        /\ Goto(t, "leaving")
        /\ UNCHANGED leaks
  /\ UNCHANGED <<dir, inodeMap, usage, finish, opened, fsLock, orphans>>

(* Slip: the constructor does not count the object. *)
OpenFileUncounted(t) ==
  /\ pc[t] = "opening"
  /\ opened' = [opened EXCEPT ![t][frame[t].inode] = @ + 1]
  /\ Return(t)
  /\ UNCHANGED <<dir, inodeMap, usage, finish, leaks, fsLock, orphans>>

(* ... and constructs the OpenFile. *)
OpenFile(t) ==
  /\ pc[t] = "opening"
  /\ CountOpen(t, frame[t].inode)
  /\ Return(t)
  /\ UNCHANGED <<dir, inodeMap, finish, leaks, fsLock, orphans>>
-----------------------------------------------------------------------------
(* ~OpenFile: decUsage ... *)
Close(t, i) ==
  /\ opened[t][i] > IF i = Root THEN leaks[t] ELSE 0
  /\ Start(t, "closing", [NoFrame EXCEPT !.victim = i])
  /\ CountClose(t, i)
  /\ UNCHANGED <<dir, inodeMap, finish, leaks, fsLock, orphans>>

(* Slip: the operations do not delete dir_file. *)
LeaveOpen(t) ==
  /\ pc[t] = "leaving"
  /\ SetFrame(t, [frame[t] EXCEPT !.victim = Root])
  /\ Goto(t, "closing")
  /\ UNCHANGED <<dir, inodeMap, usage, finish, opened, leaks, fsLock, orphans>>

(* (the same for the dir_file of Open, Remove and Create) *)
Leave(t) ==
  /\ pc[t] = "leaving"
  /\ CountClose(t, Root)
  /\ SetFrame(t, [frame[t] EXCEPT !.victim = Root])
  /\ Goto(t, "closing")
  /\ UNCHANGED <<dir, inodeMap, finish, leaks, fsLock, orphans>>

(* The deletion of the file whose OpenFile is being deleted is due. *)
LastClose(t) == frame[t].victim \in finish /\ usage[frame[t].victim] = 0

(* Slip: checkFinish leaves finish set. *)
CheckFinishKeepsFinish(t) ==
  /\ pc[t] = "closing"
  /\ \/ LastClose(t) /\ Goto(t, "unlinking") /\ UNCHANGED <<frame, fsLock>>
     \/ ~LastClose(t) /\ Continue(t)
  /\ UNCHANGED <<dir, inodeMap, usage, finish, opened, leaks, orphans>>

(* Slip: checkFinish tests usage < 0. *)
CheckFinishNever(t) ==
  /\ pc[t] = "closing"
  /\ Continue(t)
  /\ UNCHANGED <<dir, inodeMap, usage, finish, opened, leaks, orphans>>

(* ... then checkFinish: the last user of a removed file unlinks it. *)
CheckFinish(t) ==
  /\ pc[t] = "closing"
  /\ \/ /\ LastClose(t)
        /\ finish' = finish \ {frame[t].victim}
        /\ Goto(t, "unlinking")
        /\ UNCHANGED <<frame, fsLock>>
     \/ /\ ~LastClose(t)
        /\ Continue(t)
        /\ UNCHANGED finish
  /\ UNCHANGED <<dir, inodeMap, usage, opened, leaks, orphans>>
-----------------------------------------------------------------------------
(* FileSystem::Unlink: read the bitmaps, ... *)
UnlinkFetch(t) ==
  /\ pc[t] = "unlinking"
  /\ SetFrame(t, [frame[t] EXCEPT !.maps = inodeMap])
  /\ Goto(t, "unlinked")
  /\ UNCHANGED <<dir, inodeMap, usage, finish, opened, leaks, fsLock, orphans>>

(* The group of an inode for Unlink, and the number it clears there.       *)
UnlinkGroup(i) == i \div InodesPerGroup
UnlinkNumber(i) == i - UnlinkGroup(i) * InodesPerGroup

(* ... write them back with the inode free ... *)
UnlinkWrite(t) ==
  LET i == frame[t].victim
  IN  /\ pc[t] = "unlinked"
      /\ UnlinkNumber(i) # None
      /\ inodeMap' = [frame[t].maps EXCEPT ![UnlinkGroup(i)] = @ \ {UnlinkNumber(i)}]
      /\ Continue(t)
      /\ UNCHANGED <<dir, usage, finish, opened, leaks, orphans>>

(* ... or fail the ASSERT of Bitmap::Clear(-1). *)
UnlinkAborts(t) ==
  /\ pc[t] = "unlinked"
  /\ UnlinkNumber(frame[t].victim) = None
  /\ Goto(t, "aborted")
  /\ UNCHANGED <<dir, inodeMap, usage, finish, opened, leaks, fsLock, frame, orphans>>
-----------------------------------------------------------------------------
(* FileSystem::Remove takes fs_control_lock, opens the directory, ... *)
RemoveFile(t, n) ==
  /\ fsLock = NoThread
  /\ fsLock' = t
  /\ Start(t, "removing", [NoFrame EXCEPT !.name = n])
  /\ CountOpen(t, Root)
  /\ UNCHANGED <<dir, inodeMap, finish, leaks, orphans>>

(* ... reads it and looks the name up, ... *)
RemoveFind(t) ==
  LET i == dir[frame[t].name]
  IN  /\ pc[t] = "removing"
      /\ \/ /\ i # None
            /\ SetFrame(t, [frame[t] EXCEPT !.inode = i, !.table = dir])
            /\ Goto(t, "erasing")
            /\ UNCHANGED fsLock
         \/ /\ i = None
            /\ fsLock' = NoThread
            /\ SetFrame(t, NoFrame)
            /\ Goto(t, "leaving")
      /\ UNCHANGED <<dir, inodeMap, usage, finish, opened, leaks, orphans>>

(* ... writes back what it read without the entry, ... *)
RemoveEntry(t) ==
  /\ pc[t] = "erasing"
  /\ dir' = [frame[t].table EXCEPT ![frame[t].name] = None]
  /\ SetFrame(t, [NoFrame EXCEPT !.inode = frame[t].inode])
  /\ Goto(t, "removed")
  /\ UNCHANGED <<inodeMap, usage, finish, opened, leaks, fsLock, orphans>>

(* Slip: Remove does not ask tryFinish. *)
TryFinishAlways(t) ==
  /\ pc[t] = "removed"
  /\ SetFrame(t, [NoFrame EXCEPT !.victim = frame[t].inode, !.back = "leaving"])
  /\ Goto(t, "unlinking")
  /\ UNCHANGED <<dir, inodeMap, usage, finish, opened, leaks, fsLock, orphans>>

(* ... and unlinks the file, or leaves that to the last that closes it. *)
TryFinish(t) ==
  LET i == frame[t].inode
  IN  /\ pc[t] = "removed"
      /\ \/ /\ usage[i] = 0
            /\ SetFrame(t, [NoFrame EXCEPT !.victim = i, !.back = "leaving"])
            /\ Goto(t, "unlinking")
            /\ UNCHANGED <<finish, fsLock>>
         \/ /\ usage[i] > 0
            /\ finish' = finish \cup {i}
            /\ fsLock' = NoThread
            /\ SetFrame(t, NoFrame)
            /\ Goto(t, "leaving")
      /\ UNCHANGED <<dir, inodeMap, usage, opened, leaks, orphans>>
-----------------------------------------------------------------------------
(* Slip: Create does not take fs_control_lock. *)
CreateUnlocked(t, n) ==
  /\ Start(t, "searching", [NoFrame EXCEPT !.name = n])
  /\ UNCHANGED <<dir, inodeMap, usage, finish, opened, leaks, fsLock, orphans>>

(* FileSystem::Create takes fs_control_lock, ... *)
Create(t, n) ==
  /\ fsLock = NoThread
  /\ fsLock' = t
  /\ Start(t, "searching", [NoFrame EXCEPT !.name = n])
  /\ UNCHANGED <<dir, inodeMap, usage, finish, opened, leaks, orphans>>

(* ... reads the bitmap of one group after the other until it finds a bit  *)
(* that is clear: that bit, in whichever group, gives the number, ...      *)
CreateSearch(t) ==
  LET g == frame[t].group
      free == Inode \ inodeMap[g]
  IN  /\ pc[t] = "searching"
      /\ \/ /\ free # {}
            /\ SetFrame(t, [frame[t] EXCEPT !.inode = Min(free),
                                            !.cfm = inodeMap[g] \cup {Min(free)}])
            /\ Goto(t, "creating")
            /\ UNCHANGED fsLock
         \/ /\ free = {} /\ g + 1 \in Cylinder
            /\ SetFrame(t, [frame[t] EXCEPT !.group = g + 1])
            /\ UNCHANGED <<pc, fsLock>>
         \/ /\ free = {} /\ g + 1 \notin Cylinder
            /\ fsLock' = NoThread
            /\ Return(t)
      /\ UNCHANGED <<dir, inodeMap, usage, finish, opened, leaks, orphans>>

(* ... writes an empty header over whatever the number had, the directory  *)
(* included, and opens the directory; ...                                  *)
CreateHeader(t) ==
  /\ pc[t] = "creating"
  /\ dir' = IF frame[t].inode = Root THEN [n \in Name |-> None] ELSE dir
  /\ CountOpen(t, Root)
  /\ Goto(t, "fetching")
  /\ UNCHANGED <<inodeMap, finish, leaks, fsLock, frame, orphans>>

(* ... it reads the directory and, if the name is new, ... *)
CreateFind(t) ==
  /\ pc[t] = "fetching"
  /\ \/ /\ dir[frame[t].name] = None
        /\ SetFrame(t, [frame[t] EXCEPT !.table = dir])
        /\ Goto(t, "adding")
     \/ /\ dir[frame[t].name] # None
        /\ SetFrame(t, NoFrame)
        /\ Goto(t, "leaving")
  /\ UNCHANGED <<dir, inodeMap, usage, finish, opened, leaks, fsLock, orphans>>

(* ... has Allocate read all bitmaps ... *)
AllocateFetch(t) ==
  /\ pc[t] = "adding"
  /\ SetFrame(t, [frame[t] EXCEPT !.maps = inodeMap])
  /\ Goto(t, "allocating")
  /\ UNCHANGED <<dir, inodeMap, usage, finish, opened, leaks, fsLock, orphans>>

(* ... and write them, if the directory needs another fragment; ... *)
AllocateWrite(t) ==
  /\ pc[t] = "allocating"
  /\ inodeMap' \in {inodeMap, frame[t].maps}
  /\ SetFrame(t, [frame[t] EXCEPT !.maps = NoFrame.maps])
  /\ Goto(t, "growing")
  /\ UNCHANGED <<dir, usage, finish, opened, leaks, fsLock, orphans>>

(* ... when there is no fragment the directory is not written, which       *)
(* WriteBack does not report, ...                                          *)
AllocateFails(t) ==
  /\ pc[t] = "allocating"
  /\ orphans' = orphans \cup {frame[t].inode}
  /\ SetFrame(t, [NoFrame EXCEPT !.group = frame[t].group, !.cfm = frame[t].cfm])
  /\ Goto(t, "created")
  /\ UNCHANGED <<dir, inodeMap, usage, finish, opened, leaks, fsLock>>

(* ... otherwise it is, as it was read and with the new entry; ... *)
CreateAdd(t) ==
  /\ pc[t] = "growing"
  /\ dir' = [frame[t].table EXCEPT ![frame[t].name] = frame[t].inode]
  /\ SetFrame(t, [NoFrame EXCEPT !.group = frame[t].group, !.cfm = frame[t].cfm])
  /\ Goto(t, "created")
  /\ UNCHANGED <<inodeMap, usage, finish, opened, leaks, fsLock, orphans>>

(* ... in either case the copy of the bitmap goes to its group. *)
CreateWrite(t) ==
  /\ pc[t] = "created"
  /\ inodeMap' = [inodeMap EXCEPT ![frame[t].group] = frame[t].cfm]
  /\ SetFrame(t, NoFrame)
  /\ Goto(t, "leaving")
  /\ UNCHANGED <<dir, usage, finish, opened, leaks, fsLock, orphans>>

Step(t) ==
  \/ \E n \in Name : Open(t, n) \/ RemoveFile(t, n) \/ Create(t, n)
  \/ \E i \in Inode : Close(t, i)
  \/ OpenRoot(t) \/ OpenFind(t) \/ OpenCheck(t) \/ OpenFile(t)
  \/ Leave(t) \/ CheckFinish(t)
  \/ UnlinkFetch(t) \/ UnlinkWrite(t) \/ UnlinkAborts(t)
  \/ RemoveFind(t) \/ RemoveEntry(t) \/ TryFinish(t)
  \/ CreateSearch(t) \/ CreateHeader(t) \/ CreateFind(t)
  \/ AllocateFetch(t) \/ AllocateWrite(t) \/ AllocateFails(t)
  \/ CreateAdd(t) \/ CreateWrite(t)

Running == \A t \in Thread : pc[t] # "aborted"

Next == Running /\ \E t \in Thread : Step(t)

Spec == Init /\ [][Next]_vars
-----------------------------------------------------------------------------
(* Create has not had to leave the first group, whose numbers it gives out *)
(* a second time from the others.                                          *)
FirstGroupSuffices == \A g \in Cylinder \ {0} : inodeMap[g] = {}

(* Why an inode is in use: it is the directory, a name stands for it, its  *)
(* deletion waits for the last close, or Create marked it and then found   *)
(* no fragment for the directory.                                          *)
Named == {i \in Inode : \E n \in Name : dir[n] = i}
InUse == {Root} \cup Named \cup finish \cup orphans

(* Between operations of a file system used by one thread at a time, which *)
(* is what filesys.cc says it is for, and as long as the first group has   *)
(* room, an inode is marked exactly if it is in use, for one reason only,  *)
(* and no two names stand for one inode.                                   *)
InodeAccounting ==
  (\A t \in Thread : pc[t] = "idle") /\ FirstGroupSuffices =>
    /\ inodeMap[0] = InUse
    /\ Root \notin Named \cup finish \cup orphans
    /\ Named \cap finish = {} /\ Named \cap orphans = {} /\ finish \cap orphans = {}
    /\ \A n, m \in Name : dir[n] = dir[m] /\ dir[n] # None => n = m

(* threadtest.cc: a removed file "is still in use since its openfile object *)
(* still exists": while the first group has room, the inode of an OpenFile  *)
(* is not free, so that no file created later gets it while the OpenFile    *)
(* reads and writes it.                                                     *)
OpenFileSurvives ==
  FirstGroupSuffices =>
    \A t \in Thread, i \in Inode : opened[t][i] > 0 => i \in inodeMap[0]

(* The OpenFile objects for an inode, each of a thread and numbered.       *)
Objects(i) == {o \in Thread \X (1 .. MaxOpen + 1) : o[2] <= opened[o[1]][i]}

(* The usage of an inode is the number of OpenFile objects for it, those   *)
(* that Open forgets included, however opens, closes and removals overlap: *)
(* the clamp at 0 in decUsage never hides a count that went wrong.         *)
UsageCounts == \A i \in Inode : usage[i] = Cardinality(Objects(i))

(* A deferred deletion is never forgotten: while it is due, somebody has   *)
(* the file open, or is closing it and has not called checkFinish yet.     *)
FinishSettled ==
  \A i \in finish : \/ usage[i] > 0
                    \/ \E t \in Thread : pc[t] = "closing" /\ frame[t].victim = i

(* The directory that Create or Remove has read is still the one on disk   *)
(* when it writes the whole of it back, although it loses the processor in *)
(* between: no other thread's entry is lost or brought back.               *)
DirectoryStable ==
  \A t \in Thread :
    pc[t] \in {"erasing", "adding", "allocating", "growing"} => frame[t].table = dir

(* Bitmap::Clear asserts that the bit it is given is in the bitmap.        *)
NoAbort == Running
=============================================================================
