------------------------- MODULE FinalProjectProofs -------------------------
(***************************************************************************)
(* Proofs about the final project's file system.                           *)
(*                                                                         *)
(* FileLife, the life of files.  For any number of threads: types, usage   *)
(* counts, deferred deletions and the directory under fs_control_lock.     *)
(* For one thread, the use filesys.cc is written for, and as long as the   *)
(* inodes of the first group suffice: inodes are neither leaked nor given  *)
(* to two files, and an open file keeps its inode.                         *)
(*                                                                         *)
(* Fragments, where the data of files goes.  NextPlaceForSmallFragments    *)
(* finds a place exactly if there is one, whatever the bitmap; Allocate    *)
(* refuses only when the disk is full, extends every layout to a layout,   *)
(* and, while the directory stays in its first fragment, gives no fragment *)
(* to two files.                                                           *)
(***************************************************************************)
EXTENDS FileLife, Fragments, Lists

(* Where a thread has fs_control_lock, whatever it came from.              *)
Locking == {"removing", "erasing", "removed", "searching", "creating", "fetching",
            "adding", "allocating", "growing", "created"}

(* Where Create has chosen a number and not yet written the directory.     *)
Choosing == {"creating", "fetching", "adding", "allocating", "growing"}

(* Create and Remove run under the lock.                                   *)
Locked(t) == pc[t] \in Locking => fsLock = t

(* An operation has in its frame what it is going to use.                  *)
InHand(t) ==
  LET f == frame[t]
  IN  /\ pc[t] \in {"looking", "removing", "erasing", "searching"} \cup Choosing =>
           f.name \in Name
      /\ pc[t] \in {"opening", "erasing", "removed"} \cup Choosing => f.inode \in Inode
      /\ pc[t] \in {"closing", "unlinking", "unlinked"} => f.victim \in Inode
      /\ f.back = "opening" => /\ f.inode \in Inode
                               /\ pc[t] \in {"leaving", "closing", "unlinking",
                                             "unlinked", "aborted"}
      /\ f.back = "opening" /\ pc[t] = "closing" => f.victim = Root
      /\ f.back = "leaving" => pc[t] \in {"unlinking", "unlinked", "aborted"}
      /\ pc[t] \in {"idle", "looking"} => f.inode = None

(* An operation holds an OpenFile of the directory that it will delete.    *)
HoldsDir(t) ==
  \/ pc[t] \in {"looking", "found", "leaving", "removing", "erasing", "removed"}
  \/ pc[t] \in {"fetching", "adding", "allocating", "growing", "created"}
  \/ frame[t].back = "leaving"

(* The OpenFile objects for an inode without that one.                     *)
Rest(t, i) == IF i = Root /\ HoldsDir(t) THEN opened[t][i] - 1 ELSE opened[t][i]

(* Open is under way.                                                      *)
InOpen(t) == pc[t] \in {"looking", "found", "opening"} \/ frame[t].back = "opening"

(* The bound on OpenFile objects leaves room for what operations open.     *)
Room(t) ==
  /\ \A i \in Inode : /\ Rest(t, i) \in 0 .. MaxOpen
                      /\ InOpen(t) => Rest(t, i) < MaxOpen
  /\ leaks[t] <= Rest(t, Root)

(* What Create or Remove has read of the directory is still there.         *)
TableIsCurrent(t) ==
  pc[t] \in {"erasing", "adding", "allocating", "growing"} => frame[t].table = dir

LifeInv ==
  /\ TypeOK
  /\ \A t \in Thread : InHand(t) /\ Room(t) /\ Locked(t) /\ TableIsCurrent(t)
  /\ UsageCounts
  /\ FinishSettled

(* Copies of the bitmaps are current when they are written back.           *)
MapsAreCurrent(t) == pc[t] \in {"unlinked", "allocating"} => frame[t].maps = inodeMap

(* What Remove and Create have looked up in their copy of the directory.   *)
LookedUp(t) ==
  LET f == frame[t]
  IN  /\ pc[t] = "erasing" => f.table[f.name] = f.inode
      /\ pc[t] \in {"adding", "allocating", "growing"} => f.table[f.name] = None

(* The copy of Create has the number it chose.                             *)
CopyIsMarked(t) == pc[t] \in Choosing \cup {"created"} => frame[t].cfm # {}

(* Create is about to leave the first group: it is full, the number is the *)
(* directory's, and the directory has been emptied.                        *)
LeavingFirstGroup(t) ==
  FirstGroupSuffices /\ frame[t].group # 0 =>
    /\ inodeMap[0] = Inode
    /\ pc[t] \in {"searching", "created"} \cup Choosing
    /\ pc[t] \in Choosing => frame[t].inode = Root
    /\ pc[t] = "fetching" => \A n \in Name : dir[n] = None

(* The first group is all that has been used.                              *)
Calm(t) == FirstGroupSuffices /\ frame[t].group = 0

(* The inode about to be unlinked.                                         *)
Due(t) == IF pc[t] = "removed" THEN {frame[t].inode}
          ELSE IF pc[t] \in {"unlinking", "unlinked", "aborted"} THEN {frame[t].victim}
          ELSE {}

(* An inode is in use for one reason.                                      *)
OneReason(t) ==
  /\ Root \notin Named \cup finish \cup orphans \cup Due(t)
  /\ Named \cap finish = {} /\ Named \cap orphans = {} /\ finish \cap orphans = {}
  /\ Due(t) \cap (Named \cup finish \cup orphans) = {}
  /\ \A n, m \in Name : dir[n] = dir[m] /\ dir[n] # None => n = m

(* What is in use is marked, or will be when Create writes its copy.       *)
MarkedInUse(t) ==
  /\ pc[t] # "created" => inodeMap[0] = InUse \cup Due(t)
  /\ pc[t] \in Choosing => /\ frame[t].inode \notin inodeMap[0]
                           /\ frame[t].cfm = inodeMap[0] \cup {frame[t].inode}
  /\ pc[t] = "created" => frame[t].cfm = InUse /\ inodeMap[0] \subseteq InUse

(* What is open, or about to be, is marked; what is unlinked is not open.  *)
OpenIsMarked(t) ==
  /\ \A i \in Inode : opened[t][i] > 0 => i \in inodeMap[0]
  /\ InOpen(t) /\ frame[t].inode # None => frame[t].inode \in inodeMap[0]
  /\ pc[t] \in {"unlinking", "unlinked"} =>
       /\ opened[t][frame[t].victim] = 0
       /\ frame[t].back # "opening"

AloneInv(t) ==
  /\ MapsAreCurrent(t) /\ LookedUp(t) /\ CopyIsMarked(t) /\ LeavingFirstGroup(t)
  /\ Calm(t) => OneReason(t) /\ MarkedInUse(t) /\ OpenIsMarked(t)

(* The frame of an operation that has not begun, and its types.            *)
LEMMA FrameTypes ==
  /\ NoFrame \in Frame
  /\ NoFrame.name = NoName /\ NoFrame.inode = None /\ NoFrame.victim = None
  /\ NoFrame.back = "idle" /\ NoFrame.group = 0 /\ NoFrame.cfm = {}
  /\ NoFrame.maps \in Maps /\ NoFrame.table \in Table
  /\ Root \in Inode /\ None \notin Inode /\ 0 \in Cylinder
<1>1. Root \in Inode /\ 0 \in Cylinder /\ None \notin Inode
  BY FileLifeAssumption DEF Root, None, Inode, Cylinder
<1>2. NoFrame \in Frame
  BY <1>1 DEF NoFrame, Frame, Maps, Table
<1> QED
  BY <1>1, <1>2 DEF NoFrame, Frame

(* What a step does to the disk, the lock and the thread is well typed.    *)
LEMMA StepTypes ==
  ASSUME TypeOK, NEW t \in Thread, \A u \in Thread : InHand(u), Step(t)
  PROVE  /\ pc' \in [Thread -> Location] /\ frame' \in [Thread -> Frame]
         /\ dir' \in Table /\ inodeMap' \in Maps
         /\ finish' \subseteq Inode /\ orphans' \subseteq Inode
         /\ fsLock' \in Thread \cup {NoThread}
<1>0. /\ pc \in [Thread -> Location] /\ frame \in [Thread -> Frame]
      /\ dir \in Table /\ inodeMap \in Maps /\ finish \subseteq Inode
      /\ orphans \subseteq Inode /\ fsLock \in Thread \cup {NoThread}
  BY DEF TypeOK
<1>f. frame[t] \in Frame
  BY <1>0
<1>h. /\ pc[t] \in {"looking", "removing", "fetching", "growing"} => frame[t].name \in Name
      /\ pc[t] \in {"opening", "erasing", "removed", "allocating", "growing"} =>
           frame[t].inode \in Inode
  BY DEF InHand, Choosing
<1>1. CASE OpenRoot(t) \/ \E n \in Name : Open(t, n)
  BY <1>0, <1>1, FrameTypes DEF Open, OpenRoot, Start, Goto, SetFrame, Location, Frame
<1>2. CASE OpenFind(t)
  BY <1>0, <1>f, <1>h, <1>2, FrameTypes DEF OpenFind, Goto, SetFrame, Location, Frame, InHand, Table
<1>3. CASE OpenCheck(t)
  <2>1. IF frame[t].inode = None THEN TRUE ELSE frame[t].inode \in Inode
    BY <1>f DEF Frame
  <2>2. [NoFrame EXCEPT !.inode = frame[t].inode,
           !.back = IF frame[t].inode = None THEN "idle" ELSE "opening"] \in Frame
    BY <1>f, FrameTypes DEF Frame
  <2> QED
    BY <1>0, <1>3, <2>2, FrameTypes DEF OpenCheck, Return, Goto, SetFrame, Location
<1>4. CASE OpenFile(t) \/ Leave(t) \/ UnlinkAborts(t) \/ \E i \in Inode : Close(t, i)
  BY <1>0, <1>f, <1>4, FrameTypes DEF OpenFile, Leave, UnlinkAborts, Close, Start, Return, Goto,
     SetFrame, Location, Frame
<1>5. CASE CheckFinish(t)
  BY <1>0, <1>f, <1>5, FrameTypes DEF CheckFinish, Continue, Goto, SetFrame, Location, Frame
<1>6. CASE UnlinkFetch(t) \/ AllocateFetch(t)
  BY <1>0, <1>f, <1>6, FrameTypes DEF UnlinkFetch, AllocateFetch, Goto, SetFrame, Location, Frame
<1>7. CASE UnlinkWrite(t)
  BY <1>0, <1>f, <1>7, FrameTypes DEF UnlinkWrite, Continue, Goto, SetFrame, Location, Frame, Maps
<1>8. CASE \E n \in Name : RemoveFile(t, n) \/ Create(t, n)
  BY <1>0, <1>f, <1>8, FrameTypes DEF RemoveFile, Create, Start, Goto, SetFrame, Location, Frame
<1>9. CASE RemoveFind(t)
  <2> DEFINE i == dir[frame[t].name]
  <2>1. i # None => [frame[t] EXCEPT !.inode = i, !.table = dir] \in Frame
    <3>1. i \in Inode \cup {None}
      BY <1>0, <1>h, <1>9 DEF RemoveFind, Table
    <3> QED
      BY <1>0, <1>f, <3>1 DEF Frame
  <2> QED
    BY <1>0, <1>9, <2>1, FrameTypes DEF RemoveFind, Goto, SetFrame, Location
<1>10. CASE RemoveEntry(t)
  BY <1>0, <1>f, <1>10, FrameTypes DEF RemoveEntry, Goto, SetFrame, Location, Frame, Table
<1>11. CASE TryFinish(t)
  <2>1. frame[t].inode \in Inode
    BY <1>h, <1>11 DEF TryFinish
  <2>2. [NoFrame EXCEPT !.victim = frame[t].inode, !.back = "leaving"] \in Frame
    BY <2>1, FrameTypes DEF Frame
  <2> QED
    BY <1>0, <1>11, <2>1, <2>2, FrameTypes DEF TryFinish, Goto, SetFrame, Location
<1>12. CASE CreateSearch(t)
  <2>1. frame[t].group \in Cylinder /\ frame[t].cfm \subseteq Inode
    BY <1>f DEF Frame
  <2>2. inodeMap[frame[t].group] \subseteq Inode
    BY <1>0, <2>1 DEF Maps
  <2>3. Inode \ inodeMap[frame[t].group] # {} =>
          Min(Inode \ inodeMap[frame[t].group]) \in Inode
    <3>1. Inode \ inodeMap[frame[t].group] \subseteq Nat
      BY DEF Inode
    <3> QED
      BY <3>1, MinIsElement
  <2>4. Inode \ inodeMap[frame[t].group] # {} =>
          [frame[t] EXCEPT !.inode = Min(Inode \ inodeMap[frame[t].group]),
             !.cfm = inodeMap[frame[t].group] \cup {Min(Inode \ inodeMap[frame[t].group])}]
            \in Frame
    BY <1>f, <2>1, <2>2, <2>3 DEF Frame
  <2>5. frame[t].group + 1 \in Cylinder =>
          [frame[t] EXCEPT !.group = frame[t].group + 1] \in Frame
    BY <1>f DEF Frame
  <2> QED
    BY <1>0, <1>12, <2>4, <2>5, FrameTypes DEF CreateSearch, Return, Goto, SetFrame, Location
<1>13. CASE CreateHeader(t)
  BY <1>0, <1>f, <1>13, FrameTypes DEF CreateHeader, Goto, Location, Table
<1>14. CASE CreateFind(t)
  BY <1>0, <1>f, <1>14, FrameTypes DEF CreateFind, Goto, SetFrame, Location, Frame
<1>15. CASE AllocateWrite(t)
  <2>1. frame[t].maps \in Maps
    BY <1>f DEF Frame
  <2> QED
    BY <1>0, <1>f, <1>15, <2>1, FrameTypes DEF AllocateWrite, Goto, SetFrame, Location, Frame
<1>16. CASE AllocateFails(t)
  BY <1>0, <1>f, <1>h, <1>16, FrameTypes DEF AllocateFails, Goto, SetFrame, Location, Frame
<1>17. CASE CreateAdd(t)
  <2>1. frame[t].table \in Table /\ frame[t].name \in Name /\ frame[t].inode \in Inode
    BY <1>f, <1>h, <1>17 DEF CreateAdd, Frame
  <2>2. dir' \in Table
    BY <1>17, <2>1 DEF CreateAdd, Table
  <2>3. [NoFrame EXCEPT !.group = frame[t].group, !.cfm = frame[t].cfm] \in Frame
    BY <1>f, FrameTypes DEF Frame
  <2> QED
    BY <1>0, <1>17, <2>2, <2>3 DEF CreateAdd, Goto, SetFrame, Location
<1>18. CASE CreateWrite(t)
  BY <1>0, <1>f, <1>18, FrameTypes DEF CreateWrite, Goto, SetFrame, Location, Frame, Maps
<1> QED
  BY <1>1, <1>2, <1>3, <1>4, <1>5, <1>6, <1>7, <1>8, <1>9, <1>10, <1>11, <1>12, <1>13,
     <1>14, <1>15, <1>16, <1>17, <1>18 DEF Step

(* A step of t leaves the other threads where they are.                    *)
LEMMA OthersStay ==
  ASSUME TypeOK, NEW t \in Thread, Step(t), NEW u \in Thread, u # t
  PROVE  UNCHANGED <<pc[u], frame[u], opened[u], leaks[u]>>
<1>0. /\ pc \in [Thread -> Location] /\ frame \in [Thread -> Frame]
      /\ opened \in [Thread -> [Inode -> 0 .. MaxOpen + 1]]
      /\ leaks \in [Thread -> 0 .. MaxOpen + 1]
  BY DEF TypeOK
<1>1. \E q : pc' = [pc EXCEPT ![t] = q]
  <2>1. pc' = pc \/ \E q : Goto(t, q)
    BY DEF Step, Open, OpenRoot, OpenFind, OpenCheck, OpenFile, Close, Leave, CheckFinish,
       UnlinkFetch, UnlinkWrite, UnlinkAborts, RemoveFile, RemoveFind, RemoveEntry, TryFinish,
       Create, CreateSearch, CreateHeader, CreateFind, AllocateFetch, AllocateWrite,
       AllocateFails, CreateAdd, CreateWrite, Start, Return, Continue
  <2> QED
    BY <1>0, <2>1 DEF Goto
<1>2. \E f : frame' = [frame EXCEPT ![t] = f]
  <2>1. frame' = frame \/ \E f : SetFrame(t, f)
    BY DEF Step, Open, OpenRoot, OpenFind, OpenCheck, OpenFile, Close, Leave, CheckFinish,
       UnlinkFetch, UnlinkWrite, UnlinkAborts, RemoveFile, RemoveFind, RemoveEntry, TryFinish,
       Create, CreateSearch, CreateHeader, CreateFind, AllocateFetch, AllocateWrite,
       AllocateFails, CreateAdd, CreateWrite, Start, Return, Continue
  <2> QED
    BY <1>0, <2>1 DEF SetFrame
<1>3. /\ \/ opened' = opened
         \/ \E i : opened' = [opened EXCEPT ![t][i] = @ + 1]
         \/ \E i : opened' = [opened EXCEPT ![t][i] = @ - 1]
      /\ leaks' = leaks \/ leaks' = [leaks EXCEPT ![t] = @ + 1]
  BY DEF Step, Open, OpenRoot, OpenFind, OpenCheck, OpenFile, Close, Leave, CheckFinish,
     UnlinkFetch, UnlinkWrite, UnlinkAborts, RemoveFile, RemoveFind, RemoveEntry, TryFinish,
     Create, CreateSearch, CreateHeader, CreateFind, AllocateFetch, AllocateWrite,
     AllocateFails, CreateAdd, CreateWrite, CountOpen, CountClose
<1> QED
  BY <1>0, <1>1, <1>2, <1>3

(* What a step does to the OpenFile objects: nothing, or it opens or       *)
(* deletes the dir_file of an operation, or forgets it, or it opens or     *)
(* closes a file.                                                          *)
Neither(t) ==
  /\ UNCHANGED <<usage, opened, leaks>>
  /\ HoldsDir(t)' = HoldsDir(t)
  /\ InOpen(t)' => InOpen(t) \/ \A i \in Inode : ~HoldsDir(t) /\ opened[t][i] < MaxOpen

OpensDir(t) ==
  /\ ~HoldsDir(t) /\ HoldsDir(t)' /\ CountOpen(t, Root) /\ UNCHANGED leaks
  /\ InOpen(t)' => \A i \in Inode : opened[t][i] < MaxOpen

DeletesDir(t) ==
  /\ HoldsDir(t) /\ ~HoldsDir(t)' /\ CountClose(t, Root) /\ UNCHANGED leaks
  /\ InOpen(t)' => InOpen(t)

ForgetsDir(t) ==
  /\ HoldsDir(t) /\ ~HoldsDir(t)' /\ InOpen(t) /\ ~InOpen(t)'
  /\ UNCHANGED <<usage, opened>> /\ leaks' = [leaks EXCEPT ![t] = @ + 1]

OpensFile(t, i) ==
  /\ ~HoldsDir(t) /\ ~HoldsDir(t)' /\ InOpen(t) /\ ~InOpen(t)'
  /\ CountOpen(t, i) /\ UNCHANGED leaks

ClosesFile(t, i) ==
  /\ ~HoldsDir(t) /\ ~HoldsDir(t)' /\ ~InOpen(t)'
  /\ opened[t][i] > IF i = Root THEN leaks[t] ELSE 0
  /\ CountClose(t, i) /\ UNCHANGED leaks

LEMMA ObjectsChange ==
  ASSUME TypeOK, NEW t \in Thread, \A u \in Thread : InHand(u), Step(t)
  PROVE  \/ Neither(t) \/ OpensDir(t) \/ DeletesDir(t) \/ ForgetsDir(t)
         \/ \E i \in Inode : OpensFile(t, i) \/ ClosesFile(t, i)
<1>0. /\ pc \in [Thread -> Location] /\ frame \in [Thread -> Frame]
  BY DEF TypeOK
<1>f. frame[t] \in Frame
  BY <1>0
<1>h. /\ frame[t].back = "leaving" => pc[t] \in {"unlinking", "unlinked", "aborted"}
      /\ frame[t].back = "opening" =>
           pc[t] \in {"leaving", "closing", "unlinking", "unlinked", "aborted"}
      /\ pc[t] = "opening" => frame[t].inode \in Inode
      /\ frame[t].back \in {"idle", "opening", "leaving"}
  BY <1>f DEF InHand, Frame
<1>1. ASSUME NEW n \in Name, Open(t, n) \/ RemoveFile(t, n) PROVE OpensDir(t)
  BY <1>0, <1>f, <1>h, <1>1, FrameTypes DEF Open, RemoveFile, Start, Goto, SetFrame, OpensDir,
     HoldsDir, InOpen, Frame
<1>2. CASE CreateHeader(t)
  BY <1>0, <1>f, <1>h, <1>2, FrameTypes DEF CreateHeader, Goto, OpensDir, HoldsDir, InOpen
<1>3. CASE Leave(t)
  BY <1>0, <1>f, <1>h, <1>3, FrameTypes DEF Leave, Goto, SetFrame, DeletesDir, HoldsDir, InOpen,
     Frame
<1>4. CASE OpenFile(t)
  BY <1>0, <1>f, <1>h, <1>4, FrameTypes DEF OpenFile, Return, Goto, SetFrame, OpensFile,
     HoldsDir, InOpen, Frame
<1>5. ASSUME NEW i \in Inode, Close(t, i) PROVE ClosesFile(t, i)
  BY <1>0, <1>f, <1>h, <1>5, FrameTypes DEF Close, Start, Goto, SetFrame, ClosesFile,
     HoldsDir, InOpen, Frame
<1>6. CASE OpenCheck(t)
  BY <1>0, <1>f, <1>h, <1>6, FrameTypes DEF OpenCheck, Return, Goto, SetFrame, Neither,
     ForgetsDir, HoldsDir, InOpen, Frame
<1>7. CASE OpenRoot(t)
  BY <1>0, <1>f, <1>h, <1>7, FrameTypes DEF OpenRoot, Start, Goto, SetFrame, Neither,
     HoldsDir, InOpen, Frame
<1>8. CASE OpenFind(t)
  BY <1>0, <1>f, <1>h, <1>8, FrameTypes DEF OpenFind, Goto, SetFrame, Neither, HoldsDir, InOpen,
     Frame
<1>9. CASE CheckFinish(t)
  BY <1>0, <1>f, <1>h, <1>9, FrameTypes DEF CheckFinish, Continue, Goto, SetFrame, Neither,
     HoldsDir, InOpen, Frame
<1>10. CASE UnlinkFetch(t) \/ UnlinkAborts(t)
  BY <1>0, <1>f, <1>h, <1>10, FrameTypes DEF UnlinkFetch, UnlinkAborts, Goto, SetFrame, Neither,
     HoldsDir, InOpen, Frame
<1>11. CASE UnlinkWrite(t)
  BY <1>0, <1>f, <1>h, <1>11, FrameTypes DEF UnlinkWrite, Continue, Goto, SetFrame, Neither,
     HoldsDir, InOpen, Frame
<1>12. CASE RemoveFind(t)
  <2>1. /\ pc[t] = "removing" /\ UNCHANGED <<usage, opened, leaks>>
        /\ \/ pc'[t] = "erasing" /\ frame'[t] = [frame[t] EXCEPT !.inode = dir[frame[t].name],
                                                              !.table = dir]
           \/ pc'[t] = "leaving" /\ frame'[t] = NoFrame
    BY <1>0, <1>12 DEF RemoveFind, Goto, SetFrame
  <2>2. [frame[t] EXCEPT !.inode = dir[frame[t].name], !.table = dir].back = frame[t].back
    BY <1>f DEF Frame
  <2> QED
    BY <1>h, <2>1, <2>2, FrameTypes DEF Neither, HoldsDir, InOpen
<1>13. CASE RemoveEntry(t)
  BY <1>0, <1>f, <1>h, <1>13, FrameTypes DEF RemoveEntry, Goto, SetFrame,
     Neither, HoldsDir, InOpen, Frame
<1>14. CASE TryFinish(t)
  <2>1. /\ pc[t] = "removed" /\ UNCHANGED <<usage, opened, leaks>>
        /\ \/ pc'[t] = "unlinking" /\ frame'[t] = [NoFrame EXCEPT !.victim = frame[t].inode,
                                                                 !.back = "leaving"]
           \/ pc'[t] = "leaving" /\ frame'[t] = NoFrame
    BY <1>0, <1>14 DEF TryFinish, Goto, SetFrame
  <2>2. [NoFrame EXCEPT !.victim = frame[t].inode, !.back = "leaving"].back = "leaving"
    BY FrameTypes DEF Frame
  <2> QED
    BY <1>h, <2>1, <2>2, FrameTypes DEF Neither, HoldsDir, InOpen
<1>15. CASE \E n \in Name : Create(t, n)
  BY <1>0, <1>f, <1>h, <1>15, FrameTypes DEF Create, Start, Goto, SetFrame,
     Neither, HoldsDir, InOpen, Frame
<1>16. CASE CreateSearch(t)
  <2> DEFINE new == Min(Inode \ inodeMap[frame[t].group])
             copy == inodeMap[frame[t].group] \cup {new}
  <2>1. /\ pc[t] = "searching" /\ UNCHANGED <<usage, opened, leaks>>
        /\ \/ /\ pc'[t] = "creating"
              /\ frame'[t] = [frame[t] EXCEPT !.inode = new, !.cfm = copy]
           \/ pc'[t] = "searching" /\ frame'[t].back = frame[t].back
           \/ pc'[t] = "idle" /\ frame'[t].back = "idle"
    BY <1>0, <1>f, <1>16, FrameTypes DEF CreateSearch, Return, Goto, SetFrame, Frame
  <2> HIDE DEF new, copy
  <2>2. [frame[t] EXCEPT !.inode = new, !.cfm = copy].back = frame[t].back
    BY <1>f DEF Frame
  <2> QED
    BY <1>h, <2>1, <2>2 DEF Neither, HoldsDir, InOpen
<1>17. CASE CreateFind(t) \/ AllocateFetch(t)
  BY <1>0, <1>f, <1>h, <1>17, FrameTypes DEF CreateFind, AllocateFetch, Goto, SetFrame, Neither,
     HoldsDir, InOpen, Frame
<1>18. CASE AllocateWrite(t) \/ AllocateFails(t)
  <2>1. /\ pc[t] = "allocating" /\ UNCHANGED <<usage, opened, leaks>>
        /\ \/ pc'[t] = "growing" /\ frame'[t].back = frame[t].back
           \/ /\ pc'[t] = "created"
              /\ frame'[t] = [NoFrame EXCEPT !.group = frame[t].group, !.cfm = frame[t].cfm]
    BY <1>0, <1>f, <1>18 DEF AllocateWrite, AllocateFails, Goto, SetFrame, Frame
  <2>2. [NoFrame EXCEPT !.group = frame[t].group, !.cfm = frame[t].cfm].back = "idle"
    BY FrameTypes DEF Frame
  <2> QED
    BY <1>h, <2>1, <2>2 DEF Neither, HoldsDir, InOpen
<1>19. CASE CreateAdd(t) \/ CreateWrite(t)
  <2>1. /\ UNCHANGED <<usage, opened, leaks>>
        /\ \/ /\ pc[t] = "growing" /\ pc'[t] = "created"
              /\ frame'[t] = [NoFrame EXCEPT !.group = frame[t].group, !.cfm = frame[t].cfm]
           \/ pc[t] = "created" /\ pc'[t] = "leaving" /\ frame'[t] = NoFrame
    BY <1>0, <1>f, <1>19 DEF CreateAdd, CreateWrite, Goto, SetFrame
  <2>2. [NoFrame EXCEPT !.group = frame[t].group, !.cfm = frame[t].cfm].back = "idle"
    BY FrameTypes DEF Frame
  <2> QED
    BY <1>h, <2>1, <2>2, FrameTypes DEF Neither, HoldsDir, InOpen
<1> QED
  BY <1>h, <1>1, <1>2, <1>3, <1>4, <1>5, <1>6, <1>7, <1>8, <1>9, <1>10, <1>11, <1>12, <1>13,
     <1>14, <1>15, <1>16, <1>17, <1>18, <1>19 DEF Step, OpenFile

(* The set of OpenFile objects is finite.                                  *)
LEMMA ObjectsFinite ==
  ASSUME NEW i
  PROVE  IsFiniteSet(Objects(i))
<1>1. IsFiniteSet(1 .. MaxOpen + 1)
  BY FileLifeAssumption, FS_Interval
<1>2. IsFiniteSet(Thread \X (1 .. MaxOpen + 1))
  BY <1>1, FileLifeAssumption, FS_Product
<1> QED
  BY <1>2, FS_Subset DEF Objects

(* What the destructor of OpenFile changes: the clamp of decUsage does     *)
(* nothing.                                                                *)
LEMMA CloseCounts ==
  ASSUME TypeOK, UsageCounts, NEW t \in Thread, NEW i \in Inode, opened[t][i] > 0,
         CountClose(t, i)
  PROVE  /\ opened[t][i] \in 1 .. MaxOpen + 1 /\ usage[i] \in Nat \ {0}
         /\ opened' = [opened EXCEPT ![t] = [opened[t] EXCEPT ![i] = opened[t][i] - 1]]
         /\ usage' = [usage EXCEPT ![i] = usage[i] - 1]
<1>1. /\ opened[t][i] \in 0 .. MaxOpen + 1 /\ usage[i] \in Nat /\ MaxOpen \in Nat
  BY FileLifeAssumption DEF TypeOK
<1>2. opened[t][i] \in 1 .. MaxOpen + 1 /\ <<t, opened[t][i]>> \in Objects(i)
  BY <1>1 DEF Objects
<1>3. IsFiniteSet(Objects(i))
  BY ObjectsFinite
<1>4. usage[i] # 0
  <2>1. usage[i] = Cardinality(Objects(i))
    BY DEF UsageCounts
  <2>2. Objects(i) # {}
    BY <1>2
  <2> QED
    BY <1>3, <2>1, <2>2, FS_EmptySet
<1>5. (IF usage[i] > 1 THEN usage[i] - 1 ELSE 0) = usage[i] - 1
  BY <1>1, <1>4
<1> QED
  BY <1>1, <1>2, <1>4, <1>5 DEF CountClose

(* A file that nobody uses is nowhere open.                                *)
LEMMA UnusedIsClosed ==
  ASSUME TypeOK, UsageCounts, NEW i \in Inode, usage[i] = 0, NEW t \in Thread
  PROVE  opened[t][i] = 0
<1>1. opened[t][i] \in 0 .. MaxOpen + 1 /\ MaxOpen \in Nat
  BY FileLifeAssumption DEF TypeOK
<1>2. Objects(i) = {}
  BY ObjectsFinite, FS_EmptySet DEF UsageCounts
<1>3. opened[t][i] > 0 => <<t, opened[t][i]>> \in Objects(i)
  BY <1>1 DEF Objects
<1> QED
  BY <1>1, <1>2, <1>3

(* A constructor counts one object more ...                                *)
LEMMA OpenKeepsCount ==
  ASSUME TypeOK, UsageCounts, NEW t \in Thread, NEW i \in Inode, opened[t][i] <= MaxOpen,
         CountOpen(t, i)
  PROVE  UsageCounts'
<1> DEFINE n == opened[t][i] + 1
<1>1. /\ usage' = [usage EXCEPT ![i] = usage[i] + 1]
      /\ opened' = [opened EXCEPT ![t] = [opened[t] EXCEPT ![i] = n]]
  BY DEF CountOpen
<1>3. /\ opened[t] \in [Inode -> 0 .. MaxOpen + 1] /\ MaxOpen \in Nat
      /\ \A u \in Thread : opened[u] \in [Inode -> 0 .. MaxOpen + 1]
  BY FileLifeAssumption DEF TypeOK
<1>4. n \in 1 .. MaxOpen + 1 /\ opened[t][i] = n - 1
  BY <1>3
<1>5. /\ opened'[t][i] = n
      /\ \A u \in Thread, j \in Inode : u # t \/ j # i => opened'[u][j] = opened[u][j]
  BY <1>1, <1>3 DEF TypeOK
<1> HIDE DEF n
<1>6. Objects(i)' = Objects(i) \cup {<<t, n>>} /\ <<t, n>> \notin Objects(i)
  <2>1. \A u \in Thread, k \in 1 .. MaxOpen + 1 :
          <<u, k>> \in Objects(i)' <=> <<u, k>> \in Objects(i) \/ <<u, k>> = <<t, n>>
    <3> SUFFICES ASSUME NEW u \in Thread, NEW k \in 1 .. MaxOpen + 1
                 PROVE  <<u, k>> \in Objects(i)' <=> <<u, k>> \in Objects(i) \/ <<u, k>> = <<t, n>>
      OBVIOUS
    <3>1. k <= opened'[u][i] <=> k <= opened[u][i] \/ (u = t /\ k = n)
      BY <1>3, <1>4, <1>5
    <3>2. /\ <<u, k>> \in Objects(i)' <=> k <= opened'[u][i]
          /\ <<u, k>> \in Objects(i) <=> k <= opened[u][i]
      BY DEF Objects
    <3> QED
      BY <3>1, <3>2
  <2>2. <<t, n>> \notin Objects(i)
    BY <1>4 DEF Objects
  <2> QED
    BY <1>4, <2>1, <2>2 DEF Objects
<1>7. \A j \in Inode : j # i => Objects(j)' = Objects(j)
  BY <1>5 DEF Objects
<1>8. Cardinality(Objects(i)') = Cardinality(Objects(i)) + 1
  BY <1>6, ObjectsFinite, FS_AddElement
<1>9. usage'[i] = usage[i] + 1 /\ \A j \in Inode : j # i => usage'[j] = usage[j]
  BY <1>1 DEF TypeOK
<1> SUFFICES ASSUME NEW j \in Inode PROVE usage'[j] = Cardinality(Objects(j)')
  BY DEF UsageCounts
<1>10. usage[j] = Cardinality(Objects(j))
  BY DEF UsageCounts
<1>11. CASE j = i
  BY <1>8, <1>9, <1>10, <1>11
<1>12. CASE j # i
  BY <1>7, <1>9, <1>10, <1>12
<1> QED
  BY <1>11, <1>12

(* ... and a destructor one less.                                          *)
LEMMA CloseKeepsCount ==
  ASSUME TypeOK, UsageCounts, NEW t \in Thread, NEW i \in Inode, opened[t][i] > 0,
         CountClose(t, i)
  PROVE  UsageCounts'
<1> DEFINE n == opened[t][i]
<1>1. /\ n \in 1 .. MaxOpen + 1 /\ usage[i] \in Nat \ {0}
      /\ opened' = [opened EXCEPT ![t] = [opened[t] EXCEPT ![i] = n - 1]]
      /\ usage' = [usage EXCEPT ![i] = usage[i] - 1]
  BY CloseCounts
<1>2. /\ opened[t] \in [Inode -> 0 .. MaxOpen + 1] /\ MaxOpen \in Nat
      /\ \A u \in Thread : opened[u] \in [Inode -> 0 .. MaxOpen + 1]
  BY FileLifeAssumption DEF TypeOK
<1>3. /\ opened'[t][i] = n - 1 /\ opened[t][i] = n
      /\ \A u \in Thread, j \in Inode : u # t \/ j # i => opened'[u][j] = opened[u][j]
  BY <1>1, <1>2 DEF TypeOK
<1> HIDE DEF n
<1>4. Objects(i)' = Objects(i) \ {<<t, n>>} /\ <<t, n>> \in Objects(i)
  <2>1. \A u \in Thread, k \in 1 .. MaxOpen + 1 :
          <<u, k>> \in Objects(i)' <=> <<u, k>> \in Objects(i) /\ <<u, k>> # <<t, n>>
    <3> SUFFICES ASSUME NEW u \in Thread, NEW k \in 1 .. MaxOpen + 1
                 PROVE  k <= opened'[u][i] <=> k <= opened[u][i] /\ <<u, k>> # <<t, n>>
      BY DEF Objects
    <3> QED
      BY <1>1, <1>2, <1>3
  <2>2. <<t, n>> \in Objects(i)
    BY <1>1, <1>2, <1>3 DEF Objects
  <2> QED
    BY <2>1, <2>2 DEF Objects
<1>5. \A j \in Inode : j # i => Objects(j)' = Objects(j)
  BY <1>3 DEF Objects
<1>6. Cardinality(Objects(i)') = Cardinality(Objects(i)) - 1
  BY <1>4, ObjectsFinite, FS_RemoveElement
<1>7. usage'[i] = usage[i] - 1 /\ \A j \in Inode : j # i => usage'[j] = usage[j]
  BY <1>1 DEF TypeOK
<1> QED
  BY <1>5, <1>6, <1>7 DEF UsageCounts

(* Every step keeps the counts, and the room for what operations open.     *)
LEMMA CountsStep ==
  ASSUME TypeOK, UsageCounts, NEW t \in Thread, \A u \in Thread : InHand(u), Room(t), Step(t)
  PROVE  /\ usage' \in [Inode -> Nat]
         /\ opened' \in [Thread -> [Inode -> 0 .. MaxOpen + 1]]
         /\ leaks' \in [Thread -> 0 .. MaxOpen + 1]
         /\ Room(t)' /\ UsageCounts'
<1>0. /\ usage \in [Inode -> Nat] /\ MaxOpen \in Nat
      /\ opened \in [Thread -> [Inode -> 0 .. MaxOpen + 1]]
      /\ leaks \in [Thread -> 0 .. MaxOpen + 1] /\ Root \in Inode
  BY FileLifeAssumption, FrameTypes DEF TypeOK
<1>r. /\ \A i \in Inode : /\ Rest(t, i) \in 0 .. MaxOpen
                          /\ InOpen(t) => Rest(t, i) < MaxOpen
      /\ leaks[t] <= Rest(t, Root)
      /\ \A i \in Inode : ~HoldsDir(t) => Rest(t, i) = opened[t][i]
      /\ \A i \in Inode : i # Root => Rest(t, i) = opened[t][i]
      /\ HoldsDir(t) => Rest(t, Root) = opened[t][Root] - 1
  BY DEF Room, Rest
<1>1. CASE Neither(t)
  <2>1. \A i \in Inode : Rest(t, i)' = Rest(t, i)
    BY <1>1 DEF Neither, Rest
  <2>2. Room(t)'
    BY <1>0, <1>1, <1>r, <2>1 DEF Room, Neither
  <2> QED
    BY <1>0, <1>1, <2>2 DEF Neither, UsageCounts, Objects
<1>2. CASE OpensDir(t)
  <2>1. opened[t][Root] <= MaxOpen /\ opened[t][Root] + 1 \in 0 .. MaxOpen + 1
    BY <1>0, <1>r, <1>2 DEF OpensDir
  <2>2. /\ opened' \in [Thread -> [Inode -> 0 .. MaxOpen + 1]]
        /\ usage' \in [Inode -> Nat] /\ leaks' = leaks
        /\ opened'[t][Root] = opened[t][Root] + 1
        /\ \A i \in Inode : i # Root => opened'[t][i] = opened[t][i]
    BY <1>0, <1>2, <2>1 DEF OpensDir, CountOpen
  <2>3. \A i \in Inode : Rest(t, i)' = Rest(t, i)
    BY <1>0, <1>r, <1>2, <2>2 DEF OpensDir, Rest
  <2>4. Room(t)'
    BY <1>0, <1>r, <1>2, <2>2, <2>3 DEF Room, OpensDir
  <2>5. UsageCounts'
    BY <1>0, <1>2, <2>1, OpenKeepsCount DEF OpensDir
  <2> QED
    BY <1>0, <2>2, <2>4, <2>5
<1>3. CASE DeletesDir(t)
  <2>1. opened[t][Root] > 0
    BY <1>0, <1>r, <1>3 DEF DeletesDir
  <2>2. /\ opened[t][Root] \in 1 .. MaxOpen + 1 /\ usage[Root] \in Nat \ {0}
        /\ opened' = [opened EXCEPT ![t] = [opened[t] EXCEPT ![Root] = opened[t][Root] - 1]]
        /\ usage' = [usage EXCEPT ![Root] = usage[Root] - 1]
    BY <1>0, <1>3, <2>1, CloseCounts DEF DeletesDir
  <2>3. /\ opened' \in [Thread -> [Inode -> 0 .. MaxOpen + 1]]
        /\ usage' \in [Inode -> Nat] /\ leaks' = leaks
        /\ opened'[t][Root] = opened[t][Root] - 1
        /\ \A i \in Inode : i # Root => opened'[t][i] = opened[t][i]
    <3>1. opened[t] \in [Inode -> 0 .. MaxOpen + 1] /\ MaxOpen \in Nat
      BY <1>0
    <3>2. opened[t][Root] - 1 \in 0 .. MaxOpen + 1
      BY <2>2, <3>1
    <3>3. usage[Root] - 1 \in Nat
      BY <2>2
    <3> QED
      BY <1>0, <1>3, <2>2, <3>1, <3>2, <3>3 DEF DeletesDir
  <2>4. \A i \in Inode : Rest(t, i)' = Rest(t, i)
    BY <1>0, <1>r, <1>3, <2>3 DEF DeletesDir, Rest
  <2>5. Room(t)'
    BY <1>0, <1>r, <1>3, <2>3, <2>4 DEF Room, DeletesDir
  <2>6. UsageCounts'
    BY <1>0, <1>3, <2>1, CloseKeepsCount DEF DeletesDir
  <2> QED
    BY <1>0, <2>3, <2>5, <2>6
<1>4. CASE ForgetsDir(t)
  <2>1. /\ Rest(t, Root)' = Rest(t, Root) + 1
        /\ \A i \in Inode : i # Root => Rest(t, i)' = Rest(t, i)
    BY <1>0, <1>r, <1>4 DEF ForgetsDir, Rest
  <2>2. leaks[t] + 1 \in 0 .. MaxOpen + 1 /\ leaks'[t] = leaks[t] + 1
    BY <1>0, <1>r, <1>4 DEF ForgetsDir
  <2>3. Room(t)'
    BY <1>0, <1>r, <1>4, <2>1, <2>2 DEF Room, ForgetsDir
  <2> QED
    BY <1>0, <1>4, <2>2, <2>3 DEF ForgetsDir, UsageCounts, Objects
<1>5. ASSUME NEW i \in Inode, OpensFile(t, i)
      PROVE  /\ usage' \in [Inode -> Nat]
             /\ opened' \in [Thread -> [Inode -> 0 .. MaxOpen + 1]]
             /\ leaks' \in [Thread -> 0 .. MaxOpen + 1]
             /\ Room(t)' /\ UsageCounts'
  <2>1. opened[t][i] < MaxOpen /\ opened[t][i] + 1 \in 0 .. MaxOpen + 1
    BY <1>0, <1>r, <1>5 DEF OpensFile
  <2>2. /\ opened' \in [Thread -> [Inode -> 0 .. MaxOpen + 1]]
        /\ usage' \in [Inode -> Nat] /\ leaks' = leaks
        /\ opened'[t][i] = opened[t][i] + 1
        /\ \A j \in Inode : j # i => opened'[t][j] = opened[t][j]
    BY <1>0, <1>5, <2>1 DEF OpensFile, CountOpen
  <2>3. Rest(t, i)' = Rest(t, i) + 1 /\ \A j \in Inode : j # i => Rest(t, j)' = Rest(t, j)
    BY <1>0, <1>r, <1>5, <2>2 DEF OpensFile, Rest
  <2>4. Rest(t, i) + 1 \in 0 .. MaxOpen /\ (i = Root => leaks[t] <= Rest(t, i) + 1)
    BY <1>0, <1>r, <1>5 DEF OpensFile
  <2>5. Room(t)'
    BY <1>0, <1>r, <1>5, <2>2, <2>3, <2>4 DEF Room, OpensFile
  <2>6. UsageCounts'
    BY <1>0, <1>5, <2>1, OpenKeepsCount DEF OpensFile
  <2> QED
    BY <1>0, <2>2, <2>5, <2>6
<1>6. ASSUME NEW i \in Inode, ClosesFile(t, i)
      PROVE  /\ usage' \in [Inode -> Nat]
             /\ opened' \in [Thread -> [Inode -> 0 .. MaxOpen + 1]]
             /\ leaks' \in [Thread -> 0 .. MaxOpen + 1]
             /\ Room(t)' /\ UsageCounts'
  <2>1. opened[t][i] > 0 /\ (i = Root => leaks[t] < opened[t][i])
    BY <1>0, <1>6 DEF ClosesFile
  <2>2. /\ opened[t][i] \in 1 .. MaxOpen + 1 /\ usage[i] \in Nat \ {0}
        /\ opened' = [opened EXCEPT ![t] = [opened[t] EXCEPT ![i] = opened[t][i] - 1]]
        /\ usage' = [usage EXCEPT ![i] = usage[i] - 1]
    BY <1>0, <1>6, <2>1, CloseCounts DEF ClosesFile
  <2>3. /\ opened' \in [Thread -> [Inode -> 0 .. MaxOpen + 1]]
        /\ usage' \in [Inode -> Nat] /\ leaks' = leaks
        /\ opened'[t][i] = opened[t][i] - 1
        /\ \A j \in Inode : j # i => opened'[t][j] = opened[t][j]
    <3>1. opened[t] \in [Inode -> 0 .. MaxOpen + 1] /\ MaxOpen \in Nat
      BY <1>0
    <3>2. opened[t][i] - 1 \in 0 .. MaxOpen + 1
      BY <2>2, <3>1
    <3>3. usage[i] - 1 \in Nat
      BY <2>2
    <3> QED
      BY <1>0, <1>6, <2>2, <3>1, <3>2, <3>3 DEF ClosesFile
  <2>4. Rest(t, i)' = Rest(t, i) - 1 /\ \A j \in Inode : j # i => Rest(t, j)' = Rest(t, j)
    BY <1>0, <1>r, <1>6, <2>3 DEF ClosesFile, Rest
  <2>5. Rest(t, i) - 1 \in 0 .. MaxOpen /\ (i = Root => leaks[t] <= Rest(t, i) - 1)
    BY <1>0, <1>r, <1>6, <2>1 DEF ClosesFile
  <2>6. Room(t)'
    BY <1>0, <1>r, <1>6, <2>3, <2>4, <2>5 DEF Room, ClosesFile
  <2>7. UsageCounts'
    BY <1>0, <1>6, <2>1, CloseKeepsCount DEF ClosesFile
  <2> QED
    BY <1>0, <2>3, <2>6, <2>7
<1> QED
  BY <1>1, <1>2, <1>3, <1>4, <1>5, <1>6, ObjectsChange

(* What an operation is going to use is put into its frame first.          *)
LEMMA HandStep ==
  ASSUME TypeOK, NEW t \in Thread, \A u \in Thread : InHand(u), Step(t)
  PROVE  InHand(t)'
<1>0. /\ pc \in [Thread -> Location] /\ frame \in [Thread -> Frame]
      /\ pc' \in [Thread -> Location] /\ frame' \in [Thread -> Frame] /\ dir \in Table
  BY StepTypes DEF TypeOK
<1>f. frame[t] \in Frame
  BY <1>0
<1>h. /\ pc[t] \in {"looking", "removing", "erasing", "searching", "creating", "fetching",
                    "adding", "allocating", "growing"} => frame[t].name \in Name
      /\ pc[t] \in {"opening", "erasing", "removed", "creating", "fetching", "adding",
                    "allocating", "growing"} => frame[t].inode \in Inode
      /\ pc[t] \in {"closing", "unlinking", "unlinked"} => frame[t].victim \in Inode
      /\ frame[t].back = "opening" => /\ frame[t].inode \in Inode
                                      /\ pc[t] \in {"leaving", "closing", "unlinking",
                                                    "unlinked", "aborted"}
      /\ frame[t].back = "opening" /\ pc[t] = "closing" => frame[t].victim = Root
      /\ frame[t].back = "leaving" => pc[t] \in {"unlinking", "unlinked", "aborted"}
      /\ pc[t] \in {"idle", "looking"} => frame[t].inode = None
      /\ frame[t].back \in {"idle", "opening", "leaving"}
  BY <1>f DEF InHand, Choosing, Frame
<1>1. CASE OpenRoot(t) \/ \E n \in Name : Open(t, n)
  BY <1>0, <1>1, FrameTypes DEF Open, OpenRoot, Start, Goto, SetFrame, InHand, Choosing, Frame
<1>2. CASE OpenFind(t)
  BY <1>0, <1>f, <1>h, <1>2 DEF OpenFind, Goto, SetFrame, InHand, Choosing, Frame
<1>3. CASE OpenCheck(t)
  <2> DEFINE back == IF frame[t].inode = None THEN "idle" ELSE "opening"
             next == [NoFrame EXCEPT !.inode = frame[t].inode, !.back = back]
  <2>1. \/ pc'[t] = "idle" /\ frame'[t] = NoFrame
        \/ pc'[t] = "leaving" /\ frame'[t] = next
    BY <1>0, <1>3 DEF OpenCheck, Return, Goto, SetFrame
  <2>2. next.inode = frame[t].inode /\ next.back = back
    BY FrameTypes DEF Frame
  <2>3. back # "leaving" /\ (back = "opening" => frame[t].inode \in Inode)
    BY <1>f DEF Frame
  <2> HIDE DEF next, back
  <2> QED
    BY <2>1, <2>2, <2>3, FrameTypes DEF InHand, Choosing
<1>4. CASE OpenFile(t) \/ Leave(t) \/ UnlinkAborts(t) \/ \E i \in Inode : Close(t, i)
  BY <1>0, <1>f, <1>h, <1>4, FrameTypes DEF OpenFile, Leave, UnlinkAborts, Close, Start, Return,
     Goto, SetFrame, InHand, Choosing, Frame
<1>5. CASE CheckFinish(t)
  BY <1>0, <1>f, <1>h, <1>5, FrameTypes DEF CheckFinish, Continue, Goto, SetFrame, InHand,
     Choosing, Frame
<1>6. CASE UnlinkFetch(t)
  BY <1>0, <1>f, <1>h, <1>6, FrameTypes DEF UnlinkFetch, Goto, SetFrame, InHand, Choosing, Frame
<1>7. CASE UnlinkWrite(t)
  BY <1>0, <1>f, <1>h, <1>7, FrameTypes DEF UnlinkWrite, Continue, Goto, SetFrame, InHand,
     Choosing, Frame
<1>8. CASE \E n \in Name : RemoveFile(t, n) \/ Create(t, n)
  BY <1>0, <1>8, FrameTypes DEF RemoveFile, Create, Start, Goto, SetFrame, InHand, Choosing, Frame
<1>9. CASE RemoveFind(t)
  <2> DEFINE i == dir[frame[t].name]
             next == [frame[t] EXCEPT !.inode = i, !.table = dir]
  <2>1. /\ pc[t] = "removing"
        /\ \/ i # None /\ pc'[t] = "erasing" /\ frame'[t] = next
           \/ pc'[t] = "leaving" /\ frame'[t] = NoFrame
    BY <1>0, <1>9 DEF RemoveFind, Goto, SetFrame
  <2>2. next.inode = i /\ next.back = frame[t].back /\ next.name = frame[t].name
    BY <1>f DEF Frame
  <2>3. i \in Inode \cup {None}
    BY <1>0, <1>h, <2>1 DEF Table
  <2> HIDE DEF next, i
  <2> QED
    BY <1>h, <2>1, <2>2, <2>3, FrameTypes DEF InHand, Choosing
<1>10. CASE RemoveEntry(t)
  BY <1>0, <1>f, <1>h, <1>10, FrameTypes DEF RemoveEntry, Goto, SetFrame, InHand, Choosing, Frame
<1>11. CASE TryFinish(t)
  <2> DEFINE next == [NoFrame EXCEPT !.victim = frame[t].inode, !.back = "leaving"]
  <2>1. /\ pc[t] = "removed"
        /\ \/ pc'[t] = "unlinking" /\ frame'[t] = next
           \/ pc'[t] = "leaving" /\ frame'[t] = NoFrame
    BY <1>0, <1>11 DEF TryFinish, Goto, SetFrame
  <2>2. next.victim = frame[t].inode /\ next.back = "leaving"
    BY FrameTypes DEF Frame
  <2> HIDE DEF next
  <2> QED
    BY <1>h, <2>1, <2>2, FrameTypes DEF InHand, Choosing
<1>12. CASE CreateSearch(t)
  <2> DEFINE new == Min(Inode \ inodeMap[frame[t].group])
             copy == inodeMap[frame[t].group] \cup {new}
             next == [frame[t] EXCEPT !.inode = new, !.cfm = copy]
  <2>1. /\ pc[t] = "searching"
        /\ \/ Inode \ inodeMap[frame[t].group] # {} /\ pc'[t] = "creating" /\ frame'[t] = next
           \/ /\ pc'[t] = "searching"
              /\ frame'[t].back = frame[t].back /\ frame'[t].name = frame[t].name
           \/ pc'[t] = "idle" /\ frame'[t] = NoFrame
    BY <1>0, <1>f, <1>12, FrameTypes DEF CreateSearch, Return, Goto, SetFrame, Frame
  <2>2. Inode \ inodeMap[frame[t].group] # {} => new \in Inode
    <3>1. Inode \ inodeMap[frame[t].group] \subseteq Nat
      BY DEF Inode
    <3> QED
      BY <3>1, MinIsElement
  <2> HIDE DEF new, copy
  <2>3. next.inode = new /\ next.back = frame[t].back /\ next.name = frame[t].name
    BY <1>f DEF Frame
  <2> HIDE DEF next
  <2> QED
    BY <1>h, <2>1, <2>2, <2>3, FrameTypes DEF InHand, Choosing
<1>13. CASE CreateHeader(t)
  BY <1>0, <1>h, <1>13 DEF CreateHeader, Goto, InHand, Choosing
<1>14. CASE CreateFind(t)
  <2>1. /\ pc[t] = "fetching"
        /\ \/ pc'[t] = "adding" /\ frame'[t] = [frame[t] EXCEPT !.table = dir]
           \/ pc'[t] = "leaving" /\ frame'[t] = NoFrame
    BY <1>0, <1>14 DEF CreateFind, Goto, SetFrame
  <2>2. \/ /\ pc'[t] = "adding" /\ frame'[t].inode = frame[t].inode
           /\ frame'[t].back = frame[t].back /\ frame'[t].name = frame[t].name
        \/ pc'[t] = "leaving" /\ frame'[t] = NoFrame
    BY <1>f, <2>1 DEF Frame
  <2> QED
    BY <1>h, <2>1, <2>2, FrameTypes DEF InHand, Choosing
<1>15. CASE AllocateFetch(t)
  BY <1>0, <1>f, <1>h, <1>15 DEF AllocateFetch, Goto, SetFrame, InHand, Choosing, Frame
<1>16. CASE AllocateWrite(t)
  BY <1>0, <1>f, <1>h, <1>16 DEF AllocateWrite, Goto, SetFrame, InHand, Choosing, Frame
<1>17. CASE AllocateFails(t) \/ CreateAdd(t) \/ CreateWrite(t)
  <2> DEFINE next == [NoFrame EXCEPT !.group = frame[t].group, !.cfm = frame[t].cfm]
  <2>1. \/ pc'[t] = "created" /\ frame'[t] = next
        \/ pc'[t] = "leaving" /\ frame'[t] = NoFrame
    BY <1>0, <1>17 DEF AllocateFails, CreateAdd, CreateWrite, Goto, SetFrame
  <2>2. next.back = "idle"
    BY FrameTypes DEF Frame
  <2> HIDE DEF next
  <2> QED
    BY <2>1, <2>2, FrameTypes DEF InHand, Choosing
<1> QED
  BY <1>1, <1>2, <1>3, <1>4, <1>5, <1>6, <1>7, <1>8, <1>9, <1>10, <1>11, <1>12, <1>13,
     <1>14, <1>15, <1>16, <1>17 DEF Step

(* Create and Remove run under the lock, which nobody else takes or        *)
(* releases meanwhile.                                                     *)
LEMMA LockStep ==
  ASSUME TypeOK, NEW t \in Thread, \A u \in Thread : InHand(u), \A u \in Thread : Locked(u),
         Step(t)
  PROVE  \A u \in Thread : Locked(u)'
<1>0. pc \in [Thread -> Location] /\ frame[t] \in Frame
  BY DEF TypeOK
<1>1. \A u \in Thread \ {t} : pc'[u] = pc[u]
  BY OthersStay
<1>2. \/ fsLock' = fsLock
      \/ fsLock = NoThread
      \/ fsLock = t
  BY DEF Step, Open, OpenRoot, OpenFind, OpenCheck, OpenFile, Close, Leave, CheckFinish,
     UnlinkFetch, UnlinkWrite, UnlinkAborts, RemoveFile, RemoveFind, RemoveEntry, TryFinish,
     Create, CreateSearch, CreateHeader, CreateFind, AllocateFetch, AllocateWrite,
     AllocateFails, CreateAdd, CreateWrite, Continue, Locked, Locking
<1>3. CASE CheckFinish(t) \/ UnlinkWrite(t)
  <2>1. frame[t].back \notin Locking
    BY <1>0 DEF Frame, Locking
  <2> QED
    BY <1>0, <1>1, <1>2, <1>3, <2>1, FileLifeAssumption DEF CheckFinish, UnlinkWrite, Continue, Goto,
       Locked, Locking
<1>4. ASSUME ~(CheckFinish(t) \/ UnlinkWrite(t)) PROVE pc'[t] \in Locking => fsLock' = t
  <2>1. CASE \E n \in Name : RemoveFile(t, n) \/ Create(t, n)
    BY <2>1 DEF RemoveFile, Create
  <2>2. CASE RemoveFind(t) \/ RemoveEntry(t) \/ TryFinish(t)
    BY <1>0, <2>2 DEF RemoveFind, RemoveEntry, TryFinish, Goto, Locked, Locking
  <2>3. CASE CreateSearch(t) \/ CreateHeader(t) \/ CreateFind(t)
    BY <1>0, <2>3 DEF CreateSearch, CreateHeader, CreateFind, Return, Goto, Locked, Locking
  <2>4. CASE AllocateFetch(t) \/ AllocateWrite(t) \/ AllocateFails(t) \/ CreateAdd(t) \/ CreateWrite(t)
    BY <1>0, <2>4 DEF AllocateFetch, AllocateWrite, AllocateFails, CreateAdd, CreateWrite, Goto,
       Locked, Locking
  <2>5. CASE \/ OpenRoot(t) \/ OpenFind(t) \/ OpenCheck(t) \/ OpenFile(t) \/ Leave(t)
             \/ UnlinkFetch(t) \/ UnlinkAborts(t)
             \/ \E n \in Name : Open(t, n)
             \/ \E i \in Inode : Close(t, i)
    BY <1>0, <2>5 DEF OpenRoot, OpenFind, OpenCheck, OpenFile, Leave, UnlinkFetch, UnlinkAborts,
       Open, Close, Start, Return, Goto, Locking
  <2> QED
    BY <1>4, <2>1, <2>2, <2>3, <2>4, <2>5 DEF Step
<1> QED
  BY <1>1, <1>2, <1>3, <1>4, FileLifeAssumption DEF Locked

(* The directory changes only under the lock.                              *)
LEMMA TableStep ==
  ASSUME TypeOK, NEW t \in Thread, \A u \in Thread : InHand(u), \A u \in Thread : Locked(u),
         \A u \in Thread : TableIsCurrent(u), Step(t)
  PROVE  \A u \in Thread : TableIsCurrent(u)'
<1>0. pc \in [Thread -> Location] /\ frame \in [Thread -> Frame] /\ frame[t] \in Frame
  BY DEF TypeOK
<1>1. \A u \in Thread \ {t} : pc'[u] = pc[u] /\ frame'[u] = frame[u]
  BY OthersStay
<1>2. dir' # dir => pc[t] \in Locking
  BY DEF Step, Open, OpenRoot, OpenFind, OpenCheck, OpenFile, Close, Leave, CheckFinish,
     UnlinkFetch, UnlinkWrite, UnlinkAborts, RemoveFile, RemoveFind, RemoveEntry, TryFinish,
     Create, CreateSearch, CreateHeader, CreateFind, AllocateFetch, AllocateWrite,
     AllocateFails, CreateAdd, CreateWrite, Locking
<1>3. ASSUME NEW u \in Thread \ {t} PROVE TableIsCurrent(u)'
  BY <1>1, <1>2 DEF TableIsCurrent, Locked, Locking
<1>4. TableIsCurrent(t)'
  <2>1. CASE RemoveFind(t)
    <3>1. [frame[t] EXCEPT !.inode = dir[frame[t].name], !.table = dir].table = dir
      BY <1>0 DEF Frame
    <3> QED
      BY <1>0, <2>1, <3>1 DEF RemoveFind, Goto, SetFrame, TableIsCurrent
  <2>2. CASE CreateFind(t) \/ AllocateFetch(t) \/ AllocateWrite(t)
    BY <1>0, <2>2 DEF CreateFind, AllocateFetch, AllocateWrite, Goto, SetFrame, TableIsCurrent,
       Frame
  <2>3. CASE CheckFinish(t) \/ UnlinkWrite(t)
    BY <1>0, <2>3 DEF CheckFinish, UnlinkWrite, Continue, Goto, TableIsCurrent, Frame
  <2>4. ASSUME ~RemoveFind(t), ~CreateFind(t), ~AllocateFetch(t), ~AllocateWrite(t),
               ~CheckFinish(t), ~UnlinkWrite(t)
        PROVE  pc'[t] \notin {"erasing", "adding", "allocating", "growing"}
    BY <1>0, <2>4 DEF Step, Open, OpenRoot, OpenFind, OpenCheck, OpenFile, Close, Leave,
       UnlinkFetch, UnlinkAborts, RemoveFile, RemoveEntry, TryFinish, Create, CreateSearch,
       CreateHeader, AllocateFails, CreateAdd, CreateWrite, Start, Return, Goto
  <2> QED
    BY <2>1, <2>2, <2>3, <2>4 DEF TableIsCurrent
<1> QED
  BY <1>3, <1>4

(* A deferred deletion stays somebody's business: who is last to close the *)
(* file has not yet asked for it.                                          *)
LEMMA FinishStep ==
  ASSUME TypeOK, NEW t \in Thread, \A u \in Thread : InHand(u), \A u \in Thread : Room(u),
         UsageCounts, FinishSettled, Step(t)
  PROVE  FinishSettled'
<1>0. /\ pc \in [Thread -> Location] /\ frame \in [Thread -> Frame] /\ frame[t] \in Frame
      /\ usage \in [Inode -> Nat] /\ finish \subseteq Inode /\ Root \in Inode
  BY FrameTypes DEF TypeOK
<1>1. \A u \in Thread \ {t} : pc'[u] = pc[u] /\ frame'[u] = frame[u]
  BY OthersStay
<1>2. ASSUME pc[t] # "closing", finish' \subseteq finish,
             \A i \in finish : usage[i] > 0 => usage'[i] > 0
      PROVE  FinishSettled'
  <2> SUFFICES ASSUME NEW i \in finish'
               PROVE  \/ usage'[i] > 0
                      \/ \E u \in Thread : pc'[u] = "closing" /\ frame'[u].victim = i
    BY DEF FinishSettled
  <2> QED
    BY <1>1, <1>2 DEF FinishSettled
<1>3. ASSUME NEW i \in Inode, pc[t] # "closing", pc'[t] = "closing", frame'[t].victim = i,
             finish' = finish, \A j \in Inode : j # i => usage'[j] = usage[j]
      PROVE  FinishSettled'
  <2> SUFFICES ASSUME NEW j \in finish, j # i
               PROVE  \/ usage'[j] > 0
                      \/ \E u \in Thread : pc'[u] = "closing" /\ frame'[u].victim = j
    BY <1>3 DEF FinishSettled
  <2> QED
    BY <1>0, <1>1, <1>3 DEF FinishSettled
<1>4. ASSUME NEW i \in Inode, Close(t, i) PROVE FinishSettled'
  <2>1. /\ pc[t] # "closing" /\ pc'[t] = "closing" /\ frame'[t].victim = i /\ finish' = finish
        /\ \A j \in Inode : j # i => usage'[j] = usage[j]
    BY <1>0, <1>4, FrameTypes DEF Close, CountClose, Start, Goto, SetFrame, Frame
  <2> QED
    BY <1>3, <2>1
<1>5. CASE Leave(t)
  <2>1. /\ pc[t] # "closing" /\ pc'[t] = "closing" /\ frame'[t].victim = Root /\ finish' = finish
        /\ \A j \in Inode : j # Root => usage'[j] = usage[j]
    BY <1>0, <1>5 DEF Leave, CountClose, Goto, SetFrame, Frame
  <2> QED
    BY <1>0, <1>3, <2>1
<1>6. CASE CheckFinish(t)
  <2> DEFINE i == frame[t].victim
  <2>1. /\ pc[t] = "closing" /\ usage' = usage /\ finish' \subseteq finish
        /\ i \in finish' => usage[i] # 0
    BY <1>0, <1>6 DEF CheckFinish, LastClose
  <2>2. usage' = usage /\ \A j \in finish : usage[j] \in Nat
    BY <1>0, <2>1
  <2> SUFFICES ASSUME NEW j \in finish', j # i
               PROVE  \/ usage'[j] > 0
                      \/ \E u \in Thread : pc'[u] = "closing" /\ frame'[u].victim = j
    BY <2>1, <2>2 DEF FinishSettled
  <2> QED
    BY <1>1, <2>1 DEF FinishSettled
<1>7. CASE TryFinish(t)
  <2> DEFINE i == frame[t].inode
  <2>1. /\ pc[t] = "removed" /\ usage' = usage
        /\ finish' = finish \/ (finish' = finish \cup {i} /\ usage[i] > 0)
    BY <1>7 DEF TryFinish
  <2> HIDE DEF i
  <2> SUFFICES ASSUME NEW j \in finish', j # i \/ j \in finish
               PROVE  \/ usage'[j] > 0
                      \/ \E u \in Thread : pc'[u] = "closing" /\ frame'[u].victim = j
    BY <2>1 DEF FinishSettled
  <2> QED
    BY <1>1, <2>1 DEF FinishSettled
<1>8. CASE OpenFile(t) \/ CreateHeader(t) \/ \E n \in Name : Open(t, n) \/ RemoveFile(t, n)
  <2>1. /\ pc[t] # "closing" /\ finish' = finish
        /\ usage' = [usage EXCEPT ![frame[t].inode] = @ + 1]
             \/ usage' = [usage EXCEPT ![Root] = @ + 1]
    BY <1>8 DEF OpenFile, CreateHeader, Open, RemoveFile, Start, CountOpen
  <2>2. \A j \in finish : usage[j] > 0 => usage'[j] > 0
    BY <1>0, <2>1
  <2> QED
    BY <1>2, <2>1, <2>2
<1>9. ASSUME ~CheckFinish(t), ~TryFinish(t), ~Leave(t), ~OpenFile(t), ~CreateHeader(t),
             ~\E i \in Inode : Close(t, i),
             ~\E n \in Name : Open(t, n) \/ RemoveFile(t, n)
      PROVE  pc[t] # "closing" /\ usage' = usage /\ finish' = finish
  BY <1>9 DEF Step, OpenRoot, OpenFind, OpenCheck, UnlinkFetch, UnlinkWrite, UnlinkAborts,
     RemoveFind, RemoveEntry, Create, CreateSearch, CreateFind, AllocateFetch, AllocateWrite,
     AllocateFails, CreateAdd, CreateWrite, Start
<1> QED
  BY <1>2, <1>4, <1>5, <1>6, <1>7, <1>8, <1>9

(* At the start nothing is open and no thread is at work.                  *)
LEMMA LifeInvInit == Init => LifeInv
<1> SUFFICES ASSUME Init PROVE LifeInv
  OBVIOUS
<1>1. TypeOK
  BY FrameTypes, FileLifeAssumption DEF Init, TypeOK, Location, Maps, Table
<1>2. FinishSettled
  BY DEF Init, FinishSettled
<1>3. ASSUME NEW t \in Thread PROVE InHand(t) /\ Room(t) /\ Locked(t) /\ TableIsCurrent(t)
  <2>1. /\ pc[t] = "idle" /\ frame[t] = NoFrame /\ leaks[t] = 0
        /\ \A i \in Inode : opened[t][i] = 0
    BY DEF Init
  <2>2. InHand(t) /\ Locked(t) /\ TableIsCurrent(t)
    BY <2>1, FrameTypes DEF InHand, Locked, TableIsCurrent, Choosing, Locking
  <2>3. ~HoldsDir(t) /\ ~InOpen(t)
    BY <2>1, FrameTypes DEF HoldsDir, InOpen
  <2> QED
    BY <2>1, <2>2, <2>3, FileLifeAssumption, FrameTypes DEF Room, Rest
<1>4. UsageCounts
  <2> SUFFICES ASSUME NEW i \in Inode PROVE usage[i] = Cardinality(Objects(i))
    BY DEF UsageCounts
  <2>1. Objects(i) = {}
    BY FileLifeAssumption DEF Init, Objects
  <2> QED
    BY <2>1, FS_EmptySet DEF Init
<1> QED
  BY <1>1, <1>2, <1>3, <1>4 DEF LifeInv

(* Every step of every thread keeps the invariant.                         *)
LEMMA LifeInvStep == LifeInv /\ [Next]_vars => LifeInv'
<1> SUFFICES ASSUME LifeInv, [Next]_vars PROVE LifeInv'
  OBVIOUS
<1>0. /\ TypeOK /\ UsageCounts /\ FinishSettled
      /\ \A t \in Thread : InHand(t) /\ Room(t) /\ Locked(t) /\ TableIsCurrent(t)
  BY DEF LifeInv
<1>1. ASSUME NEW t \in Thread, Step(t) PROVE LifeInv'
  <2>1. TypeOK' /\ UsageCounts'
    BY <1>0, <1>1, StepTypes, CountsStep DEF TypeOK
  <2>2. FinishSettled' /\ \A u \in Thread : Locked(u)' /\ TableIsCurrent(u)'
    BY <1>0, <1>1, FinishStep, LockStep, TableStep
  <2>3. ASSUME NEW u \in Thread PROVE InHand(u)' /\ Room(u)'
    <3>1. CASE u = t
      BY <1>0, <1>1, <3>1, HandStep, CountsStep
    <3>2. CASE u # t
      <4>1. UNCHANGED <<pc[u], frame[u], opened[u], leaks[u]>>
        BY <1>0, <1>1, <3>2, OthersStay
      <4> QED
        BY <1>0, <4>1 DEF InHand, Room, Rest, HoldsDir, InOpen
    <3> QED
      BY <3>1, <3>2
  <2> QED
    BY <2>1, <2>2, <2>3 DEF LifeInv
<1>2. CASE UNCHANGED vars
  BY <1>0, <1>2 DEF LifeInv, TypeOK, InHand, Room, Rest, HoldsDir, InOpen, Locked, TableIsCurrent,
     UsageCounts, Objects, FinishSettled, vars
<1> QED
  BY <1>1, <1>2 DEF Next

(* The invariant holds in every state.                                     *)
LEMMA LifeInvariant == Spec => []LifeInv
  BY LifeInvInit, LifeInvStep, PTL DEF Spec

(* All state keeps its type, for any threads, names, groups and inodes.    *)
THEOREM FileLifeTypeCorrect == Spec => []TypeOK
<1>1. LifeInv => TypeOK
  BY DEF LifeInv
<1> QED
  BY <1>1, LifeInvariant, PTL

(* The usage count of an inode in the MetaTable is the number of OpenFile  *)
(* objects for it, those that Open forgets and the dir_files of operations *)
(* under way included, however threads interleave.                         *)
THEOREM UsageIsTheNumberOfOpenFiles == Spec => []UsageCounts
<1>1. LifeInv => UsageCounts
  BY DEF LifeInv
<1> QED
  BY <1>1, LifeInvariant, PTL

(* A deletion that Remove has deferred always has somebody who will see to *)
(* it: an OpenFile is there, or its destructor is about to ask.            *)
THEOREM DeferredDeletionIsDue == Spec => []FinishSettled
<1>1. LifeInv => FinishSettled
  BY DEF LifeInv
<1> QED
  BY <1>1, LifeInvariant, PTL

(* Under fs_control_lock the directory that Create or Remove has read is   *)
(* still the one on disk when it writes the whole of it back.              *)
THEOREM DirectoryIsStable == Spec => []DirectoryStable
<1>1. LifeInv => DirectoryStable
  BY DEF LifeInv, TableIsCurrent, DirectoryStable
<1> QED
  BY <1>1, LifeInvariant, PTL

(* Unlink writes the group it should, except for the last inode of a group, *)
(* where it fails.                                                          *)
LEMMA UnlinkArithmetic ==
  ASSUME NEW i \in Inode
  PROVE  /\ UnlinkNumber(i) # None => UnlinkGroup(i) = 0 /\ UnlinkNumber(i) = i
         /\ UnlinkNumber(i) = None <=> i = InodesPerGroup
<1>0. InodesPerGroup \in Nat \ {0} /\ i \in 1 .. InodesPerGroup
  BY FileLifeAssumption DEF Inode
<1> DEFINE n == InodesPerGroup
<1>1. CASE i < n
  <2>1. i \div n = 0
    BY <1>0, <1>1
  <2> QED
    BY <1>0, <1>1, <2>1 DEF UnlinkNumber, UnlinkGroup, None
<1>2. CASE i = n
  <2>1. i \div n = 1
    BY <1>0, <1>2
  <2> QED
    BY <1>0, <1>2, <2>1 DEF UnlinkNumber, UnlinkGroup, None
<1> QED
  BY <1>0, <1>1, <1>2

(* The first number of an empty bitmap is the directory's.                 *)
LEMMA FirstNumber == Min(Inode) = Root
<1>1. Inode \subseteq Nat /\ Root \in Inode /\ \A i \in Inode : Root <= i
  BY FileLifeAssumption DEF Inode, Root
<1>2. Min(Inode) \in Inode /\ Min(Inode) <= Root
  BY <1>1, MinIsElement
<1> QED
  BY <1>1, <1>2 DEF Inode, Root

(* With one thread a copy of the bitmaps is still current when it is       *)
(* written back.                                                           *)
LEMMA MapsStep ==
  ASSUME LifeInv, NEW t \in Thread, MapsAreCurrent(t), Step(t)
  PROVE  MapsAreCurrent(t)'
<1>0. pc \in [Thread -> Location] /\ frame \in [Thread -> Frame] /\ frame[t] \in Frame
  BY DEF LifeInv, TypeOK
<1>1. CASE UnlinkFetch(t) \/ AllocateFetch(t)
  BY <1>0, <1>1 DEF UnlinkFetch, AllocateFetch, Goto, SetFrame, MapsAreCurrent, Frame
<1>2. CASE CheckFinish(t) \/ UnlinkWrite(t)
  BY <1>0, <1>2 DEF CheckFinish, UnlinkWrite, Continue, Goto, MapsAreCurrent, Frame
<1>3. ASSUME ~UnlinkFetch(t), ~AllocateFetch(t), ~CheckFinish(t), ~UnlinkWrite(t)
      PROVE  pc'[t] \notin {"unlinked", "allocating"}
  BY <1>0, <1>3 DEF Step, Open, OpenRoot, OpenFind, OpenCheck, OpenFile, Close, Leave,
     UnlinkAborts, RemoveFile, RemoveFind, RemoveEntry, TryFinish, Create, CreateSearch,
     CreateHeader, CreateFind, AllocateWrite, AllocateFails, CreateAdd, CreateWrite, Start,
     Return, Goto
<1> QED
  BY <1>1, <1>2, <1>3 DEF MapsAreCurrent

(* What a step does to the bitmaps.                                        *)
LEMMA BitmapsStep ==
  ASSUME LifeInv, NEW t \in Thread, MapsAreCurrent(t), Step(t)
  PROVE  \/ inodeMap' = inodeMap /\ ~UnlinkWrite(t) /\ ~CreateWrite(t)
         \/ /\ UnlinkWrite(t)
            /\ inodeMap' = [inodeMap EXCEPT ![0] = @ \ {frame[t].victim}]
         \/ /\ CreateWrite(t)
            /\ inodeMap' = [inodeMap EXCEPT ![frame[t].group] = frame[t].cfm]
<1>1. CASE UnlinkWrite(t)
  <2>1. pc[t] = "unlinked" /\ frame[t].maps = inodeMap /\ frame[t].victim \in Inode
    BY <1>1 DEF UnlinkWrite, MapsAreCurrent, LifeInv, InHand
  <2>2. /\ UnlinkNumber(frame[t].victim) # None
        /\ inodeMap' = [inodeMap EXCEPT ![UnlinkGroup(frame[t].victim)] =
                                          @ \ {UnlinkNumber(frame[t].victim)}]
    BY <1>1, <2>1 DEF UnlinkWrite
  <2>3. UnlinkGroup(frame[t].victim) = 0 /\ UnlinkNumber(frame[t].victim) = frame[t].victim
    BY <2>1, <2>2, UnlinkArithmetic
  <2> QED
    BY <1>1, <2>2, <2>3
<1>2. CASE CreateWrite(t)
  BY <1>2 DEF CreateWrite
<1>3. CASE AllocateWrite(t)
  BY <1>3 DEF AllocateWrite, UnlinkWrite, CreateWrite, MapsAreCurrent
<1>4. ASSUME ~UnlinkWrite(t), ~CreateWrite(t), ~AllocateWrite(t) PROVE inodeMap' = inodeMap
  BY <1>4 DEF Step, Open, OpenRoot, OpenFind, OpenCheck, OpenFile, Close, Leave, CheckFinish,
     UnlinkFetch, UnlinkAborts, RemoveFile, RemoveFind, RemoveEntry, TryFinish, Create,
     CreateSearch, CreateHeader, CreateFind, AllocateFetch, AllocateFails, CreateAdd
<1> QED
  BY <1>1, <1>2, <1>3, <1>4

(* The frame of Create keeps its group, and its copy of the bitmap once it *)
(* has one, until the copy is written or Create gives up.                  *)
LEMMA CreateFrame ==
  ASSUME LifeInv, NEW t \in Thread, Step(t)
  PROVE  /\ frame'[t] \in Frame
         /\ pc'[t] \in {"creating", "fetching", "adding", "allocating", "growing", "created"} =>
              frame'[t].group = frame[t].group
         /\ pc'[t] = "creating" =>
              /\ CreateSearch(t)
              /\ Inode \ inodeMap[frame[t].group] # {}
              /\ frame'[t].inode = Min(Inode \ inodeMap[frame[t].group])
              /\ frame'[t].cfm = inodeMap[frame[t].group] \cup {frame'[t].inode}
         /\ pc'[t] \in {"fetching", "adding", "allocating", "growing", "created"} =>
              pc[t] \in Choosing /\ frame'[t].cfm = frame[t].cfm
         /\ pc'[t] \in {"fetching", "adding", "allocating", "growing"} =>
              frame'[t].inode = frame[t].inode
<1>0. /\ pc \in [Thread -> Location] /\ frame \in [Thread -> Frame] /\ frame[t] \in Frame
      /\ frame' \in [Thread -> Frame] /\ frame[t].back \in {"idle", "opening", "leaving"}
  BY StepTypes DEF LifeInv, TypeOK, Frame
<1>1. CASE CreateSearch(t)
  <2> DEFINE new == Min(Inode \ inodeMap[frame[t].group])
             copy == inodeMap[frame[t].group] \cup {new}
             next == [frame[t] EXCEPT !.inode = new, !.cfm = copy]
  <2>1. \/ Inode \ inodeMap[frame[t].group] # {} /\ pc'[t] = "creating" /\ frame'[t] = next
        \/ pc'[t] = "searching"
        \/ pc'[t] = "idle" /\ frame'[t] = NoFrame
    BY <1>0, <1>1 DEF CreateSearch, Return, Goto, SetFrame
  <2> HIDE DEF new, copy
  <2>2. next.inode = new /\ next.cfm = copy /\ next.group = frame[t].group
    BY <1>0 DEF Frame
  <2> HIDE DEF next
  <2> QED
    BY <1>0, <1>1, <2>1, <2>2, FrameTypes DEF new, copy, Choosing
<1>2. CASE CreateHeader(t)
  BY <1>0, <1>2 DEF CreateHeader, Goto, Choosing
<1>3. CASE CreateFind(t)
  BY <1>0, <1>3, FrameTypes DEF CreateFind, Goto, SetFrame, Choosing, Frame
<1>4. CASE AllocateFetch(t) \/ AllocateWrite(t)
  BY <1>0, <1>4 DEF AllocateFetch, AllocateWrite, Goto, SetFrame, Choosing, Frame
<1>5. CASE AllocateFails(t) \/ CreateAdd(t)
  <2> DEFINE next == [NoFrame EXCEPT !.group = frame[t].group, !.cfm = frame[t].cfm]
  <2>1. pc[t] \in Choosing /\ pc'[t] = "created" /\ frame'[t] = next
    BY <1>0, <1>5 DEF AllocateFails, CreateAdd, Goto, SetFrame, Choosing
  <2>2. next.group = frame[t].group /\ next.cfm = frame[t].cfm
    BY FrameTypes DEF Frame
  <2> HIDE DEF next
  <2> QED
    BY <1>0, <2>1, <2>2
<1>6. CASE CreateWrite(t)
  BY <1>0, <1>6, FrameTypes DEF CreateWrite, Goto, SetFrame, Choosing
<1>7. ASSUME ~CreateSearch(t), ~CreateHeader(t), ~CreateFind(t), ~AllocateFetch(t),
             ~AllocateWrite(t), ~AllocateFails(t), ~CreateAdd(t), ~CreateWrite(t)
      PROVE  pc'[t] \notin {"created"} \cup Choosing
  BY <1>0, <1>7 DEF Step, Open, OpenRoot, OpenFind, OpenCheck, OpenFile, Close, Leave,
     CheckFinish, UnlinkFetch, UnlinkWrite, UnlinkAborts, RemoveFile, RemoveFind, RemoveEntry,
     TryFinish, Create, Start, Return, Continue, Goto, Choosing
<1> QED
  BY <1>0, <1>1, <1>2, <1>3, <1>4, <1>5, <1>6, <1>7 DEF Choosing

(* Only CreateSearch goes to another group.                                *)
LEMMA GroupStep ==
  ASSUME LifeInv, NEW t \in Thread, Step(t)
  PROVE  \/ frame'[t].group \in {0, frame[t].group}
         \/ /\ CreateSearch(t) /\ pc'[t] = "searching"
            /\ inodeMap[frame[t].group] = Inode
<1>0. /\ pc \in [Thread -> Location] /\ frame \in [Thread -> Frame] /\ frame[t] \in Frame
      /\ inodeMap \in Maps /\ frame[t].group \in Cylinder
  BY DEF LifeInv, TypeOK, Frame
<1>1. CASE \/ OpenRoot(t) \/ OpenFile(t) \/ TryFinish(t) \/ CreateHeader(t)
           \/ CreateWrite(t) \/ CreateFind(t) \/ UnlinkAborts(t)
           \/ \E n \in Name : Open(t, n) \/ RemoveFile(t, n) \/ Create(t, n)
           \/ \E i \in Inode : Close(t, i)
  <2> DEFINE next == [NoFrame EXCEPT !.victim = frame[t].inode, !.back = "leaving"]
  <2>1. next.group = 0
    BY FrameTypes DEF Frame
  <2> HIDE DEF next
  <2>2. CASE TryFinish(t)
    <3>1. frame'[t] = NoFrame \/ frame'[t] = next
      BY <1>0, <2>2 DEF TryFinish, SetFrame, next
    <3> QED
      BY <2>1, <3>1, FrameTypes
  <2>3. CASE OpenRoot(t) \/ OpenFile(t) \/ CreateHeader(t) \/ CreateWrite(t) \/ UnlinkAborts(t)
    BY <1>0, <2>3, FrameTypes DEF OpenRoot, OpenFile, CreateHeader, CreateWrite, UnlinkAborts,
       Start, Return, SetFrame, Frame
  <2>4. CASE CreateFind(t)
    BY <1>0, <2>4, FrameTypes DEF CreateFind, SetFrame, Frame
  <2>5. CASE \/ \E n \in Name : Open(t, n) \/ RemoveFile(t, n) \/ Create(t, n)
             \/ \E i \in Inode : Close(t, i)
    BY <1>0, <2>5, FrameTypes DEF Open, RemoveFile, Create, Close, Start, SetFrame, Frame
  <2> QED
    BY <1>1, <2>2, <2>3, <2>4, <2>5
<1>2. CASE OpenFind(t) \/ UnlinkFetch(t) \/ AllocateFetch(t) \/ AllocateWrite(t) \/ Leave(t)
  BY <1>0, <1>2 DEF OpenFind, UnlinkFetch, AllocateFetch, AllocateWrite, Leave, SetFrame, Frame
<1>3. CASE OpenCheck(t)
  <2> DEFINE next == [NoFrame EXCEPT !.inode = frame[t].inode,
                        !.back = IF frame[t].inode = None THEN "idle" ELSE "opening"]
  <2>1. next.group = 0
    BY FrameTypes DEF Frame
  <2> HIDE DEF next
  <2>2. frame'[t] = NoFrame \/ frame'[t] = next
    BY <1>0, <1>3 DEF OpenCheck, Return, SetFrame, next
  <2> QED
    BY <2>1, <2>2, FrameTypes
<1>4. CASE CheckFinish(t) \/ UnlinkWrite(t)
  BY <1>0, <1>4, FrameTypes DEF CheckFinish, UnlinkWrite, Continue, SetFrame, Frame
<1>5. CASE RemoveFind(t)
  <2> DEFINE next == [frame[t] EXCEPT !.inode = dir[frame[t].name], !.table = dir]
  <2>1. next.group = frame[t].group
    BY <1>0 DEF Frame
  <2> HIDE DEF next
  <2>2. frame'[t] = NoFrame \/ frame'[t] = next
    BY <1>0, <1>5 DEF RemoveFind, SetFrame, next
  <2> QED
    BY <2>1, <2>2, FrameTypes
<1>6. CASE RemoveEntry(t)
  BY <1>0, <1>6, FrameTypes DEF RemoveEntry, SetFrame, Frame
<1>7. CASE AllocateFails(t) \/ CreateAdd(t)
  <2> DEFINE next == [NoFrame EXCEPT !.group = frame[t].group, !.cfm = frame[t].cfm]
  <2>1. next.group = frame[t].group
    BY FrameTypes DEF Frame
  <2> HIDE DEF next
  <2>2. frame'[t] = next
    BY <1>0, <1>7 DEF AllocateFails, CreateAdd, SetFrame, next
  <2> QED
    BY <2>1, <2>2
<1>8. CASE CreateSearch(t)
  <2> DEFINE g == frame[t].group
             next == [frame[t] EXCEPT !.inode = Min(Inode \ inodeMap[g]),
                                      !.cfm = inodeMap[g] \cup {Min(Inode \ inodeMap[g])}]
  <2>1. next.group = frame[t].group
    BY <1>0 DEF Frame
  <2> HIDE DEF next
  <2>2. \/ frame'[t] = next
        \/ pc'[t] = "searching" /\ Inode \ inodeMap[g] = {}
        \/ frame'[t] = NoFrame
    BY <1>0, <1>8 DEF CreateSearch, SetFrame, Return, next
  <2>3. inodeMap[g] \subseteq Inode
    BY <1>0 DEF Maps
  <2> QED
    BY <1>8, <2>1, <2>2, <2>3, FrameTypes
<1> QED
  BY <1>1, <1>2, <1>3, <1>4, <1>5, <1>6, <1>7, <1>8 DEF Step

(* From the moment Create leaves the first group until it marks the number *)
(* in another, the number is the directory's.                              *)
LEMMA LeavingStep ==
  ASSUME LifeInv, NEW t \in Thread, MapsAreCurrent(t), CopyIsMarked(t), LeavingFirstGroup(t),
         Step(t)
  PROVE  /\ CopyIsMarked(t)'
         /\ LeavingFirstGroup(t)'
         /\ FirstGroupSuffices' => FirstGroupSuffices
         /\ Calm(t)' => Calm(t)
<1>0. /\ pc \in [Thread -> Location] /\ frame \in [Thread -> Frame] /\ frame[t] \in Frame
      /\ inodeMap \in Maps /\ frame[t].group \in Cylinder /\ pc' \in [Thread -> Location]
      /\ dir \in Table
  BY StepTypes DEF LifeInv, TypeOK, Frame
<1>1. CopyIsMarked(t)'
  BY CreateFrame DEF CopyIsMarked, Choosing
<1>2. FirstGroupSuffices' => FirstGroupSuffices /\ (frame[t].group # 0 => ~CreateWrite(t))
  <2>1. CASE inodeMap' = inodeMap /\ ~CreateWrite(t)
    BY <2>1 DEF FirstGroupSuffices
  <2>2. CASE UnlinkWrite(t) /\ inodeMap' = [inodeMap EXCEPT ![0] = @ \ {frame[t].victim}]
    BY <1>0, <2>2 DEF FirstGroupSuffices, Maps, UnlinkWrite, CreateWrite
  <2>3. CASE CreateWrite(t) /\ inodeMap' = [inodeMap EXCEPT ![frame[t].group] = frame[t].cfm]
    <3>1. frame[t].cfm # {}
      BY <2>3 DEF CopyIsMarked, CreateWrite
    <3>2. frame[t].group # 0 => ~FirstGroupSuffices'
      BY <1>0, <2>3, <3>1 DEF FirstGroupSuffices, Maps
    <3>3. frame[t].group = 0 => (FirstGroupSuffices' => FirstGroupSuffices)
      BY <1>0, <2>3 DEF FirstGroupSuffices, Maps
    <3> QED
      BY <3>2, <3>3
  <2> QED
    BY <2>1, <2>2, <2>3, BitmapsStep
<1>3. CASE FirstGroupSuffices' /\ frame[t].group = 0
  <2>1. LeavingFirstGroup(t)'
    <3> SUFFICES ASSUME frame'[t].group # 0 PROVE LeavingFirstGroup(t)'
      BY DEF LeavingFirstGroup
    <3>1. CreateSearch(t) /\ pc'[t] = "searching" /\ inodeMap[0] = Inode
      BY <1>3, GroupStep
    <3>2. inodeMap' = inodeMap
      BY <3>1 DEF CreateSearch
    <3> QED
      BY <3>1, <3>2 DEF LeavingFirstGroup, Choosing
  <2> QED
    BY <1>1, <1>2, <1>3, <2>1 DEF Calm
<1>4. CASE FirstGroupSuffices' /\ frame[t].group # 0
  <2>1. /\ inodeMap[0] = Inode /\ inodeMap[frame[t].group] = {}
        /\ pc[t] \in {"searching", "created"} \cup Choosing
        /\ pc[t] \in Choosing => frame[t].inode = Root
        /\ pc[t] = "fetching" => \A n \in Name : dir[n] = None
    BY <1>0, <1>2, <1>4 DEF LeavingFirstGroup, FirstGroupSuffices
  <2>2. \/ CreateSearch(t) \/ CreateHeader(t) \/ CreateFind(t) \/ AllocateFetch(t)
        \/ AllocateWrite(t) \/ AllocateFails(t) \/ CreateAdd(t)
    BY <1>2, <1>4, <2>1 DEF Step, Open, OpenRoot, OpenFind, OpenCheck, OpenFile, Close, Leave,
       CheckFinish, UnlinkFetch, UnlinkWrite, UnlinkAborts, RemoveFile, RemoveFind, RemoveEntry,
       TryFinish, Create, Start, Choosing
  <2>3. inodeMap' = inodeMap
    BY <2>2, BitmapsStep DEF CreateSearch, CreateHeader, CreateFind, AllocateFetch, AllocateWrite,
       AllocateFails, CreateAdd, UnlinkWrite, CreateWrite
  <2>4. /\ pc'[t] \in {"created"} \cup Choosing
        /\ pc'[t] = "fetching" => CreateHeader(t)
        /\ pc'[t] = "creating" => CreateSearch(t)
    <3>1. CASE CreateSearch(t)
      <4>1. Inode \ inodeMap[frame[t].group] # {}
        BY <2>1, FrameTypes
      <4> QED
        BY <1>0, <3>1, <4>1 DEF CreateSearch, Goto, Choosing
    <3>2. CASE CreateFind(t)
      <4>1. pc[t] = "fetching" /\ frame[t].name \in Name
        BY <3>2 DEF CreateFind, LifeInv, InHand, Choosing
      <4> QED
        BY <1>0, <2>1, <3>2, <4>1 DEF CreateFind, Goto, Choosing
    <3> QED
      BY <1>0, <2>2, <3>1, <3>2 DEF CreateHeader, AllocateFetch, AllocateWrite, AllocateFails,
         CreateAdd, Goto, Choosing
  <2>5. frame'[t].group = frame[t].group
    BY <2>4, CreateFrame DEF Choosing
  <2>6. pc'[t] \in Choosing => frame'[t].inode = Root
    BY <2>1, <2>4, CreateFrame, FirstNumber DEF Choosing
  <2>7. pc'[t] = "fetching" => \A n \in Name : dir'[n] = None
    <3> SUFFICES ASSUME pc'[t] = "fetching" PROVE \A n \in Name : dir'[n] = None
      OBVIOUS
    <3>1. CreateHeader(t) /\ frame[t].inode = Root
      BY <2>1, <2>4 DEF CreateHeader, Choosing
    <3> QED
      BY <3>1 DEF CreateHeader
  <2> QED
    BY <1>1, <1>2, <1>4, <2>1, <2>3, <2>4, <2>5, <2>6, <2>7 DEF LeavingFirstGroup, Calm, Choosing
<1>5. CASE ~FirstGroupSuffices'
  BY <1>1, <1>5 DEF LeavingFirstGroup, Calm
<1> QED
  BY <1>3, <1>4, <1>5

(* The entry that Remove deletes is the one it found, and Create adds a    *)
(* name that is new.                                                       *)
LEMMA LookedUpStep ==
  ASSUME LifeInv, NEW t \in Thread, LookedUp(t), Step(t)
  PROVE  LookedUp(t)'
<1>0. pc \in [Thread -> Location] /\ frame \in [Thread -> Frame] /\ frame[t] \in Frame
  BY DEF LifeInv, TypeOK
<1>1. CASE RemoveFind(t)
  <2> DEFINE i == dir[frame[t].name]
             next == [frame[t] EXCEPT !.inode = i, !.table = dir]
  <2>1. next.inode = i /\ next.table = dir /\ next.name = frame[t].name
    BY <1>0 DEF Frame
  <2> HIDE DEF next
  <2>2. (pc'[t] = "erasing" /\ frame'[t] = next) \/ pc'[t] = "leaving"
    BY <1>0, <1>1 DEF RemoveFind, Goto, SetFrame, next
  <2> QED
    BY <2>1, <2>2 DEF LookedUp
<1>2. CASE CreateFind(t)
  BY <1>0, <1>2 DEF CreateFind, Goto, SetFrame, LookedUp, Frame
<1>3. CASE AllocateFetch(t) \/ AllocateWrite(t)
  BY <1>0, <1>3 DEF AllocateFetch, AllocateWrite, Goto, SetFrame, LookedUp, Frame
<1>4. ASSUME ~RemoveFind(t), ~CreateFind(t), ~AllocateFetch(t), ~AllocateWrite(t)
      PROVE  pc'[t] \notin {"erasing", "adding", "allocating", "growing"}
  <2>1. frame[t].back \in {"idle", "opening", "leaving"}
    BY <1>0 DEF Frame
  <2> QED
    BY <1>0, <1>4, <2>1 DEF Step, Open, OpenRoot, OpenFind, OpenCheck, OpenFile, Close, Leave,
       CheckFinish, UnlinkFetch, UnlinkWrite, UnlinkAborts, RemoveFile, RemoveEntry, TryFinish,
       Create, CreateSearch, CreateHeader, AllocateFails, CreateAdd, CreateWrite, Start, Return,
       Continue, Goto
<1> QED
  BY <1>1, <1>2, <1>3, <1>4 DEF LookedUp

(* The steps that change neither what is in use nor what Create has chosen. *)
LEMMA QuietStep ==
  ASSUME LifeInv, NEW t \in Thread, Step(t), OneReason(t), MarkedInUse(t),
         UNCHANGED <<dir, inodeMap, finish, orphans>>, Due(t)' = Due(t),
         pc[t] # "created",
         pc'[t] \notin {"creating", "created"}
  PROVE  OneReason(t)' /\ MarkedInUse(t)'
<1>1. Named' = Named
  BY DEF Named
<1>2. OneReason(t)'
  BY <1>1 DEF OneReason
<1>3. pc'[t] \in Choosing => /\ pc[t] \in Choosing
                             /\ frame'[t].inode = frame[t].inode /\ frame'[t].cfm = frame[t].cfm
  BY CreateFrame DEF Choosing
<1> QED
  BY <1>1, <1>2, <1>3 DEF MarkedInUse, InUse

(* The steps that begin or decide a deletion.                              *)
LEMMA DeletionStep ==
  ASSUME LifeInv, NEW t \in Thread, Step(t), OneReason(t), MarkedInUse(t),
         LookedUp(t), CheckFinish(t) \/ TryFinish(t) \/ RemoveEntry(t)
  PROVE  OneReason(t)' /\ MarkedInUse(t)'
<1>0. /\ pc \in [Thread -> Location] /\ frame \in [Thread -> Frame] /\ frame[t] \in Frame
      /\ dir \in Table /\ finish \subseteq Inode /\ None \notin Inode /\ Root \in Inode
      /\ frame[t].back \in {"idle", "opening", "leaving"}
  BY FrameTypes DEF LifeInv, TypeOK, Frame
<1>1. UNCHANGED <<inodeMap, orphans>> /\ pc[t] \notin {"created"} \cup Choosing
  BY DEF CheckFinish, TryFinish, RemoveEntry, Choosing
<1>2. pc'[t] \notin {"created"} \cup Choosing
  BY <1>0 DEF CheckFinish, TryFinish, RemoveEntry, Continue, Goto, Choosing
<1>3. ASSUME OneReason(t)', (InUse \cup Due(t))' = InUse \cup Due(t)
      PROVE  OneReason(t)' /\ MarkedInUse(t)'
  BY <1>1, <1>2, <1>3 DEF MarkedInUse
<1>4. CASE CheckFinish(t)
  <2>1. pc[t] = "closing" /\ Due(t) = {} /\ Named' = Named /\ dir' = dir
    BY <1>4 DEF CheckFinish, Due, Named
  <2>2. CASE pc'[t] = "unlinking" /\ frame'[t] = frame[t] /\ frame[t].victim \in finish
             /\ finish' = finish \ {frame[t].victim}
    <3>1. Due(t)' = {frame[t].victim}
      BY <2>2 DEF Due
    <3>2. OneReason(t)'
      BY <1>1, <2>1, <2>2, <3>1 DEF OneReason
    <3>3. (InUse \cup Due(t))' = InUse \cup Due(t)
      BY <1>1, <2>1, <2>2, <3>1 DEF InUse
    <3> QED
      BY <1>3, <3>2, <3>3
  <2>3. CASE pc'[t] \in {"idle", "opening", "leaving"} /\ finish' = finish
    <3>1. Due(t)' = {}
      BY <2>3 DEF Due
    <3> QED
      BY <1>1, <1>3, <2>1, <2>3, <3>1 DEF OneReason, InUse
  <2> QED
    BY <1>0, <1>4, <2>2, <2>3 DEF CheckFinish, LastClose, Continue, Goto
<1>5. CASE TryFinish(t)
  <2> DEFINE i == frame[t].inode
             next == [NoFrame EXCEPT !.victim = i, !.back = "leaving"]
  <2>0. next.victim = i
    BY FrameTypes DEF Frame
  <2> HIDE DEF next
  <2>1. pc[t] = "removed" /\ Due(t) = {i} /\ Named' = Named /\ dir' = dir
    BY <1>5 DEF TryFinish, Due, Named
  <2>2. \/ pc'[t] = "unlinking" /\ frame'[t] = next /\ finish' = finish
        \/ pc'[t] = "leaving" /\ finish' = finish \cup {i}
    BY <1>0, <1>5 DEF TryFinish, Goto, SetFrame, next
  <2>3. \/ Due(t)' = {i} /\ finish' = finish
        \/ Due(t)' = {} /\ finish' = finish \cup {i}
    BY <2>0, <2>2 DEF Due
  <2>4. OneReason(t)'
    BY <1>1, <2>1, <2>3 DEF OneReason
  <2>5. (InUse \cup Due(t))' = InUse \cup Due(t)
    BY <1>1, <2>1, <2>3 DEF InUse
  <2> QED
    BY <1>3, <2>4, <2>5
<1>6. CASE RemoveEntry(t)
  <2> DEFINE n == frame[t].name
             i == frame[t].inode
             next == [NoFrame EXCEPT !.inode = i]
  <2>0. next.inode = i
    BY FrameTypes DEF Frame
  <2> HIDE DEF next
  <2>1. /\ pc[t] = "erasing" /\ pc'[t] = "removed" /\ frame'[t] = next
        /\ dir' = [frame[t].table EXCEPT ![n] = None] /\ finish' = finish
    BY <1>0, <1>6 DEF RemoveEntry, Goto, SetFrame, next
  <2>2. frame[t].table = dir /\ n \in Name /\ i \in Inode /\ dir[n] = i
    BY <2>1 DEF LifeInv, TableIsCurrent, InHand, LookedUp
  <2>3. dir'[n] = None /\ \A m \in Name : m # n => dir'[m] = dir[m]
    BY <1>0, <2>1, <2>2 DEF Table
  <2>4. Due(t) = {} /\ Due(t)' = {i}
    BY <2>0, <2>1 DEF Due
  <2>5. i \in Named /\ Named' = Named \ {i}
    BY <1>0, <2>2, <2>3 DEF Named, OneReason
  <2>6. OneReason(t)'
    BY <1>0, <1>1, <2>1, <2>3, <2>4, <2>5 DEF OneReason
  <2>7. (InUse \cup Due(t))' = InUse \cup Due(t)
    BY <1>1, <2>1, <2>4, <2>5 DEF InUse
  <2> QED
    BY <1>3, <2>6, <2>7
<1> QED
  BY <1>4, <1>5, <1>6

(* The steps that choose, name and mark a new file's inode, and the one    *)
(* that frees an inode.                                                    *)
LEMMA MarkingStep ==
  ASSUME LifeInv, NEW t \in Thread, Step(t), Calm(t), OneReason(t), MarkedInUse(t),
         LookedUp(t), MapsAreCurrent(t),
         CreateSearch(t) \/ AllocateFails(t) \/ CreateAdd(t) \/ CreateWrite(t) \/ UnlinkWrite(t)
  PROVE  OneReason(t)' /\ MarkedInUse(t)'
<1>0. /\ pc \in [Thread -> Location] /\ frame \in [Thread -> Frame] /\ frame[t] \in Frame
      /\ dir \in Table /\ inodeMap \in Maps /\ finish \subseteq Inode /\ orphans \subseteq Inode
      /\ None \notin Inode /\ Root \in Inode /\ 0 \in Cylinder
      /\ frame[t].back \in {"idle", "opening", "leaving"} /\ frame[t].group = 0
  BY FrameTypes DEF LifeInv, TypeOK, Frame, Calm
<1>1. /\ pc[t] \in Choosing => frame[t].inode \in Inode /\ frame[t].name \in Name
      /\ pc[t] \in {"adding", "allocating", "growing"} => frame[t].table = dir
  BY DEF LifeInv, InHand, TableIsCurrent
<1>2. CASE CreateSearch(t)
  <2>1. UNCHANGED <<dir, inodeMap, finish, orphans>> /\ Named' = Named /\ pc[t] = "searching"
    BY <1>2 DEF CreateSearch, Named
  <2>2. pc'[t] \in {"searching", "creating", "idle"}
    BY <1>0, <1>2, <2>1 DEF CreateSearch, Return, Goto
  <2>3. Due(t) = {} /\ Due(t)' = {}
    BY <2>1, <2>2 DEF Due
  <2>4. OneReason(t)' /\ InUse' = InUse
    BY <2>1, <2>3 DEF OneReason, InUse
  <2>5. ASSUME pc'[t] = "creating"
        PROVE  frame'[t].inode \notin inodeMap[0] /\ frame'[t].cfm = inodeMap[0] \cup {frame'[t].inode}
    <3>1. /\ Inode \ inodeMap[0] # {} /\ frame'[t].inode = Min(Inode \ inodeMap[0])
          /\ frame'[t].cfm = inodeMap[0] \cup {frame'[t].inode}
      BY <1>0, <2>5, CreateFrame
    <3>2. Inode \ inodeMap[0] \subseteq Nat
      BY DEF Inode
    <3>3. Min(Inode \ inodeMap[0]) \in Inode \ inodeMap[0]
      BY <3>1, <3>2, MinIsElement
    <3> QED
      BY <3>1, <3>3
  <2> QED
    BY <2>1, <2>2, <2>3, <2>4, <2>5 DEF MarkedInUse, Choosing
<1>3. CASE AllocateFails(t) \/ CreateAdd(t)
  <2> DEFINE i == frame[t].inode
             n == frame[t].name
  <2>1. /\ pc[t] \in {"allocating", "growing"} /\ pc'[t] = "created"
        /\ UNCHANGED <<inodeMap, finish>>
    BY <1>0, <1>3 DEF AllocateFails, CreateAdd, Goto
  <2>2. frame'[t].cfm = frame[t].cfm
    BY <2>1, CreateFrame
  <2>3. Due(t) = {} /\ Due(t)' = {}
    BY <2>1 DEF Due
  <2>4. /\ i \in Inode /\ i \notin InUse /\ n \in Name /\ dir[n] = None
        /\ inodeMap[0] = InUse /\ frame[t].cfm = InUse \cup {i}
    BY <1>1, <2>1, <2>3 DEF MarkedInUse, LookedUp, Choosing
  <2>5. ASSUME OneReason(t)', InUse' = InUse \cup {i} PROVE OneReason(t)' /\ MarkedInUse(t)'
    BY <2>1, <2>2, <2>4, <2>5 DEF MarkedInUse, Choosing
  <2>6. CASE AllocateFails(t)
    <3>1. orphans' = orphans \cup {i} /\ dir' = dir /\ Named' = Named
      BY <2>6 DEF AllocateFails, Named
    <3>2. OneReason(t)'
      BY <2>1, <2>3, <2>4, <3>1 DEF OneReason, InUse
    <3>3. InUse' = InUse \cup {i}
      BY <2>1, <3>1 DEF InUse
    <3> QED
      BY <2>5, <3>2, <3>3
  <2>7. CASE CreateAdd(t)
    <3>1. orphans' = orphans /\ dir' = [dir EXCEPT ![n] = i]
      BY <1>1, <2>1, <2>7 DEF CreateAdd
    <3>2. dir'[n] = i /\ \A m \in Name : m # n => dir'[m] = dir[m]
      BY <1>0, <2>4, <3>1 DEF Table
    <3>3. Named' = Named \cup {i}
      BY <1>0, <2>4, <3>2 DEF Named
    <3>4. \A m \in Name : dir[m] # i
      BY <2>4 DEF InUse, Named
    <3>5. OneReason(t)'
      BY <1>0, <2>1, <2>3, <2>4, <3>1, <3>2, <3>3, <3>4 DEF OneReason, InUse
    <3>6. InUse' = InUse \cup {i}
      BY <2>1, <3>1, <3>3 DEF InUse
    <3> QED
      BY <2>5, <3>5, <3>6
  <2> QED
    BY <1>3, <2>6, <2>7
<1>4. CASE CreateWrite(t)
  <2>1. /\ UNCHANGED <<dir, finish, orphans>> /\ Named' = Named
        /\ pc[t] = "created" /\ pc'[t] = "leaving"
    BY <1>0, <1>4 DEF CreateWrite, Goto, Named
  <2>2. inodeMap'[0] = frame[t].cfm
    BY <1>0, <1>4 DEF CreateWrite, Maps
  <2>3. Due(t) = {} /\ Due(t)' = {}
    BY <2>1 DEF Due
  <2>4. OneReason(t)' /\ InUse' = InUse
    BY <2>1, <2>3 DEF OneReason, InUse
  <2> QED
    BY <2>1, <2>2, <2>3, <2>4 DEF MarkedInUse, Choosing
<1>5. CASE UnlinkWrite(t)
  <2>1. /\ UNCHANGED <<dir, finish, orphans>> /\ Named' = Named
        /\ pc[t] = "unlinked" /\ pc'[t] \in {"idle", "opening", "leaving"}
    BY <1>0, <1>5 DEF UnlinkWrite, Continue, Goto, Named
  <2>2. inodeMap'[0] = inodeMap[0] \ {frame[t].victim}
    BY <1>0, <1>5, BitmapsStep DEF Maps, UnlinkWrite, CreateWrite
  <2>3. Due(t) = {frame[t].victim} /\ Due(t)' = {}
    BY <2>1 DEF Due
  <2>4. OneReason(t)' /\ InUse' = InUse
    BY <2>1, <2>3 DEF OneReason, InUse
  <2>5. inodeMap'[0] = InUse
    BY <2>1, <2>2, <2>3 DEF OneReason, MarkedInUse, InUse
  <2> QED
    BY <2>1, <2>3, <2>4, <2>5 DEF MarkedInUse, Choosing
<1> QED
  BY <1>2, <1>3, <1>4, <1>5

(* While the first group suffices, what is marked is in use.               *)
LEMMA ReasonsStep ==
  ASSUME LifeInv, NEW t \in Thread, Step(t), Calm(t), OneReason(t), MarkedInUse(t),
         LookedUp(t), MapsAreCurrent(t)
  PROVE  OneReason(t)' /\ MarkedInUse(t)'
<1>0. /\ pc \in [Thread -> Location] /\ frame \in [Thread -> Frame] /\ frame[t] \in Frame
      /\ dir \in Table /\ None \notin Inode
  BY FrameTypes DEF LifeInv, TypeOK
<1>1. CASE CheckFinish(t) \/ TryFinish(t) \/ RemoveEntry(t)
  BY <1>1, DeletionStep
<1>2. CASE CreateSearch(t) \/ AllocateFails(t) \/ CreateAdd(t) \/ CreateWrite(t) \/ UnlinkWrite(t)
  BY <1>2, MarkingStep
<1>3. CASE UnlinkFetch(t) \/ UnlinkAborts(t)
  <2>1. /\ UNCHANGED <<dir, inodeMap, finish, orphans>> /\ frame'[t].victim = frame[t].victim
        /\ pc[t] \in {"unlinking", "unlinked"} /\ pc'[t] \in {"unlinked", "aborted"}
    BY <1>0, <1>3 DEF UnlinkFetch, UnlinkAborts, Goto, SetFrame, Frame
  <2>2. Due(t)' = Due(t)
    BY <2>1 DEF Due
  <2> QED
    BY <2>1, <2>2, QuietStep
<1>4. CASE CreateHeader(t)
  <2>1. /\ UNCHANGED <<inodeMap, finish, orphans>> /\ pc[t] = "creating" /\ pc'[t] = "fetching"
        /\ dir' = IF frame[t].inode = Root THEN [n \in Name |-> None] ELSE dir
    BY <1>0, <1>4 DEF CreateHeader, Goto
  <2>2. frame[t].inode # Root
    BY <2>1 DEF MarkedInUse, InUse, Choosing
  <2>3. Due(t)' = Due(t)
    BY <2>1 DEF Due
  <2> QED
    BY <2>1, <2>2, <2>3, QuietStep
<1>5. CASE AllocateWrite(t)
  <2>1. /\ UNCHANGED <<dir, finish, orphans>> /\ pc[t] = "allocating" /\ pc'[t] = "growing"
        /\ inodeMap' = inodeMap
    BY <1>0, <1>5 DEF AllocateWrite, MapsAreCurrent, Goto
  <2>2. Due(t)' = Due(t)
    BY <2>1 DEF Due
  <2> QED
    BY <2>1, <2>2, QuietStep
<1>6. ASSUME \/ \E n \in Name : Open(t, n) \/ RemoveFile(t, n) \/ Create(t, n)
             \/ \E i \in Inode : Close(t, i)
             \/ OpenRoot(t) \/ OpenFind(t) \/ OpenCheck(t) \/ OpenFile(t)
             \/ Leave(t) \/ RemoveFind(t) \/ CreateFind(t) \/ AllocateFetch(t)
      PROVE  OneReason(t)' /\ MarkedInUse(t)'
  <2>1. UNCHANGED <<dir, inodeMap, finish, orphans>>
    BY <1>6 DEF Open, RemoveFile, Create, Close, OpenRoot, OpenFind, OpenCheck, OpenFile, Leave,
       RemoveFind, CreateFind, AllocateFetch
  <2>2. pc[t] \notin {"removed", "unlinking", "unlinked", "aborted", "created"}
    BY <1>6 DEF Open, RemoveFile, Create, Close, OpenRoot, OpenFind, OpenCheck, OpenFile, Leave,
       RemoveFind, CreateFind, AllocateFetch, Start
  <2>3. pc'[t] \notin {"removed", "unlinking", "unlinked", "aborted", "created", "creating"}
    BY <1>0, <1>6 DEF Open, RemoveFile, Create, Close, OpenRoot, OpenFind, OpenCheck, OpenFile,
       Leave, RemoveFind, CreateFind, AllocateFetch, Start, Return, Goto
  <2>4. Due(t)' = Due(t)
    BY <2>2, <2>3 DEF Due
  <2> QED
    BY <2>1, <2>2, <2>3, <2>4, QuietStep
<1> QED
  BY <1>1, <1>2, <1>3, <1>4, <1>5, <1>6 DEF Step

(* A step opens the directory, or the file that Open was asked for.        *)
LEMMA OpenedStep ==
  ASSUME LifeInv, NEW t \in Thread, Step(t), NEW i \in Inode, opened'[t][i] > 0
  PROVE  \/ opened[t][i] > 0
         \/ i = Root /\ pc'[t] \in {"looking", "removing", "fetching"}
         \/ i = frame[t].inode /\ OpenFile(t)
<1>0. /\ pc \in [Thread -> Location] /\ Root \in Inode
      /\ opened \in [Thread -> [Inode -> 0 .. MaxOpen + 1]]
      /\ opened[t] \in [Inode -> 0 .. MaxOpen + 1] /\ MaxOpen \in Nat
  BY FrameTypes, FileLifeAssumption DEF LifeInv, TypeOK
<1>1. ASSUME NEW j \in Inode, CountOpen(t, j) PROVE i = j \/ opened[t][i] > 0
  BY <1>0, <1>1 DEF CountOpen
<1>2. ASSUME NEW j \in Inode, CountClose(t, j) PROVE opened[t][i] > 0
  BY <1>0, <1>2 DEF CountClose
<1>3. CASE \/ \E n \in Name : Open(t, n) \/ RemoveFile(t, n)
           \/ CreateHeader(t)
  BY <1>0, <1>1, <1>3 DEF Open, RemoveFile, CreateHeader, Start, Goto
<1>4. CASE OpenFile(t)
  <2>1. frame[t].inode \in Inode
    BY <1>4 DEF OpenFile, LifeInv, InHand
  <2> QED
    BY <1>1, <1>4, <2>1 DEF OpenFile
<1>5. CASE Leave(t) \/ \E j \in Inode : Close(t, j)
  BY <1>0, <1>2, <1>5 DEF Leave, Close
<1>6. ASSUME ~CreateHeader(t), ~OpenFile(t), ~Leave(t), ~\E j \in Inode : Close(t, j),
             ~\E n \in Name : Open(t, n) \/ RemoveFile(t, n)
      PROVE  opened' = opened
  BY <1>6 DEF Step, OpenRoot, OpenFind, OpenCheck, CheckFinish, UnlinkFetch, UnlinkWrite,
     UnlinkAborts, RemoveFind, RemoveEntry, TryFinish, Create, CreateSearch, CreateFind,
     AllocateFetch, AllocateWrite, AllocateFails, CreateAdd, CreateWrite
<1> QED
  BY <1>3, <1>4, <1>5, <1>6

(* What Open is about to open it has found, or it is the directory.        *)
LEMMA InOpenStep ==
  ASSUME LifeInv, NEW t \in Thread, Step(t), InOpen(t)', frame'[t].inode # None
  PROVE  \/ InOpen(t) /\ frame'[t].inode = frame[t].inode
         \/ frame'[t].inode \in Named \cup {Root} /\ (OpenRoot(t) \/ OpenFind(t))
<1>0. /\ pc \in [Thread -> Location] /\ frame \in [Thread -> Frame] /\ frame[t] \in Frame
      /\ frame[t].back \in {"idle", "opening", "leaving"} /\ dir \in Table
  BY DEF LifeInv, TypeOK, Frame
<1>h. /\ pc[t] \in {"idle", "looking"} => frame[t].inode = None
      /\ pc[t] = "looking" => frame[t].name \in Name
      /\ frame[t].back = "opening" =>
           pc[t] \in {"leaving", "closing", "unlinking", "unlinked", "aborted"}
  BY DEF LifeInv, InHand
<1>1. CASE OpenRoot(t)
  BY <1>0, <1>1, FrameTypes DEF OpenRoot, Start, SetFrame, Frame
<1>2. CASE OpenFind(t)
  <2>1. frame'[t].inode = dir[frame[t].name] /\ frame[t].name \in Name
    BY <1>0, <1>h, <1>2 DEF OpenFind, SetFrame, Frame
  <2> QED
    BY <1>0, <1>2, <2>1 DEF Named, Table
<1>3. CASE OpenCheck(t)
  <2> DEFINE next == [NoFrame EXCEPT !.inode = frame[t].inode,
                        !.back = IF frame[t].inode = None THEN "idle" ELSE "opening"]
  <2>1. next.inode = frame[t].inode
    BY FrameTypes DEF Frame
  <2> HIDE DEF next
  <2>2. pc[t] = "found" /\ (frame'[t] = NoFrame \/ frame'[t] = next)
    BY <1>0, <1>3 DEF OpenCheck, Return, SetFrame, next
  <2> QED
    BY <2>1, <2>2, FrameTypes DEF InOpen
<1>4. CASE CheckFinish(t) \/ UnlinkWrite(t)
  BY <1>0, <1>4, FrameTypes DEF CheckFinish, UnlinkWrite, Continue, Goto, SetFrame, InOpen, Frame
<1>5. CASE Leave(t) \/ UnlinkFetch(t) \/ UnlinkAborts(t)
  BY <1>0, <1>5 DEF Leave, UnlinkFetch, UnlinkAborts, Goto, SetFrame, InOpen, Frame
<1>6. CASE \E n \in Name : Open(t, n)
  BY <1>0, <1>6, FrameTypes DEF Open, Start, Goto, SetFrame, Frame
<1>7. CASE TryFinish(t)
  <2> DEFINE next == [NoFrame EXCEPT !.victim = frame[t].inode, !.back = "leaving"]
  <2>1. next.back = "leaving"
    BY FrameTypes DEF Frame
  <2> HIDE DEF next
  <2>2. /\ frame'[t] = NoFrame \/ frame'[t] = next
        /\ pc'[t] \in {"leaving", "unlinking"}
    BY <1>0, <1>7 DEF TryFinish, SetFrame, Goto, next
  <2> QED
    BY <2>1, <2>2, FrameTypes DEF InOpen
<1>8. CASE RemoveFind(t)
  <2> DEFINE next == [frame[t] EXCEPT !.inode = dir[frame[t].name], !.table = dir]
  <2>1. next.back = frame[t].back
    BY <1>0 DEF Frame
  <2> HIDE DEF next
  <2>2. /\ frame'[t] = NoFrame \/ frame'[t] = next
        /\ pc[t] = "removing" /\ pc'[t] \in {"erasing", "leaving"}
    BY <1>0, <1>8 DEF RemoveFind, SetFrame, Goto, next
  <2> QED
    BY <1>h, <2>1, <2>2, FrameTypes DEF InOpen
<1>9. CASE CreateSearch(t)
  <2> DEFINE new == Min(Inode \ inodeMap[frame[t].group])
             copy == inodeMap[frame[t].group] \cup {new}
             next == [frame[t] EXCEPT !.inode = new, !.cfm = copy]
  <2>1. next.back = frame[t].back
    BY <1>0 DEF Frame
  <2>2. /\ frame'[t] = NoFrame \/ frame'[t] = next \/ frame'[t].back = frame[t].back
        /\ pc[t] = "searching" /\ pc'[t] \in {"searching", "creating", "idle"}
    BY <1>0, <1>9 DEF CreateSearch, Return, SetFrame, Goto, Frame
  <2> HIDE DEF next
  <2> QED
    BY <1>h, <2>1, <2>2, FrameTypes DEF InOpen
<1>10. CASE AllocateFails(t) \/ CreateAdd(t)
  <2> DEFINE next == [NoFrame EXCEPT !.group = frame[t].group, !.cfm = frame[t].cfm]
  <2>1. next.back = "idle"
    BY FrameTypes DEF Frame
  <2> HIDE DEF next
  <2>2. frame'[t] = next /\ pc'[t] = "created"
    BY <1>0, <1>10 DEF AllocateFails, CreateAdd, SetFrame, Goto, next
  <2> QED
    BY <2>1, <2>2 DEF InOpen
<1>11. CASE AllocateFetch(t) \/ AllocateWrite(t) \/ CreateFind(t) \/ CreateHeader(t)
            \/ CreateWrite(t) \/ RemoveEntry(t)
  BY <1>0, <1>h, <1>11, FrameTypes DEF AllocateFetch, AllocateWrite, CreateFind, CreateHeader,
     CreateWrite, RemoveEntry, SetFrame, Goto, InOpen, Frame
<1>12. CASE OpenFile(t) \/ \E n \in Name : RemoveFile(t, n) \/ Create(t, n)
  BY <1>0, <1>12, FrameTypes DEF OpenFile, RemoveFile, Create, Start, Return, SetFrame, Goto,
     InOpen, Frame
<1>13. CASE \E i \in Inode : Close(t, i)
  BY <1>0, <1>13, FrameTypes DEF Close, Start, SetFrame, Goto, InOpen, Frame
<1> QED
  BY <1>1, <1>2, <1>3, <1>4, <1>5, <1>6, <1>7, <1>8, <1>9, <1>10, <1>11, <1>12, <1>13 DEF Step

(* What is unlinked is not open.                                           *)
LEMMA UnlinkingStep ==
  ASSUME LifeInv, NEW t \in Thread, Step(t), OneReason(t),
         pc[t] \in {"unlinking", "unlinked"} =>
           opened[t][frame[t].victim] = 0 /\ frame[t].back # "opening",
         pc'[t] \in {"unlinking", "unlinked"}
  PROVE  opened'[t][frame'[t].victim] = 0 /\ frame'[t].back # "opening"
<1>0. /\ pc \in [Thread -> Location] /\ frame \in [Thread -> Frame] /\ frame[t] \in Frame
      /\ frame[t].back \in {"idle", "opening", "leaving"} /\ TypeOK /\ UsageCounts
  BY DEF LifeInv, TypeOK, Frame
<1>1. CASE CheckFinish(t)
  <2>1. /\ pc[t] = "closing" /\ LastClose(t) /\ frame' = frame /\ opened' = opened
    BY <1>0, <1>1 DEF CheckFinish, Continue, Goto
  <2>2. frame[t].victim \in Inode \ {Root} /\ usage[frame[t].victim] = 0
    BY <2>1 DEF LastClose, OneReason, LifeInv, InHand
  <2>3. frame[t].back # "opening"
    BY <2>1, <2>2 DEF LifeInv, InHand
  <2> QED
    BY <1>0, <2>1, <2>2, <2>3, UnusedIsClosed
<1>2. CASE TryFinish(t)
  <2> DEFINE i == frame[t].inode
             next == [NoFrame EXCEPT !.victim = i, !.back = "leaving"]
  <2>1. next.victim = i /\ next.back = "leaving"
    BY FrameTypes DEF Frame
  <2> HIDE DEF next
  <2>2. pc[t] = "removed" /\ usage[i] = 0 /\ frame'[t] = next /\ opened' = opened
    BY <1>0, <1>2 DEF TryFinish, SetFrame, Goto, next
  <2>3. i \in Inode
    BY <2>2 DEF LifeInv, InHand
  <2> QED
    BY <1>0, <2>1, <2>2, <2>3, UnusedIsClosed
<1>3. CASE UnlinkFetch(t)
  BY <1>0, <1>3 DEF UnlinkFetch, SetFrame, Frame
<1>4. ASSUME ~CheckFinish(t), ~TryFinish(t), ~UnlinkFetch(t) PROVE FALSE
  BY <1>0, <1>4 DEF Step, Open, OpenRoot, OpenFind, OpenCheck, OpenFile, Close, Leave,
     UnlinkWrite, UnlinkAborts, RemoveFile, RemoveFind, RemoveEntry, Create, CreateSearch,
     CreateHeader, CreateFind, AllocateFetch, AllocateWrite, AllocateFails, CreateAdd,
     CreateWrite, Start, Return, Continue, Goto
<1> QED
  BY <1>1, <1>2, <1>3, <1>4

(* While the first group suffices, what is open stays marked.              *)
LEMMA OpenStep ==
  ASSUME LifeInv, NEW t \in Thread, Step(t), Calm(t), OneReason(t), MarkedInUse(t),
         OneReason(t)', MarkedInUse(t)', MapsAreCurrent(t), OpenIsMarked(t)
  PROVE  OpenIsMarked(t)'
<1>0. /\ pc \in [Thread -> Location] /\ inodeMap \in Maps /\ 0 \in Cylinder
      /\ frame[t].group = 0 /\ dir \in Table
  BY FrameTypes DEF LifeInv, TypeOK, Calm
<1>1. \/ inodeMap[0] \subseteq inodeMap'[0] /\ ~UnlinkWrite(t)
      \/ UnlinkWrite(t) /\ inodeMap'[0] = inodeMap[0] \ {frame[t].victim}
  <2>1. CASE CreateWrite(t) /\ inodeMap' = [inodeMap EXCEPT ![frame[t].group] = frame[t].cfm]
    <3>1. pc[t] = "created" /\ inodeMap'[0] = frame[t].cfm
      BY <1>0, <2>1 DEF CreateWrite, Maps
    <3> QED
      BY <2>1, <3>1 DEF MarkedInUse, CreateWrite, UnlinkWrite
  <2> QED
    BY <1>0, <2>1, BitmapsStep DEF Maps
<1>2. pc'[t] # "created" => Root \in inodeMap'[0]
  BY DEF MarkedInUse, InUse
<1>3. pc[t] \in {"unlinking", "unlinked"} =>
        opened[t][frame[t].victim] = 0 /\ frame[t].back # "opening"
  BY DEF OpenIsMarked
<1>4. ASSUME NEW i \in Inode, opened'[t][i] > 0 PROVE i \in inodeMap'[0]
  <2>1. CASE opened[t][i] > 0
    <3>1. i \in inodeMap[0]
      BY <2>1 DEF OpenIsMarked
    <3>2. UnlinkWrite(t) => i # frame[t].victim
      BY <1>3, <2>1 DEF UnlinkWrite
    <3> QED
      BY <1>1, <3>1, <3>2
  <2>2. CASE i = Root /\ pc'[t] \in {"looking", "removing", "fetching"}
    BY <1>2, <2>2
  <2>3. CASE i = frame[t].inode /\ OpenFile(t)
    <3>1. InOpen(t) /\ frame[t].inode # None
      BY <2>3, FrameTypes DEF OpenFile, InOpen
    <3>2. ~UnlinkWrite(t)
      BY <2>3 DEF OpenFile, UnlinkWrite
    <3> QED
      BY <1>1, <2>3, <3>1, <3>2 DEF OpenIsMarked
  <2> QED
    BY <1>4, <2>1, <2>2, <2>3, OpenedStep
<1>5. ASSUME InOpen(t)', frame'[t].inode # None PROVE frame'[t].inode \in inodeMap'[0]
  <2>1. CASE InOpen(t) /\ frame'[t].inode = frame[t].inode
    <3>1. frame[t].inode \in inodeMap[0]
      BY <1>5, <2>1 DEF OpenIsMarked
    <3>2. ~UnlinkWrite(t)
      BY <1>3, <2>1 DEF UnlinkWrite, InOpen
    <3> QED
      BY <1>1, <2>1, <3>1, <3>2
  <2>2. CASE frame'[t].inode \in Named \cup {Root} /\ (OpenRoot(t) \/ OpenFind(t))
    <3>1. pc[t] # "created" /\ ~UnlinkWrite(t)
      BY <2>2 DEF OpenRoot, OpenFind, Start, UnlinkWrite
    <3>2. Named \cup {Root} \subseteq inodeMap[0]
      BY <3>1 DEF MarkedInUse, InUse
    <3> QED
      BY <1>1, <2>2, <3>1, <3>2
  <2> QED
    BY <1>5, <2>1, <2>2, InOpenStep
<1>6. pc'[t] \in {"unlinking", "unlinked"} =>
        opened'[t][frame'[t].victim] = 0 /\ frame'[t].back # "opening"
  BY <1>3, UnlinkingStep
<1> QED
  BY <1>4, <1>5, <1>6 DEF OpenIsMarked

(* The invariant of a file system that one thread uses.                    *)
LEMMA AloneInvariant ==
  ASSUME NEW user, Thread = {user}
  PROVE  Spec => []AloneInv(user)
<1>1. Init => AloneInv(user)
  <2> SUFFICES ASSUME Init PROVE AloneInv(user)
    OBVIOUS
  <2>0. Inode # {} /\ Root \in Inode /\ None \notin Inode /\ 0 \in Cylinder
    BY FrameTypes
  <2>1. /\ pc[user] = "idle" /\ frame[user].group = 0 /\ frame[user].back = "idle"
        /\ \A i \in Inode : opened[user][i] = 0
        /\ inodeMap[0] = {Root} /\ finish = {} /\ orphans = {}
        /\ \A n \in Name : dir[n] = None
    BY <2>0, FrameTypes DEF Init
  <2>2. Named = {} /\ Due(user) = {} /\ InUse = {Root}
    BY <2>0, <2>1 DEF Named, Due, InUse
  <2>3. OneReason(user) /\ MarkedInUse(user) /\ OpenIsMarked(user)
    BY <2>1, <2>2 DEF OneReason, MarkedInUse, OpenIsMarked, InOpen, Choosing
  <2> QED
    BY <2>1, <2>3 DEF AloneInv, MapsAreCurrent, LookedUp, CopyIsMarked, LeavingFirstGroup, Choosing
<1>2. LifeInv /\ AloneInv(user) /\ [Next]_vars => AloneInv(user)'
  <2> SUFFICES ASSUME LifeInv, AloneInv(user), [Next]_vars PROVE AloneInv(user)'
    OBVIOUS
  <2>1. ASSUME NEW t \in Thread, AloneInv(t), Step(t) PROVE AloneInv(t)'
    <3>1. /\ MapsAreCurrent(t) /\ LookedUp(t) /\ CopyIsMarked(t) /\ LeavingFirstGroup(t)
          /\ Calm(t) => OneReason(t) /\ MarkedInUse(t) /\ OpenIsMarked(t)
      BY <2>1 DEF AloneInv
    <3>2. MapsAreCurrent(t)' /\ LookedUp(t)'
      BY <2>1, <3>1, MapsStep, LookedUpStep
    <3>3. CopyIsMarked(t)' /\ LeavingFirstGroup(t)' /\ (Calm(t)' => Calm(t))
      BY <2>1, <3>1, LeavingStep
    <3>4. ASSUME Calm(t) PROVE OneReason(t)' /\ MarkedInUse(t)' /\ OpenIsMarked(t)'
      BY <2>1, <3>1, <3>4, ReasonsStep, OpenStep
    <3> QED
      BY <3>2, <3>3, <3>4 DEF AloneInv
  <2>2. CASE \E t \in Thread : Step(t)
    BY <2>1, <2>2
  <2>3. CASE UNCHANGED vars
    BY <2>3 DEF AloneInv, MapsAreCurrent, LookedUp, CopyIsMarked, LeavingFirstGroup, Calm,
       FirstGroupSuffices, OneReason, MarkedInUse, OpenIsMarked, InOpen, Named, InUse, Due, vars
  <2> QED
    BY <2>2, <2>3 DEF Next
<1> QED
  BY <1>1, <1>2, LifeInvariant, PTL DEF Spec

(* A file system that one thread uses, which is what filesys.cc is written *)
(* for, neither leaks an inode nor gives one to two files as long as the   *)
(* first group has room: between operations an inode is marked exactly if  *)
(* it is the directory's, a name stands for it, its deletion waits for the *)
(* last close, or Create marked it although the directory could not grow.  *)
THEOREM InodesAreAccountedFor ==
  ASSUME NEW user, Thread = {user}
  PROVE  Spec => []InodeAccounting
<1>1. AloneInv(user) => InodeAccounting
  <2> SUFFICES ASSUME AloneInv(user), \A t \in Thread : pc[t] = "idle", FirstGroupSuffices
               PROVE  /\ inodeMap[0] = InUse
                      /\ Root \notin Named \cup finish \cup orphans
                      /\ Named \cap finish = {} /\ Named \cap orphans = {}
                      /\ finish \cap orphans = {}
                      /\ \A n, m \in Name : dir[n] = dir[m] /\ dir[n] # None => n = m
    BY DEF InodeAccounting
  <2>1. pc[user] = "idle"
    OBVIOUS
  <2>2. OneReason(user) /\ MarkedInUse(user)
    BY <2>1 DEF AloneInv, LeavingFirstGroup, Calm, Choosing
  <2> QED
    BY <2>1, <2>2 DEF OneReason, MarkedInUse, Due
<1> QED
  BY <1>1, AloneInvariant, PTL

(* The inode of a file that is open is not free, also when the file has    *)
(* been removed (threadtest.cc), as long as the first group has room; with *)
(* one user, since Open does not take the lock of Remove.                  *)
THEOREM OpenFilesSurvive ==
  ASSUME NEW user, Thread = {user}
  PROVE  Spec => []OpenFileSurvives
<1>1. AloneInv(user) => OpenFileSurvives
  <2> SUFFICES ASSUME AloneInv(user), FirstGroupSuffices, NEW i \in Inode, opened[user][i] > 0
               PROVE  i \in inodeMap[0]
    BY DEF OpenFileSurvives
  <2>1. CASE frame[user].group = 0
    BY <2>1 DEF AloneInv, Calm, OpenIsMarked
  <2>2. CASE frame[user].group # 0
    BY <2>2 DEF AloneInv, LeavingFirstGroup
  <2> QED
    BY <2>1, <2>2
<1> QED
  BY <1>1, AloneInvariant, PTL

-----------------------------------------------------------------------------
(* FRAGMENTS                                                               *)
(*                                                                         *)
(* Blocks: BlockOf cuts the numbers into runs of Block.                    *)
LEMMA BlockFacts ==
  /\ \A x \in Nat : /\ BlockOf(x) \in Nat /\ BlockOf(x) <= x /\ x < BlockOf(x) + Block
                    /\ x % Block = x - BlockOf(x)
                    /\ BlockOf(BlockOf(x) + Block) = BlockOf(x) + Block
  /\ \A x, y \in Nat : BlockOf(x) < BlockOf(y) => BlockOf(x) + Block <= BlockOf(y)
  /\ \A x, y \in Nat : BlockOf(x) <= y /\ y < BlockOf(x) + Block => BlockOf(y) = BlockOf(x)
  /\ BlockOf(GroupSize) = GroupSize /\ BlockOf(0) = 0
<1>1. Block \in Nat \ {0} /\ GroupSize \in Nat /\ GroupSize % Block = 0
  BY FragmentsAssumption
<1>2. \A x \in Nat : /\ x \div Block \in Nat /\ x % Block \in 0 .. Block - 1
                     /\ x = (x \div Block) * Block + (x % Block)
  BY <1>1
<1>3. \A i \in Nat, o \in 0 .. Block - 1 : i * Block + o \in Nat /\ (i * Block + o) \div Block = i
  BY <1>1
<1>4. \A i \in Nat : i * Block \in Nat /\ (i + 1) * Block = i * Block + Block
  BY <1>1
<1>5. \A i, j \in Nat : i < j => i * Block + Block <= j * Block
  <2> SUFFICES ASSUME NEW i \in Nat, NEW j \in Nat, i < j PROVE i * Block + Block <= j * Block
    OBVIOUS
  <2>1. PICK k \in Nat : j = i + 1 + k
    <3>1. j - i - 1 \in Nat /\ j = i + 1 + (j - i - 1)
      OBVIOUS
    <3> QED
      BY <3>1
  <2>2. j * Block = i * Block + Block + k * Block
    BY <1>1, <2>1
  <2>3. k * Block \in Nat /\ i * Block \in Nat
    BY <1>1
  <2> QED
    BY <1>1, <2>2, <2>3
<1>6. \A x \in Nat : /\ BlockOf(x) \in Nat /\ BlockOf(x) <= x /\ x < BlockOf(x) + Block
                     /\ x % Block = x - BlockOf(x)
  <2> SUFFICES ASSUME NEW x \in Nat
               PROVE  /\ BlockOf(x) \in Nat /\ BlockOf(x) <= x /\ x < BlockOf(x) + Block
                      /\ x % Block = x - BlockOf(x)
    OBVIOUS
  <2>1. PICK q \in Nat : q = x \div Block
    BY <1>2
  <2>2. PICK b \in Nat : b = q * Block
    BY <1>4
  <2>3. BlockOf(x) = b
    BY <2>1, <2>2 DEF BlockOf
  <2>4. x = b + (x % Block) /\ x % Block \in 0 .. Block - 1
    BY <1>2, <2>1, <2>2
  <2> QED
    BY <1>1, <2>3, <2>4
<1>7. \A i \in Nat, y \in Nat : i * Block <= y /\ y < i * Block + Block => BlockOf(y) = i * Block
  <2> SUFFICES ASSUME NEW i \in Nat, NEW y \in Nat, i * Block <= y, y < i * Block + Block
               PROVE  BlockOf(y) = i * Block
    OBVIOUS
  <2>1. y - i * Block \in 0 .. Block - 1 /\ y = i * Block + (y - i * Block)
    BY <1>1, <1>4
  <2>2. y \div Block = i
    BY <1>3, <2>1
  <2> QED
    BY <2>2 DEF BlockOf
<1>8. \A x, y \in Nat : BlockOf(x) < BlockOf(y) => BlockOf(x) + Block <= BlockOf(y)
  <2> SUFFICES ASSUME NEW x \in Nat, NEW y \in Nat, BlockOf(x) < BlockOf(y)
               PROVE  BlockOf(x) + Block <= BlockOf(y)
    OBVIOUS
  <2>1. PICK i \in Nat : i = x \div Block
    BY <1>2
  <2>2. PICK j \in Nat : j = y \div Block
    BY <1>2
  <2>3. BlockOf(x) = i * Block /\ BlockOf(y) = j * Block
    BY <2>1, <2>2 DEF BlockOf
  <2>4. i < j
    <3>1. CASE j < i
      <4>1. j * Block + Block <= i * Block /\ j * Block \in Nat
        BY <1>4, <1>5, <3>1
      <4> QED
        BY <1>1, <1>4, <2>3, <4>1
    <3>2. CASE i = j
      BY <1>4, <2>3, <3>2
    <3> QED
      BY <3>1, <3>2
  <2> QED
    BY <1>5, <2>3, <2>4
<1>9. \A x, y \in Nat : BlockOf(x) <= y /\ y < BlockOf(x) + Block => BlockOf(y) = BlockOf(x)
  BY <1>2, <1>7 DEF BlockOf
<1>10. \A x \in Nat : BlockOf(BlockOf(x) + Block) = BlockOf(x) + Block
  <2> SUFFICES ASSUME NEW x \in Nat PROVE BlockOf(BlockOf(x) + Block) = BlockOf(x) + Block
    OBVIOUS
  <2>1. PICK i \in Nat : i = x \div Block
    BY <1>2
  <2>2. BlockOf(x) + Block = (i + 1) * Block
    BY <1>4, <2>1 DEF BlockOf
  <2>3. PICK c \in Nat : c = (i + 1) * Block
    BY <1>4
  <2>4. c < c + Block
    BY <1>1
  <2>5. BlockOf(c) = c
    BY <1>7, <2>3, <2>4
  <2> QED
    BY <2>2, <2>3, <2>5
<1>11. BlockOf(GroupSize) = GroupSize
  <2>1. BlockOf(GroupSize) \in Nat /\ GroupSize % Block = GroupSize - BlockOf(GroupSize)
    BY <1>1, <1>6
  <2> QED
    BY <1>1, <2>1
<1>12. BlockOf(0) = 0
  <2>1. BlockOf(0) \in Nat /\ BlockOf(0) <= 0
    BY <1>6
  <2> QED
    BY <2>1
<1> QED
  BY <1>6, <1>8, <1>9, <1>10, <1>11, <1>12

-----------------------------------------------------------------------------
(* The loop of NextPlaceForSmallFragments before it looks at bit i.        *)
ScanStart == [min |-> GroupSize, place |-> NoPlace, last |-> 0, done |-> FALSE]
ScanOf(f, m, size, n) ==
  f = [i \in 0 .. n |-> IF i = 0 THEN ScanStart ELSE ScanBit(m, size, f[i - 1], i - 1)]

LEMMA ScanExists ==
  ASSUME NEW m, NEW size, NEW n \in Nat
  PROVE  \E f : ScanOf(f, m, size, n)
<1> DEFINE S == {k \in Nat : ~ \E f : ScanOf(f, m, size, k)}
<1> SUFFICES ASSUME S # {} PROVE FALSE
  OBVIOUS
<1>1. PICK k \in S : \A y \in S : k <= y
  BY MinIsElement
<1>2. k # 0
  <2>1. ScanOf([i \in 0 .. 0 |-> ScanStart], m, size, 0)
    <3>1. \A i \in 0 .. 0 : i = 0
      OBVIOUS
    <3> QED
      BY <3>1 DEF ScanOf
  <2> QED
    BY <2>1
<1>3. PICK f : ScanOf(f, m, size, k - 1)
  <2>1. k - 1 \in Nat /\ ~ (k <= k - 1)
    BY <1>2
  <2>2. k - 1 \notin S
    BY <1>1, <2>1
  <2> QED
    BY <2>1, <2>2
<1> DEFINE g == [i \in 0 .. k |-> IF i = k THEN ScanBit(m, size, f[k - 1], k - 1) ELSE f[i]]
<1>4. ASSUME NEW i \in 0 .. k
      PROVE  g[i] = IF i = 0 THEN ScanStart ELSE ScanBit(m, size, g[i - 1], i - 1)
  <2>1. CASE i = k
    <3>1. k - 1 \in 0 .. k /\ k - 1 # k
      BY <1>2
    <3>2. g[k - 1] = f[k - 1]
      BY <3>1
    <3> QED
      BY <1>2, <2>1, <3>2
  <2>2. CASE i # k
    <3>1. i \in 0 .. k - 1 /\ (i # 0 => i - 1 \in 0 .. k /\ i - 1 # k)
      BY <2>2
    <3>2. g[i] = f[i] /\ (i # 0 => g[i - 1] = f[i - 1])
      BY <2>2, <3>1
    <3> HIDE DEF g
    <3>3. f[i] = IF i = 0 THEN ScanStart ELSE ScanBit(m, size, f[i - 1], i - 1)
      BY <1>3, <3>1 DEF ScanOf
    <3> QED
      BY <3>2, <3>3
  <2> QED
    BY <2>1, <2>2
<1>5. ScanOf(g, m, size, k)
  <2> DEFINE h == [i \in 0 .. k |-> IF i = 0 THEN ScanStart ELSE ScanBit(m, size, g[i - 1], i - 1)]
  <2>1. DOMAIN g = 0 .. k /\ DOMAIN h = 0 .. k /\ \A i \in 0 .. k : g[i] = h[i]
    BY <1>4
  <2>2. g = [i \in 0 .. k |-> g[i]] /\ h = [i \in 0 .. k |-> h[i]]
    OBVIOUS
  <2> HIDE DEF g, h
  <2>3. g = h
    BY <2>1, <2>2
  <2> QED
    BY <2>3 DEF ScanOf, h
<1> QED
  BY <1>5

LEMMA ScanUnfolds ==
  ASSUME NEW m, NEW size
  PROVE  \E f : /\ ScanOf(f, m, size, GroupSize + 1)
                /\ NextPlaceForSmallFragments(m, size) = f[GroupSize + 1].place
<1> DEFINE f == CHOOSE f : ScanOf(f, m, size, GroupSize + 1)
<1>1. ScanOf(f, m, size, GroupSize + 1)
  BY ScanExists, FragmentsAssumption
<1>2. NextPlaceForSmallFragments(m, size) = f[GroupSize + 1].place
  BY DEF NextPlaceForSmallFragments, ScanOf, ScanStart
<1> QED
  BY <1>1, <1>2

(* What the loop knows before bit i: the place it has is one of the runs   *)
(* of free fragments, it has one when it is done, and, as long as it has   *)
(* none, no run starts before the present gap.                             *)
ScanInv(m, size, s, i) ==
  /\ s.min \in Nat /\ s.last \in 0 .. i /\ s.done \in BOOLEAN
  /\ \/ s.place = NoPlace /\ s.min = GroupSize
     \/ s.place \in FreeRuns(m, size) /\ s.min < GroupSize
  /\ s.done => s.place \in FreeRuns(m, size)
  /\ ~ s.done => \A b \in s.last .. i - 1 : b \notin m
  /\ ~ s.done /\ s.place = NoPlace => \A r \in FreeRuns(m, size) : s.last <= r
ScanState == [min : Nat, place : 0 .. GroupSize, last : Nat, done : BOOLEAN]

LEMMA GroupIsBlocks ==
  /\ Block \in Nat \ {0} /\ GroupSize \in Nat /\ Control \in Nat \ {0} /\ Control < GroupSize
  /\ Block < GroupSize /\ BlockOf(Control) = Control
  /\ \A b \in Bit : BlockOf(b) \in Bit /\ BlockOf(b) + Block <= GroupSize
  /\ \A b \in Bit : b < Control => BlockOf(b) + Block <= Control
<1>1. /\ Block \in Nat \ {0} /\ GroupSize \in Nat /\ Control \in Nat \ {0} /\ Control < GroupSize
      /\ Control % Block = 0
  BY FragmentsAssumption
<1>2. BlockOf(Control) = Control
  <2>1. BlockOf(Control) \in Nat /\ Control % Block = Control - BlockOf(Control)
    BY <1>1, BlockFacts
  <2> QED
    BY <1>1, <2>1
<1>3. ASSUME NEW c \in Nat, BlockOf(c) = c, NEW b \in Nat, b < c
      PROVE  BlockOf(b) + Block <= c
  <2>1. BlockOf(b) \in Nat /\ BlockOf(b) <= b
    BY BlockFacts
  <2>2. BlockOf(b) < BlockOf(c)
    BY <1>3, <2>1
  <2> QED
    BY <1>3, <2>2, BlockFacts
<1>4. \A b \in Bit : b \in Nat /\ b < GroupSize /\ BlockOf(b) \in Nat /\ BlockOf(b) <= b
  <2>1. \A b \in Nat : BlockOf(b) \in Nat /\ BlockOf(b) <= b
    BY BlockFacts
  <2>2. \A b \in Bit : b \in Nat /\ b < GroupSize
    BY <1>1 DEF Bit
  <2> QED
    BY <2>1, <2>2
<1>5. \A b \in Bit : BlockOf(b) \in Bit /\ BlockOf(b) + Block <= GroupSize
  <2>1. \A b \in Bit : BlockOf(b) + Block <= GroupSize
    BY <1>1, <1>3, <1>4, BlockFacts
  <2>2. \A b \in Bit : BlockOf(b) \in 0 .. GroupSize - 1
    BY <1>1, <1>4
  <2> QED
    BY <2>1, <2>2 DEF Bit
<1>6. \A b \in Bit : b < Control => BlockOf(b) + Block <= Control
  BY <1>1, <1>2, <1>3, <1>4
<1>7. Block < GroupSize
  <2>1. BlockOf(0) + Block <= Control /\ BlockOf(0) = 0
    BY <1>1, <1>2, <1>3, BlockFacts
  <2> QED
    BY <1>1, <2>1
<1> QED
  BY <1>1, <1>2, <1>5, <1>6, <1>7

(* A run of free fragments, in numbers.                                    *)
LEMMA RunFacts ==
  ASSUME NEW m, NEW size \in Nat \ {0}, size <= Block, NEW r
  PROVE  r \in FreeRuns(m, size) <=>
           /\ r \in Nat /\ r < GroupSize /\ r + size <= BlockOf(r) + Block
           /\ \A b \in r .. r + size - 1 : b \notin m
<1>1. Block \in Nat \ {0} /\ GroupSize \in Nat
  BY GroupIsBlocks
<1>2. ASSUME r \in Bit
      PROVE  r % Block <= Block - size <=> r + size <= BlockOf(r) + Block
  <2>1. r \in Nat
    BY <1>1, <1>2 DEF Bit
  <2>2. r % Block = r - BlockOf(r) /\ BlockOf(r) \in Nat
    BY <2>1, BlockFacts
  <2> QED
    BY <1>1, <2>1, <2>2
<1>3. ASSUME r \in Nat
      PROVE  (\A i \in 0 .. size - 1 : r + i \notin m) <=> \A b \in r .. r + size - 1 : b \notin m
  <2>1. \A i \in 0 .. size - 1 : r + i \in r .. r + size - 1
    BY <1>3
  <2>2. \A b \in r .. r + size - 1 : b - r \in 0 .. size - 1 /\ r + (b - r) = b
    BY <1>3
  <2> QED
    BY <2>1, <2>2
<1>4. r \in Bit <=> r \in Nat /\ r < GroupSize
  BY <1>1 DEF Bit
<1> QED
  BY <1>2, <1>3, <1>4 DEF FreeRuns

(* A part of a gap that is a run and inside a block is taken unless a      *)
(* shorter one is known.                                                   *)
LEMMA BetterFacts ==
  ASSUME NEW m, NEW size, NEW i, NEW s \in ScanState, ScanInv(m, size, s, i),
         NEW len \in 1 .. Block, NEW c \in FreeRuns(m, size)
  PROVE  LET g == Better(s, len, c)
         IN  /\ g \in ScanState /\ g.last = s.last /\ g.done = s.done
             /\ g.place \in FreeRuns(m, size) /\ g.min < GroupSize
<1>1. Block \in Nat /\ GroupSize \in Nat /\ Block < GroupSize
  BY GroupIsBlocks
<1>2. c \in 0 .. GroupSize
  BY <1>1 DEF FreeRuns, Bit
<1>3. CASE len < s.min
  <2>1. Better(s, len, c) = [s EXCEPT !.min = len, !.place = c]
    BY <1>3 DEF Better
  <2>2. len \in Nat /\ len < GroupSize
    BY <1>1
  <2> QED
    BY <1>2, <2>1, <2>2 DEF ScanState
<1>4. CASE ~ (len < s.min)
  <2>1. s.min < GroupSize
    BY <1>1, <1>4 DEF ScanState
  <2>2. s.place \in FreeRuns(m, size)
    BY <1>1, <2>1 DEF ScanInv
  <2> QED
    BY <1>4, <2>1, <2>2 DEF Better
<1> QED
  BY <1>3, <1>4

(* What the gap that ends before bit i adds.                               *)
LEMMA GapFacts ==
  ASSUME NEW m, NEW size \in 1 .. Block - 1, NEW i \in 0 .. GroupSize, NEW s \in ScanState,
         ScanInv(m, size, s, i), ~ s.done, i = GroupSize \/ i \in m
  PROVE  LET g == InGap(s, i, size)
             runs == FreeRuns(m, size)
         IN  /\ g \in ScanState /\ g.last = s.last /\ ~ g.done
             /\ \/ g = s /\ \A r \in runs : s.last <= r => i < r
                \/ g.place \in runs /\ g.min < GroupSize
<1> DEFINE runs == FreeRuns(m, size)
           last == s.last
           g == InGap(s, i, size)
           bl == BlockOf(last)
           bi == BlockOf(i)
<1>1. /\ Block \in Nat \ {0} /\ GroupSize \in Nat /\ Block < GroupSize /\ i \in Nat
      /\ size \in Nat \ {0} /\ size < Block /\ i <= GroupSize
  BY GroupIsBlocks
<1>2. last \in Nat /\ last <= i /\ s.min \in Nat /\ \A b \in last .. i - 1 : b \notin m
  BY <1>1 DEF ScanInv
<1>3. /\ bl \in Nat /\ bl <= last /\ last < bl + Block
      /\ bi \in Nat /\ bi <= i /\ i < bi + Block
  BY <1>1, <1>2, BlockFacts
<1>4. BlockOf(bl) = bl /\ BlockOf(bi) = bi /\ BlockOf(bl + Block) = bl + Block
  <2>1. \A x \in Nat : BlockOf(x) \in Nat
    BY BlockFacts
  <2>2. ASSUME NEW x \in Nat PROVE BlockOf(BlockOf(x)) = BlockOf(x)
    <3>1. BlockOf(x) \in Nat /\ BlockOf(x) <= BlockOf(x) /\ BlockOf(x) < BlockOf(x) + Block
      BY <1>1, <2>1
    <3> QED
      BY <3>1, BlockFacts
  <2> QED
    BY <1>1, <1>2, <2>2, BlockFacts
<1>5. bl <= bi
  <2>1. bi < bl => bi + Block <= bl
    BY <1>1, <1>2, BlockFacts
  <2> QED
    BY <1>1, <1>2, <1>3, <2>1
<1>6. bl < bi => bl + Block <= bi
  BY <1>1, <1>2, BlockFacts
<1>7. \A r : r \in runs <=> /\ r \in Nat /\ r < GroupSize /\ r + size <= BlockOf(r) + Block
                            /\ \A b \in r .. r + size - 1 : b \notin m
  BY <1>1, RunFacts
<1> HIDE DEF bl, bi, last, runs
<1>8. \A r \in Nat : r + size <= i /\ last <= r => \A b \in r .. r + size - 1 : b \notin m
  BY <1>1, <1>2
<1>9. \A r \in Nat : r + size <= i /\ last <= r /\ r + size <= BlockOf(r) + Block => r \in runs
  BY <1>1, <1>7, <1>8
<1>10. \A r \in runs : last <= r /\ r <= i => r + size <= i
  <2> SUFFICES ASSUME NEW r \in runs, last <= r, r <= i, r + size > i PROVE FALSE
    BY <1>1, <1>7
  <2>1. r \in Nat /\ i \in r .. r + size - 1
    BY <1>1, <1>7
  <2>2. i = GroupSize
    BY <1>7, <2>1
  <2>3. r \in Bit
    BY <1>1, <1>7, <2>1 DEF Bit
  <2>4. BlockOf(r) + Block <= GroupSize
    BY <2>3, GroupIsBlocks
  <2>5. BlockOf(r) \in Nat
    BY <2>1, BlockFacts
  <2> QED
    BY <1>1, <1>7, <2>1, <2>2, <2>4, <2>5
<1> DEFINE Taken == g \in ScanState /\ g.last = s.last /\ ~ g.done /\ g.place \in runs /\ g.min < GroupSize
<1>11. ASSUME NEW len \in 1 .. Block, NEW c \in runs, g = Better(s, len, c)
       PROVE  Taken
  BY <1>11, BetterFacts DEF runs
<1>12. CASE i - last < size
  BY <1>1, <1>2, <1>7, <1>10, <1>12 DEF InGap, last, runs
<1>13. CASE ~ (i - last < size)
  <2>1. last + size <= i
    BY <1>1, <1>2, <1>13
  <2>2. CASE bi = bl
    <3>1. g = Better(s, i - last, last)
      BY <1>13, <2>2 DEF InGap, last, bl, bi
    <3>2. last \in runs /\ i - last \in 1 .. Block
      BY <1>1, <1>2, <1>3, <1>9, <2>1, <2>2 DEF bl
    <3> QED
      BY <1>11, <3>1, <3>2 DEF runs
  <2>3. CASE bi # bl /\ last - bl <= Block - size
    <3>1. g = Better(s, Block - (last - bl), last)
      BY <1>13, <2>3 DEF InGap, last, bl, bi
    <3>2. last \in runs /\ Block - (last - bl) \in 1 .. Block
      BY <1>1, <1>2, <1>3, <1>9, <2>1, <2>3 DEF bl
    <3> QED
      BY <1>11, <3>1, <3>2 DEF runs
  <2>4. CASE bi # bl /\ ~ (last - bl <= Block - size) /\ i - bi >= size
    <3>1. g = Better(s, i - bi, bi)
      BY <1>13, <2>4 DEF InGap, last, bl, bi
    <3>2. last <= bi /\ bi + size <= i /\ bi + size <= bi + Block
      BY <1>1, <1>2, <1>3, <1>5, <1>6, <2>4
    <3>3. bi \in runs /\ i - bi \in 1 .. Block
      BY <1>1, <1>3, <1>4, <1>9, <2>4, <3>2
    <3> QED
      BY <1>11, <3>1, <3>3 DEF runs
  <2>5. CASE bi # bl /\ ~ (last - bl <= Block - size) /\ ~ (i - bi >= size) /\ bi - bl > Block
    <3>1. g = [s EXCEPT !.min = Block, !.place = bl + Block]
      BY <1>13, <2>5 DEF InGap, last, bl, bi
    <3>2. bl + Block \in Nat /\ BlockOf(bl + Block) <= bi
      BY <1>1, <1>3, <1>4, <2>5
    <3>3. bl + Block + Block <= bi
      <4>1. BlockOf(bl + Block) < BlockOf(i)
        BY <1>1, <1>3, <1>4, <2>5 DEF bi
      <4> QED
        BY <1>1, <1>4, <3>2, <4>1, BlockFacts DEF bi
    <3>4. bl + Block \in runs
      BY <1>1, <1>2, <1>3, <1>4, <1>9, <3>2, <3>3
    <3>5. bl + Block \in 0 .. GroupSize
      BY <1>1, <1>3, <3>3
    <3> QED
      BY <1>1, <3>1, <3>4, <3>5 DEF ScanState, runs
  <2>6. CASE bi # bl /\ ~ (last - bl <= Block - size) /\ ~ (i - bi >= size) /\ ~ (bi - bl > Block)
    <3>1. g = s
      BY <1>13, <2>6 DEF InGap, last, bl, bi
    <3>2. bi = bl + Block
      BY <1>1, <1>3, <1>5, <1>6, <2>6
    <3>3. ASSUME NEW r \in runs, last <= r, r <= i PROVE FALSE
      <4>1. r \in Nat /\ r + size <= i /\ r + size <= BlockOf(r) + Block
        BY <1>7, <1>10, <3>3
      <4>2. CASE r < bi
        <5>1. BlockOf(r) = bl
          <6>1. bl <= r /\ r < bl + Block
            BY <1>1, <1>2, <1>3, <3>2, <3>3, <4>1, <4>2
          <6> QED
            BY <1>2, <4>1, <6>1, BlockFacts DEF bl
        <5> QED
          BY <1>1, <1>2, <1>3, <2>6, <3>3, <4>1, <5>1
      <4>3. CASE ~ (r < bi)
        BY <1>1, <1>3, <2>6, <4>1, <4>3
      <4> QED
        BY <4>2, <4>3
    <3>4. \A r \in runs : r \in Nat
      BY <1>7
    <3>5. \A r \in runs : last <= r => i < r
      BY <1>1, <3>3, <3>4
    <3> QED
      BY <3>1, <3>5 DEF runs, last
  <2> QED
    BY <1>5, <2>2, <2>3, <2>4, <2>5, <2>6 DEF runs
<1> QED
  BY <1>12, <1>13

LEMMA ScanStep ==
  ASSUME NEW m, NEW size \in 1 .. Block - 1, NEW i \in 0 .. GroupSize, NEW s \in ScanState,
         ScanInv(m, size, s, i)
  PROVE  LET t == ScanBit(m, size, s, i) IN t \in ScanState /\ ScanInv(m, size, t, i + 1)
<1> DEFINE runs == FreeRuns(m, size)
           g == InGap(s, i, size)
           t == ScanBit(m, size, s, i)
<1>1. Block \in Nat /\ GroupSize \in Nat /\ i \in Nat /\ i <= GroupSize /\ Block < GroupSize
  BY GroupIsBlocks
<1>2. \A r \in runs : r \in Nat /\ r # NoPlace
  BY <1>1 DEF FreeRuns, Bit, NoPlace
<1>3. CASE s.done
  <2>1. t = s
    BY <1>3 DEF ScanBit
  <2>2. s.last \in 0 .. i + 1
    BY <1>1 DEF ScanInv
  <2> QED
    BY <1>3, <2>1, <2>2 DEF ScanInv
<1>4. CASE ~ s.done /\ ~ (i = GroupSize \/ i \in m)
  <2>1. t = s
    BY <1>4 DEF ScanBit
  <2>2. s.last \in 0 .. i + 1
    BY <1>1 DEF ScanInv
  <2>3. \A b \in s.last .. i : b \notin m
    <3>1. \A b \in s.last .. i : b = i \/ b \in s.last .. i - 1
      BY <1>1 DEF ScanState
    <3> QED
      BY <1>4, <3>1 DEF ScanInv
  <2>4. i = i + 1 - 1
    BY <1>1
  <2>5. \A b \in s.last .. i + 1 - 1 : b \notin m
    BY <2>3, <2>4
  <2> QED
    BY <1>4, <2>1, <2>2, <2>5 DEF ScanInv
<1>5. CASE ~ s.done /\ (i = GroupSize \/ i \in m)
  <2>1. /\ g \in ScanState /\ g.last = s.last /\ ~ g.done
        /\ \/ g = s /\ \A r \in runs : s.last <= r => i < r
           \/ g.place \in runs /\ g.min < GroupSize
    BY <1>5, GapFacts
  <2>2. \/ g.place = NoPlace /\ g.min = GroupSize /\ \A r \in runs : i < r
        \/ g.place \in runs /\ g.min < GroupSize
    <3>1. CASE g = s /\ \A r \in runs : s.last <= r => i < r
      BY <1>5, <3>1 DEF ScanInv
    <3> QED
      BY <2>1, <3>1
  <2>3. CASE g.min = size
    <3>1. t = [g EXCEPT !.done = TRUE]
      BY <1>5, <2>3 DEF ScanBit
    <3>2. size # GroupSize
      BY <1>1
    <3>3. g.place \in runs /\ g.min < GroupSize
      BY <2>2, <2>3, <3>2
    <3>4. g.last \in 0 .. i + 1
      BY <1>1, <2>1 DEF ScanInv
    <3>5. t \in ScanState /\ t.min = g.min /\ t.place = g.place /\ t.last = g.last /\ t.done
      BY <2>1, <3>1 DEF ScanState
    <3>6. t.min \in Nat
      BY <3>5 DEF ScanState
    <3> HIDE DEF t, g, runs
    <3>7. ScanInv(m, size, t, i + 1)
      BY <3>3, <3>4, <3>5, <3>6 DEF ScanInv, runs
    <3> QED
      BY <3>5, <3>7 DEF t
  <2>4. CASE g.min # size
    <3>1. t = [g EXCEPT !.last = i + 1]
      BY <1>5, <2>4 DEF ScanBit
    <3>2. /\ t \in ScanState /\ t.min = g.min /\ t.place = g.place /\ t.last = i + 1 /\ t.done = FALSE
          /\ t.min \in Nat
      BY <1>1, <2>1, <3>1 DEF ScanState
    <3>3. i + 1 \in 0 .. i + 1 /\ \A b \in i + 1 .. i + 1 - 1 : b \notin m
      BY <1>1
    <3>4. (\A r \in runs : i < r) => \A r \in runs : i + 1 <= r
      BY <1>1, <1>2
    <3> HIDE DEF t, g, runs
    <3>5. \/ t.place = NoPlace /\ t.min = GroupSize /\ \A r \in runs : i + 1 <= r
          \/ t.place \in runs /\ t.min < GroupSize /\ t.place # NoPlace
      BY <1>2, <2>2, <3>2, <3>4
    <3>6. t.last \in 0 .. i + 1 /\ \A b \in t.last .. i + 1 - 1 : b \notin m
      BY <3>2, <3>3
    <3>7. t.place = NoPlace => \A r \in runs : t.last <= r
      BY <3>2, <3>5
    <3>8. t.min \in Nat /\ t.done \in BOOLEAN /\ ~ t.done
      BY <3>2
    <3>9. ScanInv(m, size, t, i + 1)
      <4>1. \/ t.place = NoPlace /\ t.min = GroupSize
            \/ t.place \in FreeRuns(m, size) /\ t.min < GroupSize
        BY <3>5 DEF runs
      <4>2. t.place = NoPlace => \A r \in FreeRuns(m, size) : t.last <= r
        BY <3>7 DEF runs
      <4> QED
        BY <3>6, <3>8, <4>1, <4>2 DEF ScanInv
    <3> QED
      BY <3>2, <3>9 DEF t
  <2> QED
    BY <2>3, <2>4
<1> QED
  BY <1>3, <1>4, <1>5

(* NextPlaceForSmallFragments finds a run of free fragments inside a block *)
(* exactly if there is one.                                                *)
LEMMA PlaceFound ==
  ASSUME NEW m, NEW size \in 1 .. Block - 1
  PROVE  LET place == NextPlaceForSmallFragments(m, size)
             runs == FreeRuns(m, size)
         IN  place \in runs \/ (place = NoPlace /\ runs = {})
<1>1. PICK f : /\ ScanOf(f, m, size, GroupSize + 1)
               /\ NextPlaceForSmallFragments(m, size) = f[GroupSize + 1].place
  BY ScanUnfolds
<1>2. GroupSize \in Nat /\ \A r \in FreeRuns(m, size) : r \in Nat /\ r < GroupSize
  BY GroupIsBlocks DEF FreeRuns, Bit
<1> DEFINE Good(i) == f[i] \in ScanState /\ ScanInv(m, size, f[i], i)
           S == {i \in Nat : i <= GroupSize + 1 /\ ~ Good(i)}
<1>3. f[0] = ScanStart /\ \A i \in 0 .. GroupSize : f[i + 1] = ScanBit(m, size, f[i], i)
  <2>1. \A i \in 0 .. GroupSize + 1 :
          f[i] = IF i = 0 THEN ScanStart ELSE ScanBit(m, size, f[i - 1], i - 1)
    BY <1>1 DEF ScanOf
  <2>2. \A i \in 0 .. GroupSize : i + 1 \in 0 .. GroupSize + 1 /\ i + 1 # 0 /\ i + 1 - 1 = i
    BY <1>2
  <2>3. 0 \in 0 .. GroupSize + 1
    BY <1>2
  <2> QED
    BY <2>1, <2>2, <2>3
<1>4. Good(0)
  <2>1. ScanStart \in ScanState
    BY <1>2 DEF ScanStart, ScanState, NoPlace
  <2>2. \A b \in 0 .. 0 - 1 : b \notin m
    OBVIOUS
  <2>3. ScanInv(m, size, ScanStart, 0)
    BY <1>2, <2>2 DEF ScanStart, ScanInv
  <2> QED
    BY <1>3, <2>1, <2>3
<1>5. \A i \in 0 .. GroupSize : Good(i) => Good(i + 1)
  BY <1>3, ScanStep
<1> HIDE DEF Good
<1>6. S = {}
  <2> SUFFICES ASSUME S # {} PROVE FALSE
    OBVIOUS
  <2>1. PICK k \in S : \A y \in S : k <= y
    BY MinIsElement
  <2>2. k # 0
    BY <1>4, <2>1
  <2>3. k - 1 \in 0 .. GroupSize /\ k - 1 \in Nat /\ k - 1 <= GroupSize + 1 /\ ~ (k <= k - 1) /\ k - 1 + 1 = k
    BY <1>2, <2>2
  <2>4. Good(k - 1)
    BY <2>1, <2>3
  <2> QED
    BY <1>5, <2>3, <2>4
<1>7. Good(GroupSize + 1)
  BY <1>2, <1>6
<1> DEFINE s == f[GroupSize + 1]
<1>8. ScanInv(m, size, s, GroupSize + 1)
  BY <1>7 DEF Good
<1>9. CASE s.place \in FreeRuns(m, size)
  BY <1>1, <1>9
<1>10. CASE s.place = NoPlace /\ s.place \notin FreeRuns(m, size)
  <2>1. ~ s.done /\ \A r \in FreeRuns(m, size) : s.last <= r
    BY <1>8, <1>10 DEF ScanInv
  <2>2. s.done \/ s.last = GroupSize + 1
    <3>1. Good(GroupSize)
      BY <1>2, <1>6
    <3>2. f[GroupSize] \in ScanState /\ f[GroupSize].done \in BOOLEAN
      BY <3>1 DEF Good, ScanState
    <3>3. s = ScanBit(m, size, f[GroupSize], GroupSize)
      BY <1>2, <1>3
    <3>4. CASE f[GroupSize].done
      BY <3>3, <3>4 DEF ScanBit
    <3>5. CASE ~ f[GroupSize].done
      <4>1. InGap(f[GroupSize], GroupSize, size) \in ScanState
        BY <1>2, <3>1, <3>2, <3>5, GapFacts DEF Good
      <4> DEFINE g == InGap(f[GroupSize], GroupSize, size)
      <4>2. s = [g EXCEPT !.done = TRUE] \/ s = [g EXCEPT !.last = GroupSize + 1]
        BY <3>3, <3>5 DEF ScanBit
      <4> HIDE DEF g
      <4> QED
        BY <4>1, <4>2 DEF ScanState, g
    <3> QED
      BY <3>4, <3>5
  <2>3. FreeRuns(m, size) = {}
    BY <1>2, <2>1, <2>2
  <2> QED
    BY <1>1, <1>10, <2>3
<1> QED
  BY <1>8, <1>9, <1>10 DEF ScanInv

(* ... whatever the bitmaps are.                                           *)
THEOREM PlaceIsAlwaysFree == FragSpec => []PlaceIsFree
<1>1. PlaceIsFree
  BY PlaceFound DEF PlaceIsFree
<1> QED
  BY <1>1, PTL

-----------------------------------------------------------------------------
(* Every fragment of the disk is one bit of one group.                     *)
LEMMA Numbering ==
  /\ GroupSize \in Nat \ {0} /\ Groups \in Nat \ {0}
  /\ \A g \in Group, b \in Bit : /\ FragmentAt(g, b) \in Fragment
                                 /\ GroupOf(FragmentAt(g, b)) = g
                                 /\ FragmentAt(g, b) % Block = b - BlockOf(b)
                                 /\ FragmentAt(g, b) \in Nat
  /\ \A g, h \in Group, b, c \in Bit : FragmentAt(g, b) = FragmentAt(h, c) => g = h /\ b = c
  /\ \A x \in Fragment : GroupOf(x) \in Group /\ \E b \in Bit : x = FragmentAt(GroupOf(x), b)
<1>1. /\ GroupSize \in Nat \ {0} /\ Groups \in Nat \ {0} /\ Block \in Nat \ {0}
      /\ GroupSize % Block = 0
  BY FragmentsAssumption
<1>2. \A x \in Nat : /\ x \div GroupSize \in Nat /\ x % GroupSize \in 0 .. GroupSize - 1
                     /\ x = (x \div GroupSize) * GroupSize + (x % GroupSize)
  BY <1>1
<1>3. \A g \in Nat, b \in 0 .. GroupSize - 1 :
        /\ g * GroupSize + b \in Nat
        /\ (g * GroupSize + b) \div GroupSize = g /\ (g * GroupSize + b) % GroupSize = b
  BY <1>1
<1>4. \A g, h \in Nat : g < h => g * GroupSize + GroupSize <= h * GroupSize
  <2> SUFFICES ASSUME NEW g \in Nat, NEW h \in Nat, g < h
               PROVE  g * GroupSize + GroupSize <= h * GroupSize
    OBVIOUS
  <2>1. PICK k \in Nat : h = g + 1 + k
    <3>1. h - g - 1 \in Nat /\ h = g + 1 + (h - g - 1)
      OBVIOUS
    <3> QED
      BY <3>1
  <2>2. h * GroupSize = g * GroupSize + GroupSize + k * GroupSize
    BY <1>1, <2>1
  <2>3. k * GroupSize \in Nat /\ g * GroupSize \in Nat
    BY <1>1
  <2> QED
    BY <1>1, <2>2, <2>3
<1>5. \A g \in Group : g \in Nat /\ g < Groups /\ g * GroupSize \in Nat
  BY <1>1 DEF Group
<1>6. ASSUME NEW g \in Group, NEW b \in Bit
      PROVE  FragmentAt(g, b) \in Fragment /\ GroupOf(FragmentAt(g, b)) = g /\ FragmentAt(g, b) \in Nat
  <2>1. g * GroupSize + GroupSize <= Groups * GroupSize /\ Groups * GroupSize \in Nat
    BY <1>1, <1>4, <1>5
  <2>2. b \in 0 .. GroupSize - 1
    BY DEF Bit
  <2>3. g * GroupSize + b \in Nat /\ (g * GroupSize + b) \div GroupSize = g
    BY <1>3, <1>5, <2>2
  <2>4. g * GroupSize + b < Groups * GroupSize
    BY <1>1, <1>5, <2>1, <2>2
  <2> QED
    BY <2>1, <2>3, <2>4 DEF FragmentAt, Fragment, GroupOf
<1>7. ASSUME NEW g \in Group, NEW b \in Bit
      PROVE  FragmentAt(g, b) % Block = b - BlockOf(b)
  <2>1. PICK q \in Nat : GroupSize = q * Block
    <3>1. GroupSize \div Block \in Nat /\ GroupSize = (GroupSize \div Block) * Block + (GroupSize % Block)
      BY <1>1
    <3> QED
      BY <1>1, <3>1
  <2>2. PICK i \in Nat : i = b \div Block
    BY <1>1 DEF Bit
  <2>3. BlockOf(b) = i * Block /\ b - BlockOf(b) \in 0 .. Block - 1 /\ b \in Nat /\ i * Block \in Nat
    <3>1. b \in Nat
      BY <1>1 DEF Bit
    <3>2. BlockOf(b) \in Nat /\ BlockOf(b) <= b /\ b < BlockOf(b) + Block
      BY <3>1, BlockFacts
    <3> QED
      BY <1>1, <2>2, <3>1, <3>2 DEF BlockOf
  <2>4. FragmentAt(g, b) = (g * q + i) * Block + (b - BlockOf(b))
    <3>1. g * (q * Block) = (g * q) * Block /\ g * q \in Nat
      BY <1>1, <1>5
    <3>2. (g * q + i) * Block = (g * q) * Block + i * Block
      BY <1>1, <3>1
    <3> QED
      BY <1>1, <1>5, <2>1, <2>3, <3>1, <3>2 DEF FragmentAt
  <2>5. g * q + i \in Nat
    BY <1>5
  <2>6. \A j \in Nat, o \in 0 .. Block - 1 : (j * Block + o) % Block = o
    BY <1>1
  <2> QED
    BY <2>3, <2>4, <2>5, <2>6
<1>8. ASSUME NEW g \in Group, NEW h \in Group, NEW b \in Bit, NEW c \in Bit,
             FragmentAt(g, b) = FragmentAt(h, c)
      PROVE  g = h /\ b = c
  <2>1. g = h
    BY <1>6, <1>8
  <2>2. b \in 0 .. GroupSize - 1 /\ c \in 0 .. GroupSize - 1
    BY DEF Bit
  <2> QED
    BY <1>3, <1>5, <1>8, <2>1, <2>2 DEF FragmentAt
<1>9. ASSUME NEW x \in Fragment
      PROVE  GroupOf(x) \in Group /\ \E b \in Bit : x = FragmentAt(GroupOf(x), b)
  <2>1. Groups * GroupSize \in Nat
    BY <1>1
  <2>2. x \in Nat /\ x < Groups * GroupSize
    BY <2>1 DEF Fragment
  <2>3. PICK g \in Nat : g = x \div GroupSize
    BY <1>2, <2>2
  <2>4. x % GroupSize \in Bit /\ x = FragmentAt(g, x % GroupSize)
    BY <1>2, <2>2, <2>3 DEF Bit, FragmentAt
  <2>5. g < Groups
    <3> SUFFICES ASSUME Groups <= g PROVE FALSE
      BY <1>1
    <3>1. Groups * GroupSize <= g * GroupSize
      <4>1. Groups = g \/ Groups < g
        BY <1>1
      <4>2. Groups < g => Groups * GroupSize + GroupSize <= g * GroupSize
        BY <1>1, <1>4
      <4> QED
        BY <1>1, <2>1, <4>1, <4>2
    <3>2. g * GroupSize <= x
      BY <1>1, <1>2, <2>2, <2>3
    <3> QED
      BY <1>1, <2>1, <2>2, <3>1, <3>2
  <2>6. g \in Group
    BY <1>1, <2>5 DEF Group
  <2> QED
    BY <2>3, <2>4, <2>6 DEF GroupOf
<1> QED
  BY <1>1, <1>6, <1>7, <1>8, <1>9

-----------------------------------------------------------------------------
(* The order of the search is that of the dictionary, ...                  *)
LEMMA PairFacts ==
  \A p, q, r \in Nat \X Nat :
    /\ p[1] \in Nat /\ p[2] \in Nat
    /\ p = q <=> p[1] = q[1] /\ p[2] = q[2]
    /\ ~ FoundBefore(p, p)
    /\ p = q \/ FoundBefore(p, q) \/ FoundBefore(q, p)
    /\ FoundBefore(p, q) => ~ FoundBefore(q, p)
    /\ FoundBefore(p, q) /\ FoundBefore(q, r) => FoundBefore(p, r)
<1> SUFFICES ASSUME NEW p \in Nat \X Nat, NEW q \in Nat \X Nat, NEW r \in Nat \X Nat
             PROVE  /\ p[1] \in Nat /\ p[2] \in Nat
                    /\ p = q <=> p[1] = q[1] /\ p[2] = q[2]
                    /\ ~ FoundBefore(p, p)
                    /\ p = q \/ FoundBefore(p, q) \/ FoundBefore(q, p)
                    /\ FoundBefore(p, q) => ~ FoundBefore(q, p)
                    /\ FoundBefore(p, q) /\ FoundBefore(q, r) => FoundBefore(p, r)
  OBVIOUS
<1>1. /\ p[1] \in Nat /\ p[2] \in Nat /\ q[1] \in Nat /\ q[2] \in Nat
      /\ r[1] \in Nat /\ r[2] \in Nat
  OBVIOUS
<1>2. p = q <=> p[1] = q[1] /\ p[2] = q[2]
  OBVIOUS
<1> QED
  BY <1>1, <1>2 DEF FoundBefore

(* ... so that one of the blocks that are left is the next.                *)
LEMMA NextFound ==
  ASSUME NEW T, T \subseteq Nat \X Nat, T # {}
  PROVE  \E p \in T : \A q \in T : q = p \/ FoundBefore(p, q)
<1> DEFINE I == {q[1] : q \in T}
<1>1. I \subseteq Nat /\ I # {}
  BY PairFacts
<1>2. PICK t \in T : \A q \in T : t[1] <= q[1]
  <2>1. PICK i \in I : \A y \in I : i <= y
    BY <1>1, MinIsElement
  <2> QED
    BY <2>1
<1> DEFINE U == {q \in T : q[1] = t[1]}
           J == {q[2] : q \in U}
<1>3. J \subseteq Nat /\ J # {}
  BY PairFacts
<1>4. PICK p \in U : \A q \in U : p[2] <= q[2]
  <2>1. PICK j \in J : \A y \in J : j <= y
    BY <1>3, MinIsElement
  <2> QED
    BY <2>1
<1>5. ASSUME NEW q \in T PROVE q = p \/ FoundBefore(p, q)
  <2>1. /\ p \in Nat \X Nat /\ q \in Nat \X Nat /\ p[1] \in Nat /\ q[1] \in Nat
        /\ p[2] \in Nat /\ q[2] \in Nat /\ p[1] <= q[1]
    BY <1>2, <1>4
  <2>2. p[1] = q[1] => p[2] <= q[2]
    BY <1>4
  <2>3. p = q <=> p[1] = q[1] /\ p[2] = q[2]
    BY <2>1, PairFacts
  <2> QED
    BY <2>1, <2>2, <2>3 DEF FoundBefore
<1> QED
  BY <1>4, <1>5

(* Every one of a finite set of free blocks is the k-th for one k.         *)
LEMMA NthFacts ==
  ASSUME NEW S, S \subseteq Nat \X Nat, IsFiniteSet(S), NEW k \in 1 .. Cardinality(S)
  PROVE  Nth(S, k) \in S /\ Cardinality(Earlier(S, Nth(S, k))) = k - 1
<1> DEFINE Has(j) == \E p \in S : Cardinality(Earlier(S, p)) = j - 1
           Bad == {j \in Nat : j \in 1 .. Cardinality(S) /\ ~ Has(j)}
<1>1. PICK c \in Nat : c = Cardinality(S)
  BY FS_CardinalityType
<1>2. ASSUME NEW p PROVE IsFiniteSet(Earlier(S, p)) /\ Cardinality(Earlier(S, p)) \in Nat
  <2>1. Earlier(S, p) \in SUBSET S
    BY DEF Earlier
  <2> QED
    BY <2>1, FS_Subset, FS_CardinalityType
<1>3. Bad = {}
  <2> SUFFICES ASSUME Bad # {} PROVE FALSE
    OBVIOUS
  <2>1. PICK j \in Bad : \A y \in Bad : j <= y
    BY MinIsElement
  <2>2. CASE j = 1
    <3>1. S # {}
      BY <1>1, <2>1, <2>2, FS_EmptySet
    <3>2. PICK p \in S : \A q \in S : q = p \/ FoundBefore(p, q)
      BY <3>1, NextFound
    <3>3. Earlier(S, p) = {}
      BY <3>2, PairFacts DEF Earlier
    <3>4. Cardinality(Earlier(S, p)) = j - 1
      BY <2>2, <3>3, FS_EmptySet
    <3> QED
      BY <2>1, <3>4
  <2>3. CASE j # 1
    <3>1. /\ j \in Nat /\ j <= c /\ j - 1 \in Nat /\ j - 1 \in 1 .. Cardinality(S)
          /\ ~ (j <= j - 1)
      BY <1>1, <2>1, <2>3
    <3>2. PICK p \in S : Cardinality(Earlier(S, p)) = j - 1 - 1
      BY <2>1, <3>1
    <3> DEFINE A == Earlier(S, p) \cup {p}
               T == S \ A
    <3>3. p \notin Earlier(S, p)
      BY PairFacts DEF Earlier
    <3>4. IsFiniteSet(A) /\ Cardinality(A) = j - 1 - 1 + 1
      BY <1>2, <3>2, <3>3, FS_AddElement
    <3>5. T # {}
      <4>1. A \subseteq S
        BY DEF Earlier
      <4>2. A # S
        <5> HIDE DEF A
        <5>1. Cardinality(A) = j - 1 /\ j - 1 # c
          BY <3>1, <3>4
        <5> QED
          BY <1>1, <5>1
      <4> QED
        BY <4>1, <4>2
    <3>6. PICK r \in T : \A q \in T : q = r \/ FoundBefore(r, q)
      BY <3>5, NextFound
    <3>7. \A q \in T : FoundBefore(p, q)
      BY PairFacts DEF Earlier
    <3>8. Earlier(S, r) = A
      <4>1. ASSUME NEW q \in A PROVE q \in S /\ FoundBefore(q, r)
        <5>1. FoundBefore(p, r) /\ q \in S /\ (q = p \/ FoundBefore(q, p))
          BY <3>6, <3>7 DEF Earlier
        <5> QED
          BY <3>6, <5>1, PairFacts
      <4>2. ASSUME NEW q \in T PROVE ~ FoundBefore(q, r)
        BY <3>6, PairFacts
      <4> QED
        BY <4>1, <4>2 DEF Earlier
    <3> HIDE DEF A
    <3>9. Cardinality(Earlier(S, r)) = j - 1
      BY <3>1, <3>4, <3>8
    <3> QED
      BY <2>1, <3>6, <3>9
  <2> QED
    BY <2>2, <2>3
<1>4. Has(k)
  <2>1. k \in Nat
    BY <1>1
  <2> QED
    BY <1>3, <2>1
<1> QED
  BY <1>4 DEF Nth

-----------------------------------------------------------------------------
FragMaps == [Group -> SUBSET Bit]
Orders == {o \in [1 .. Groups -> Group] : \A i, j \in 1 .. Groups : o[i] = o[j] => i = j}

(* A search order: a list of groups without duplicates.                    *)
LEMMA SearchOrderFacts ==
  ASSUME NEW g \in Group
  PROVE  /\ SearchOrder(g) \in [1 .. Groups -> Group]
         /\ \A c \in Group : \E i \in 1 .. Groups : SearchOrder(g)[i] = c
         /\ \A i, j \in 1 .. Groups : SearchOrder(g)[i] = SearchOrder(g)[j] => i = j
<1>1. Groups \in Nat \ {0} /\ g \in Nat /\ g < Groups
  BY FragmentsAssumption DEF Group
<1>2. \A x \in 0 .. 2 * Groups - 1 : x % Groups = IF x < Groups THEN x ELSE x - Groups
  <2>1. \A q \in Nat, r \in 0 .. Groups - 1 : (q * Groups + r) % Groups = r
    BY <1>1
  <2>2. ASSUME NEW x \in 0 .. 2 * Groups - 1, x < Groups PROVE x % Groups = x
    <3>1. x = 0 * Groups + x /\ x \in 0 .. Groups - 1
      BY <1>1, <2>2
    <3>2. (0 * Groups + x) % Groups = x
      BY <2>1, <3>1
    <3> QED
      BY <3>1, <3>2
  <2>3. ASSUME NEW x \in 0 .. 2 * Groups - 1, ~ (x < Groups) PROVE x % Groups = x - Groups
    <3>1. x = 1 * Groups + (x - Groups) /\ x - Groups \in 0 .. Groups - 1
      BY <1>1, <2>3
    <3>2. (1 * Groups + (x - Groups)) % Groups = x - Groups
      BY <2>1, <3>1
    <3> QED
      BY <3>1, <3>2
  <2> QED
    BY <2>2, <2>3
<1> DEFINE o == SearchOrder(g)
<1>3. /\ o = [i \in 1 .. Groups |-> o[i]]
      /\ \A i \in 1 .. Groups : o[i] = IF g + i - 1 < Groups THEN g + i - 1 ELSE g + i - 1 - Groups
  <2>1. \A i \in 1 .. Groups : g + i - 1 \in 0 .. 2 * Groups - 1
    BY <1>1
  <2>2. o = [i \in 1 .. Groups |-> o[i]] /\ \A i \in 1 .. Groups : o[i] = (g + i - 1) % Groups
    BY DEF SearchOrder
  <2> HIDE DEF o
  <2>3. ASSUME NEW i \in 1 .. Groups
        PROVE  o[i] = IF g + i - 1 < Groups THEN g + i - 1 ELSE g + i - 1 - Groups
    <3>1. PICK x \in 0 .. 2 * Groups - 1 : x = g + i - 1
      BY <2>1
    <3>2. o[i] = x % Groups
      BY <2>2, <3>1
    <3>3. x % Groups = IF x < Groups THEN x ELSE x - Groups
      BY <1>2
    <3> QED
      BY <1>1, <3>1, <3>2, <3>3
  <2> QED
    BY <2>2, <2>3
<1> HIDE DEF o
<1>4. \A i \in 1 .. Groups : o[i] \in Group
  BY <1>1, <1>3 DEF Group
<1>5. ASSUME NEW c \in Group PROVE \E i \in 1 .. Groups : o[i] = c
  <2>1. c \in Nat /\ c < Groups
    BY <1>1 DEF Group
  <2>2. CASE g <= c
    <3>1. c - g + 1 \in 1 .. Groups /\ g + (c - g + 1) - 1 = c
      BY <1>1, <2>1, <2>2
    <3> QED
      BY <1>3, <2>1, <3>1
  <2>3. CASE c < g
    <3>1. /\ c - g + 1 + Groups \in 1 .. Groups /\ g + (c - g + 1 + Groups) - 1 - Groups = c
          /\ ~ (g + (c - g + 1 + Groups) - 1 < Groups)
      BY <1>1, <2>1, <2>3
    <3> QED
      BY <1>3, <3>1
  <2> QED
    BY <1>1, <2>1, <2>2, <2>3
<1>6. \A i, j \in 1 .. Groups : o[i] = o[j] => i = j
  BY <1>1, <1>3
<1> QED
  BY <1>3, <1>4, <1>5, <1>6 DEF o

LEMMA FreeFacts ==
  ASSUME NEW maps \in FragMaps, NEW order \in [1 .. Groups -> Group]
  PROVE  /\ Free(maps, order) \subseteq Nat \X Nat /\ IsFiniteSet(Free(maps, order))
         /\ \A p \in Free(maps, order) :
              /\ p[1] \in 1 .. Groups /\ order[p[1]] \in Group
              /\ p[2] \in Bit /\ BlockOf(p[2]) = p[2]
              /\ \A i \in 0 .. Block - 1 : p[2] + i \in Bit /\ p[2] + i \notin maps[order[p[1]]]
         /\ \A i \in 1 .. Groups, b \in Bit :
              BlockOf(b) = b /\ (\A j \in 0 .. Block - 1 : b + j \notin maps[order[i]])
                => <<i, b>> \in Free(maps, order)
<1>1. /\ Groups \in Nat \ {0} /\ Block \in Nat \ {0} /\ GroupSize \in Nat /\ DOMAIN order = 1 .. Groups
      /\ \A b \in Bit : b \in Nat
  BY GroupIsBlocks, FragmentsAssumption DEF Bit
<1>2. ASSUME NEW b \in Bit PROVE b % Block = 0 <=> BlockOf(b) = b
  <2>1. b % Block = b - BlockOf(b) /\ BlockOf(b) \in Nat /\ b \in Nat
    BY <1>1, BlockFacts
  <2> QED
    BY <2>1
<1>3. ASSUME NEW p \in Free(maps, order)
      PROVE  /\ p \in (1 .. Groups) \X Bit /\ BlockOf(p[2]) = p[2]
             /\ p = <<p[1], p[2]>> /\ p[1] \in 1 .. Groups /\ p[2] \in Bit
             /\ \A i \in 0 .. Block - 1 : p[2] + i \notin maps[order[p[1]]]
  <2>1. PICK i \in 1 .. Groups : \E b \in AlignedFragments(maps[order[i]]) : p = <<i, b>>
    BY <1>1 DEF Free
  <2>2. PICK b \in Bit : p = <<i, b>> /\ b % Block = 0 /\ \A j \in 0 .. Block - 1 : b + j \notin maps[order[i]]
    BY <2>1 DEF AlignedFragments
  <2>3. p[1] = i /\ p[2] = b
    BY <2>2
  <2> QED
    BY <1>2, <2>2, <2>3
<1>4. ASSUME NEW b \in Bit, BlockOf(b) = b, NEW i \in 0 .. Block - 1 PROVE b + i \in Bit
  <2>1. b + Block <= GroupSize
    BY <1>4, GroupIsBlocks
  <2> QED
    BY <1>1, <2>1 DEF Bit
<1>5. IsFiniteSet(Free(maps, order))
  <2>1. IsFiniteSet(1 .. Groups) /\ IsFiniteSet(Bit)
    BY <1>1, FS_Interval DEF Bit
  <2>2. IsFiniteSet((1 .. Groups) \X Bit)
    BY <2>1, FS_Product
  <2>3. Free(maps, order) \in SUBSET ((1 .. Groups) \X Bit)
    BY <1>3
  <2> QED
    BY <2>2, <2>3, FS_Subset
<1>6. ASSUME NEW i \in 1 .. Groups, NEW b \in Bit, BlockOf(b) = b,
             \A j \in 0 .. Block - 1 : b + j \notin maps[order[i]]
      PROVE  <<i, b>> \in Free(maps, order)
  <2>1. b \in AlignedFragments(maps[order[i]])
    BY <1>2, <1>6 DEF AlignedFragments
  <2> QED
    BY <1>1, <2>1 DEF Free
<1>7. Free(maps, order) \subseteq Nat \X Nat
  BY <1>1, <1>3
<1>8. \A p \in Free(maps, order) : order[p[1]] \in Group
  BY <1>3
<1> QED
  BY <1>3, <1>4, <1>5, <1>6, <1>7, <1>8

LEMMA FragmentFacts ==
  ASSUME NEW g \in Group, NEW b \in Bit
  PROVE  /\ FragmentAt(g, b) \in Fragment /\ FragmentAt(g, b) \in Nat
         /\ FragmentAt(g, b) % Block = b - BlockOf(b)
         /\ g \in Nat /\ b \in Nat /\ g * GroupSize \in Nat
<1>1. g \in Nat /\ b \in Nat /\ GroupSize \in Nat
  BY FragmentsAssumption DEF Group, Bit
<1> QED
  BY <1>1, Numbering

LEMMA SameFragment ==
  ASSUME NEW g \in Group, NEW h \in Group, NEW b \in Bit, NEW c \in Bit,
         FragmentAt(g, b) = FragmentAt(h, c)
  PROVE  g = h /\ b = c
  BY Numbering

LEMMA SameBlock ==
  ASSUME NEW x \in Nat, BlockOf(x) = x, NEW r \in 0 .. Block - 1
  PROVE  BlockOf(x + r) = x /\ x + r \in Nat
<1>1. Block \in Nat \ {0}
  BY GroupIsBlocks
<1>2. x <= x + r /\ x + r < x + Block /\ x + r \in Nat
  BY <1>1
<1> QED
  BY <1>2, BlockFacts

(* Cutting a list of fragments into blocks.                                *)
LEMMA Division ==
  /\ Block \in Nat \ {0}
  /\ \A n \in Nat : /\ n \div Block \in Nat /\ n % Block \in 0 .. Block - 1
                    /\ n = (n \div Block) * Block + (n % Block)
                    /\ BlockOf(n) = (n \div Block) * Block
                    /\ n % Block # 0 => (n - 1) \div Block = n \div Block
                                        /\ (n - 1) % Block = (n % Block) - 1
  /\ \A i \in Nat : i * Block \in Nat
  /\ \A k, n \in Nat : n < k * Block => n \div Block < k
<1>1. Block \in Nat \ {0}
  BY FragmentsAssumption
<1>2. \A n \in Nat : /\ n \div Block \in Nat /\ n % Block \in 0 .. Block - 1
                     /\ n = (n \div Block) * Block + (n % Block)
  BY <1>1
<1>3. \A i \in Nat, o \in 0 .. Block - 1 :
        (i * Block + o) \div Block = i /\ (i * Block + o) % Block = o
  BY <1>1
<1>4. \A i \in Nat : i * Block \in Nat
  BY <1>1
<1>5. ASSUME NEW n \in Nat, n % Block # 0
      PROVE  (n - 1) \div Block = n \div Block /\ (n - 1) % Block = (n % Block) - 1
  <2>1. PICK q \in Nat : q = n \div Block
    BY <1>2
  <2>2. PICK r \in Nat : r = n % Block /\ r < Block /\ r # 0
    BY <1>1, <1>2, <1>5
  <2>3. r - 1 \in 0 .. Block - 1 /\ n - 1 = q * Block + (r - 1)
    BY <1>1, <1>2, <1>4, <2>1, <2>2
  <2> QED
    BY <1>3, <2>1, <2>2, <2>3
<1>6. ASSUME NEW k \in Nat, NEW n \in Nat, n < k * Block PROVE n \div Block < k
  <2>1. PICK q \in Nat : q = n \div Block
    BY <1>2
  <2>2. q * Block <= n
    BY <1>1, <1>2, <1>4, <2>1
  <2> SUFFICES ASSUME k <= q PROVE FALSE
    BY <2>1
  <2>3. q * Block = k * Block + (q - k) * Block /\ q - k \in Nat
    BY <1>1
  <2>4. k * Block \in Nat /\ (q - k) * Block \in Nat
    BY <1>4, <2>3
  <2> QED
    BY <1>6, <2>2, <2>3, <2>4
<1> QED
  BY <1>1, <1>2, <1>4, <1>5, <1>6 DEF BlockOf

(* The fragments of the first free blocks: none is used, none listed       *)
(* twice, they come block by block, and each block was free.               *)
LEMMA NewBlocksFacts ==
  ASSUME NEW maps \in FragMaps, NEW order \in Orders,
         NEW k \in Nat, k <= Cardinality(Free(maps, order))
  PROVE  LET s == NewBlocks(maps, order, k)
         IN  /\ s \in Seq(Fragment) /\ Len(s) = k * Block /\ IsInjective(s)
             /\ \A j \in 1 .. k * Block :
                  /\ s[j] % Block = (j - 1) % Block
                  /\ (j - 1) % Block # 0 => j - 1 \in 1 .. k * Block /\ s[j] = s[j - 1] + 1
             /\ \A g \in Group, b \in Bit : FragmentAt(g, b) \in ToSet(s) =>
                  /\ b \notin maps[g]
                  /\ \E i \in 1 .. Groups : order[i] = g /\ <<i, BlockOf(b)>> \in Free(maps, order)
             /\ k < Cardinality(Free(maps, order)) =>
                  \E p \in Free(maps, order) : \A o \in 0 .. Block - 1 :
                    FragmentAt(order[p[1]], p[2] + o) \notin ToSet(s)
<1> DEFINE F == Free(maps, order)
           s == NewBlocks(maps, order, k)
           P(q) == Nth(F, q + 1)
           at(q, r) == FragmentAt(order[P(q)[1]], P(q)[2] + r)
<1>0. /\ order \in [1 .. Groups -> Group]
      /\ \A i, j \in 1 .. Groups : order[i] = order[j] => i = j
  BY DEF Orders
<1>1. /\ Block \in Nat \ {0} /\ F \subseteq Nat \X Nat /\ IsFiniteSet(F) /\ Cardinality(F) \in Nat
      /\ k * Block \in Nat
  BY <1>0, Division, FreeFacts, FS_CardinalityType
<1>2. ASSUME NEW q \in Nat, q < Cardinality(F)
      PROVE  P(q) \in F /\ Cardinality(Earlier(F, P(q))) = q
  <2>1. PICK j \in 1 .. Cardinality(F) : j = q + 1 /\ j - 1 = q
    BY <1>1, <1>2
  <2> HIDE DEF F
  <2>2. Nth(F, j) \in F /\ Cardinality(Earlier(F, Nth(F, j))) = j - 1
    BY <1>1, NthFacts
  <2> QED
    BY <2>1, <2>2
<1>3. \A p \in F : /\ p \in Nat \X Nat /\ p[1] \in 1 .. Groups /\ order[p[1]] \in Group
                   /\ p[2] \in Bit /\ p[2] \in Nat /\ BlockOf(p[2]) = p[2]
                   /\ \A i \in 0 .. Block - 1 : p[2] + i \in Bit /\ p[2] + i \notin maps[order[p[1]]]
  BY <1>0, <1>1, FreeFacts
<1>4. ASSUME NEW p \in F, NEW r \in 0 .. Block - 1
      PROVE  BlockOf(p[2] + r) = p[2] /\ p[2] + r \in Nat
  <2>1. p[2] \in Nat /\ BlockOf(p[2]) = p[2]
    BY <1>3
  <2> QED
    BY <2>1, SameBlock
<1>5. ASSUME NEW p \in F, NEW t \in F, NEW q \in 0 .. Block - 1, NEW r \in 0 .. Block - 1,
             FragmentAt(order[p[1]], p[2] + q) = FragmentAt(order[t[1]], t[2] + r)
      PROVE  p = t /\ q = r
  <2>1. order[p[1]] = order[t[1]] /\ p[2] + q = t[2] + r
    <3>1. /\ order[p[1]] \in Group /\ order[t[1]] \in Group
          /\ p[2] + q \in Bit /\ t[2] + r \in Bit
      BY <1>3
    <3> QED
      BY <1>5, <3>1, SameFragment
  <2>2. p[1] = t[1]
    BY <1>0, <1>3, <2>1
  <2>3. p[2] = t[2]
    BY <1>4, <2>1
  <2>4. p = t
    BY <1>3, <2>2, <2>3, PairFacts
  <2>5. q = r
    BY <1>3, <2>1, <2>3
  <2> QED
    BY <2>4, <2>5
<1> HIDE DEF F
<1>6. \A q \in Nat : q < k => q < Cardinality(F)
  BY <1>1 DEF F
<1>7. DOMAIN s = 1 .. k * Block
      /\ \A j \in 1 .. k * Block : s[j] = at((j - 1) \div Block, (j - 1) % Block)
  BY DEF NewBlocks, F
<1> HIDE DEF s, P
<1>8. ASSUME NEW j \in 1 .. k * Block
      PROVE  /\ j - 1 \in Nat
             /\ (j - 1) \div Block \in Nat /\ (j - 1) \div Block < k /\ (j - 1) % Block \in 0 .. Block - 1
             /\ P((j - 1) \div Block) \in F
  <2>1. j - 1 \in Nat /\ j - 1 < k * Block
    BY <1>1
  <2>2. (j - 1) \div Block \in Nat /\ (j - 1) % Block \in 0 .. Block - 1 /\ (j - 1) \div Block < k
    BY <2>1, Division
  <2> QED
    BY <1>2, <1>6, <2>1, <2>2
<1>9. ASSUME NEW j \in 1 .. k * Block
      PROVE  /\ s[j] \in Fragment /\ s[j] % Block = (j - 1) % Block
             /\ (j - 1) % Block # 0 => j - 1 \in 1 .. k * Block /\ s[j] = s[j - 1] + 1
  <2>1. PICK q \in Nat : q = (j - 1) \div Block /\ q < k
    BY <1>8
  <2>2. PICK r \in 0 .. Block - 1 : r = (j - 1) % Block
    BY <1>8
  <2>3. s[j] = at(q, r) /\ P(q) \in F
    BY <1>7, <1>8, <2>1, <2>2
  <2>4. order[P(q)[1]] \in Group /\ P(q)[2] + r \in Bit /\ P(q)[2] \in Nat
    BY <1>3, <2>3
  <2>5. s[j] \in Fragment /\ s[j] % Block = r
    <3>1. PICK h \in Group, c \in Bit : h = order[P(q)[1]] /\ c = P(q)[2] + r
      BY <2>4
    <3>2. FragmentAt(h, c) \in Fragment /\ FragmentAt(h, c) % Block = c - BlockOf(c)
      BY FragmentFacts
    <3>3. s[j] = FragmentAt(h, c)
      BY <2>3, <3>1
    <3>4. BlockOf(c) = P(q)[2]
      BY <1>4, <2>3, <3>1
    <3>5. c - BlockOf(c) = r
      BY <1>1, <2>4, <3>1, <3>4
    <3> QED
      BY <3>2, <3>3, <3>5
  <2>6. ASSUME (j - 1) % Block # 0
        PROVE  j - 1 \in 1 .. k * Block /\ s[j] = s[j - 1] + 1
    <3>1. (j - 1 - 1) \div Block = q /\ (j - 1 - 1) % Block = r - 1
      BY <1>8, <2>1, <2>2, <2>6, Division
    <3>2. j - 1 # 0
      <4>1. 0 % Block = 0
        BY <1>1
      <4> QED
        BY <2>6, <4>1
    <3>3. j - 1 \in 1 .. k * Block
      BY <1>1, <1>8, <3>2
    <3>4. s[j - 1] = at(q, r - 1)
      BY <1>7, <3>1, <3>3
    <3>5. order[P(q)[1]] * GroupSize \in Nat
      BY <2>4, FragmentFacts
    <3>6. r \in Nat /\ P(q)[2] + (r - 1) + 1 = P(q)[2] + r
      BY <1>1, <2>4
    <3> QED
      BY <2>3, <2>4, <3>3, <3>4, <3>5, <3>6 DEF FragmentAt
  <2> QED
    BY <2>2, <2>5, <2>6
<1>10. s \in Seq(Fragment) /\ Len(s) = k * Block
  <2>1. s \in [1 .. k * Block -> Fragment]
    <3>1. s = [j \in 1 .. k * Block |-> s[j]]
      BY DEF s, NewBlocks
    <3> QED
      BY <1>9, <3>1
  <2> QED
    BY <1>1, <2>1, IsASeq, LenProperties
<1>11. ASSUME NEW j \in 1 .. k * Block, NEW l \in 1 .. k * Block, s[j] = s[l] PROVE j = l
  <2>1. PICK q \in Nat : q = (j - 1) \div Block /\ q < k
    BY <1>8
  <2>2. PICK t \in Nat : t = (l - 1) \div Block /\ t < k
    BY <1>8
  <2>3. P(q) = P(t) /\ (j - 1) % Block = (l - 1) % Block
    BY <1>5, <1>7, <1>8, <1>11, <2>1, <2>2
  <2>4. q = t
    BY <1>2, <1>6, <2>1, <2>2, <2>3
  <2>5. j - 1 = q * Block + ((j - 1) % Block) /\ l - 1 = t * Block + ((l - 1) % Block)
    BY <1>8, <2>1, <2>2, Division
  <2>6. j - 1 = l - 1
    BY <2>3, <2>4, <2>5
  <2> QED
    BY <2>6
<1>12. IsInjective(s)
  BY <1>7, <1>11 DEF IsInjective
<1>13. ASSUME NEW g \in Group, NEW b \in Bit, FragmentAt(g, b) \in ToSet(s)
       PROVE  /\ b \notin maps[g]
              /\ \E i \in 1 .. Groups : order[i] = g /\ <<i, BlockOf(b)>> \in F
  <2>1. PICK j \in 1 .. k * Block : s[j] = FragmentAt(g, b)
    BY <1>7, <1>13 DEF ToSet
  <2>2. PICK p \in F, r \in 0 .. Block - 1 : FragmentAt(g, b) = FragmentAt(order[p[1]], p[2] + r)
    BY <1>7, <1>8, <2>1
  <2>3. g = order[p[1]] /\ b = p[2] + r
    <3>1. order[p[1]] \in Group /\ p[2] + r \in Bit
      BY <1>3
    <3> QED
      BY <2>2, <3>1, SameFragment
  <2>4. BlockOf(b) = p[2] /\ b \notin maps[g]
    BY <1>3, <1>4, <2>3
  <2>5. <<p[1], BlockOf(b)>> \in F /\ p[1] \in 1 .. Groups
    BY <1>3, <2>4
  <2> QED
    BY <2>3, <2>4, <2>5
<1>14. ASSUME k < Cardinality(F)
       PROVE  \E p \in F : \A o \in 0 .. Block - 1 :
                FragmentAt(order[p[1]], p[2] + o) \notin ToSet(s)
  <2>1. P(k) \in F /\ Cardinality(Earlier(F, P(k))) = k
    BY <1>2, <1>14
  <2>2. ASSUME NEW o \in 0 .. Block - 1, FragmentAt(order[P(k)[1]], P(k)[2] + o) \in ToSet(s)
        PROVE  FALSE
    <3>1. PICK j \in 1 .. k * Block : s[j] = FragmentAt(order[P(k)[1]], P(k)[2] + o)
      BY <1>7, <2>2 DEF ToSet
    <3>2. PICK q \in Nat : q = (j - 1) \div Block /\ q < k
      BY <1>8
    <3>3. P(q) = P(k)
      BY <1>5, <1>7, <1>8, <2>1, <3>1, <3>2
    <3>4. q = k
      BY <1>2, <1>6, <2>1, <3>2, <3>3
    <3> QED
      BY <3>2, <3>4
  <2> QED
    BY <2>1, <2>2
<1> QED
  BY <1>9, <1>10, <1>12, <1>13, <1>14 DEF s, F

(* The first group with a place, and the place.                            *)
LEMMA FittingFacts ==
  ASSUME NEW maps \in FragMaps, NEW order \in [1 .. Groups -> Group], NEW size \in 1 .. Block - 1
  PROVE  /\ \A i \in Fitting(maps, order, size) :
              /\ i \in 1 .. Groups
              /\ NextPlaceForSmallFragments(maps[order[i]], size) \in FreeRuns(maps[order[i]], size)
         /\ \A i \in 1 .. Groups :
              FreeRuns(maps[order[i]], size) # {} => i \in Fitting(maps, order, size)
<1>1. DOMAIN order = 1 .. Groups /\ \A b \in Bit : b # NoPlace
  BY GroupIsBlocks DEF Bit, NoPlace
<1>2. \A m : FreeRuns(m, size) \subseteq Bit
  BY DEF FreeRuns
<1>3. \A i \in 1 .. Groups : i \in Fitting(maps, order, size) <=>
                               NextPlaceForSmallFragments(maps[order[i]], size) # NoPlace
  BY <1>1 DEF Fitting
<1>4. \A i \in Fitting(maps, order, size) : i \in 1 .. Groups
  BY <1>1 DEF Fitting
<1>5. ASSUME NEW i \in 1 .. Groups
      PROVE  LET place == NextPlaceForSmallFragments(maps[order[i]], size)
                 runs == FreeRuns(maps[order[i]], size)
             IN  place \in runs \/ (place = NoPlace /\ runs = {})
  BY PlaceFound
<1> QED
  BY <1>1, <1>2, <1>3, <1>4, <1>5

LEMMA NewRestFacts ==
  ASSUME NEW maps \in FragMaps, NEW order \in [1 .. Groups -> Group], NEW size \in 1 .. Block - 1,
         Fitting(maps, order, size) # {}
  PROVE  LET s == NewRest(maps, order, size)
         IN  /\ s \in Seq(Fragment) /\ Len(s) = size /\ IsInjective(s)
             /\ \A j \in 1 .. size : j # 1 => s[j] = s[j - 1] + 1 /\ s[j] % Block # 0
             /\ \A g \in Group, b \in Bit : FragmentAt(g, b) \in ToSet(s) => b \notin maps[g]
<1> DEFINE i == Min(Fitting(maps, order, size))
           c == order[i]
           r == NextPlaceForSmallFragments(maps[c], size)
           s == NewRest(maps, order, size)
<1>1. i \in 1 .. Groups /\ c \in Group /\ r \in FreeRuns(maps[c], size)
  <2>1. \A j \in Fitting(maps, order, size) : j \in 1 .. Groups
    BY FittingFacts
  <2>2. Fitting(maps, order, size) \subseteq Nat
    BY <2>1
  <2>3. i \in Fitting(maps, order, size)
    BY <2>2, MinIsElement
  <2> QED
    BY <2>1, <2>3, FittingFacts
<1>2. s = [j \in 1 .. size |-> FragmentAt(c, r + j - 1)]
  BY DEF NewRest
<1> HIDE DEF i, c, r, s
<1>3. size \in Nat \ {0} /\ size < Block /\ Block \in Nat /\ GroupSize \in Nat
  BY GroupIsBlocks
<1>4. /\ r \in Nat /\ r \in Bit /\ r + size <= BlockOf(r) + Block /\ BlockOf(r) \in Nat
      /\ BlockOf(r) <= r /\ BlockOf(r) + Block <= GroupSize /\ BlockOf(BlockOf(r)) = BlockOf(r)
      /\ \A b \in r .. r + size - 1 : b \notin maps[c]
  <2>1. /\ r \in Nat /\ r < GroupSize /\ r + size <= BlockOf(r) + Block
        /\ \A b \in r .. r + size - 1 : b \notin maps[c]
    BY <1>1, <1>3, RunFacts
  <2>2. r \in Bit
    BY <1>3, <2>1 DEF Bit
  <2>3. BlockOf(r) \in Nat /\ BlockOf(r) <= r
    BY <2>1, BlockFacts
  <2>4. BlockOf(r) + Block <= GroupSize
    BY <2>2, GroupIsBlocks
  <2>5. BlockOf(BlockOf(r)) = BlockOf(r)
    <3>1. BlockOf(r) < BlockOf(r) + Block
      BY <1>3, <2>3
    <3> QED
      BY <2>1, <2>3, <3>1, BlockFacts
  <2> QED
    BY <2>1, <2>2, <2>3, <2>4, <2>5
<1>5. ASSUME NEW j \in 1 .. size
      PROVE  /\ r + j - 1 \in Bit /\ r + j - 1 \in Nat /\ r + j - 1 \in r .. r + size - 1
             /\ BlockOf(r + j - 1) = BlockOf(r)
             /\ j # 1 => r + j - 1 - BlockOf(r) # 0
  <2>1. PICK o \in 0 .. Block - 1 : r + j - 1 = BlockOf(r) + o
    <3>1. r + j - 1 - BlockOf(r) \in 0 .. Block - 1 /\ r + j - 1 = BlockOf(r) + (r + j - 1 - BlockOf(r))
      BY <1>3, <1>4
    <3> QED
      BY <3>1
  <2>2. BlockOf(r + j - 1) = BlockOf(r)
    BY <1>4, <2>1, SameBlock
  <2> QED
    BY <1>3, <1>4, <2>2 DEF Bit
<1>6. ASSUME NEW j \in 1 .. size
      PROVE  /\ s[j] = FragmentAt(c, r + j - 1) /\ s[j] \in Fragment
             /\ s[j] % Block = r + j - 1 - BlockOf(r)
  <2>1. PICK b \in Bit : b = r + j - 1
    BY <1>5
  <2>2. s[j] = FragmentAt(c, b)
    BY <1>2, <2>1
  <2>3. s[j] \in Fragment /\ s[j] % Block = b - BlockOf(b)
    BY <1>1, <2>2, FragmentFacts
  <2>4. BlockOf(b) = BlockOf(r)
    BY <1>5, <2>1
  <2>5. s[j] % Block = r + j - 1 - BlockOf(r)
    <3>1. s[j] % Block = b - BlockOf(r) /\ b \in Nat /\ j \in Nat
      BY <1>5, <2>1, <2>3, <2>4
    <3> QED
      BY <1>4, <2>1, <3>1
  <2> QED
    BY <2>1, <2>2, <2>3, <2>5
<1>7. s \in Seq(Fragment) /\ Len(s) = size /\ DOMAIN s = 1 .. size
  <2>1. s \in [1 .. size -> Fragment]
    BY <1>2, <1>6
  <2> QED
    BY <1>3, <2>1, IsASeq, LenProperties
<1>8. ASSUME NEW j \in 1 .. size, NEW l \in 1 .. size, s[j] = s[l] PROVE j = l
  <2>1. PICK b \in Bit, d \in Bit : b = r + j - 1 /\ d = r + l - 1
    BY <1>5
  <2>2. FragmentAt(c, b) = FragmentAt(c, d)
    BY <1>6, <1>8, <2>1
  <2>3. b = d
    BY <1>1, <2>2, SameFragment
  <2> QED
    BY <1>3, <1>4, <2>1, <2>3
<1>9. ASSUME NEW j \in 1 .. size, j # 1 PROVE s[j] = s[j - 1] + 1 /\ s[j] % Block # 0
  <2>1. j - 1 \in 1 .. size
    BY <1>3, <1>9
  <2>2. c * GroupSize \in Nat
    BY <1>1, <1>4, FragmentFacts
  <2>3. s[j] = c * GroupSize + (r + j - 1) /\ s[j - 1] = c * GroupSize + (r + (j - 1) - 1)
    BY <1>6, <2>1 DEF FragmentAt
  <2>4. s[j] = s[j - 1] + 1
    <3>1. r \in Nat /\ j \in Nat
      BY <1>3, <1>4
    <3> QED
      BY <2>2, <2>3, <3>1
  <2>5. s[j] % Block = r + j - 1 - BlockOf(r) /\ r + j - 1 - BlockOf(r) # 0
    BY <1>5, <1>6, <1>9
  <2> QED
    BY <2>4, <2>5
<1>10. ASSUME NEW g \in Group, NEW b \in Bit, FragmentAt(g, b) \in ToSet(s) PROVE b \notin maps[g]
  <2>1. PICK j \in 1 .. size : s[j] = FragmentAt(g, b)
    BY <1>7, <1>10 DEF ToSet
  <2>2. PICK d \in Bit : d = r + j - 1 /\ d \in r .. r + size - 1
    BY <1>5
  <2>3. FragmentAt(c, d) = FragmentAt(g, b)
    BY <1>6, <2>1, <2>2
  <2>4. g = c /\ b = d
    BY <1>1, <2>3, SameFragment
  <2> QED
    BY <1>4, <2>2, <2>4
<1>11. IsInjective(s)
  BY <1>7, <1>8 DEF IsInjective
<1> QED
  BY <1>7, <1>9, <1>10, <1>11 DEF s

-----------------------------------------------------------------------------
(* What Allocate puts together from these.                                 *)
LEMMA MarkFacts ==
  ASSUME NEW maps \in FragMaps, NEW s
  PROVE  /\ Mark(maps, s) \in FragMaps /\ Clear(maps, s) \in FragMaps
         /\ \A g \in Group, b \in Bit :
              /\ b \in Mark(maps, s)[g] <=> b \in maps[g] \/ FragmentAt(g, b) \in s
              /\ b \in Clear(maps, s)[g] <=> b \in maps[g] /\ FragmentAt(g, b) \notin s
  BY DEF FragMaps, Mark, Clear

LEMMA WholeBlocks ==
  ASSUME NEW x \in Nat
  PROVE  /\ x % Block = 0 <=> BlockOf(x) = x
         /\ x % Block = 0 => \A y \in Nat : x < y /\ BlockOf(y) = y => x + Block <= y
<1>1. BlockOf(x) \in Nat /\ x % Block = x - BlockOf(x)
  BY BlockFacts
<1>2. x % Block = 0 <=> BlockOf(x) = x
  <2>1. PICK m : m = x % Block
    OBVIOUS
  <2>2. m = x - BlockOf(x)
    BY <1>1, <2>1
  <2> QED
    BY <1>1, <2>1, <2>2
<1>3. ASSUME BlockOf(x) = x, NEW y \in Nat, x < y, BlockOf(y) = y PROVE x + Block <= y
  BY <1>3, BlockFacts
<1> QED
  BY <1>2, <1>3

(* Layouts: a part that ends with a whole block can be followed by any     *)
(* other, ...                                                              *)
LEMMA LayoutJoined ==
  ASSUME NEW S, NEW s \in Seq(S), NEW t \in Seq(S), S \subseteq Nat,
         LaidOut(s), LaidOut(t), BlockOf(Len(s)) = Len(s)
  PROVE  LaidOut(s \o t)
<1> DEFINE n == Len(s)
           m == Len(t)
           c == s \o t
<1>1. /\ c \in Seq(S) /\ Joined(c, s, t, n, m) /\ n \in Nat /\ m \in Nat /\ Len(c) = n + m
      /\ DOMAIN s = 1 .. n /\ DOMAIN t = 1 .. m /\ DOMAIN c = 1 .. n + m
  <2>1. c \in Seq(S) /\ Joined(c, s, t, n, m)
    BY ConcatElements
  <2> QED
    BY <2>1, LenProperties DEF Joined
<1> HIDE DEF c, n, m
<1>2. Block \in Nat \ {0} /\ BlockOf(n) = n
  BY FragmentsAssumption DEF n
<1> SUFFICES ASSUME NEW i \in 1 .. n + m
             PROVE  IF (i - 1) % Block = 0
                    THEN i + Block - 1 <= Len(c) => c[i] % Block = 0
                    ELSE c[i] = c[i - 1] + 1 /\ c[i] % Block # 0
  BY <1>1 DEF LaidOut, c
<1>3. CASE i <= n
  <2>1. i \in 1 .. n /\ c[i] = s[i]
    BY <1>1, <1>3 DEF Joined
  <2>2. IF (i - 1) % Block = 0
        THEN i + Block - 1 <= n => s[i] % Block = 0
        ELSE s[i] = s[i - 1] + 1 /\ s[i] % Block # 0
    BY <1>1, <2>1 DEF LaidOut, n
  <2>3. CASE (i - 1) % Block = 0
    <3>1. BlockOf(i - 1) = i - 1 /\ i - 1 \in Nat
      <4>1. PICK x \in Nat : x = i - 1
        BY <1>1, <2>1
      <4>2. BlockOf(x) = x
        BY <2>3, <4>1, WholeBlocks
      <4> QED
        BY <4>1, <4>2
    <3>2. i - 1 + Block <= n
      <4>1. PICK x \in Nat : x = i - 1 /\ x < n
        BY <1>1, <2>1
      <4>2. x + Block <= n
        BY <1>1, <1>2, <2>3, <4>1, WholeBlocks
      <4> QED
        BY <4>1, <4>2
    <3> QED
      BY <1>1, <1>2, <2>1, <2>2, <2>3, <3>2
  <2>4. CASE (i - 1) % Block # 0
    <3>1. i # 1
      BY <1>2, <2>4
    <3>2. i - 1 \in 1 .. n
      BY <1>1, <2>1, <3>1
    <3>3. c[i - 1] = s[i - 1]
      BY <1>1, <3>2 DEF Joined
    <3> QED
      BY <2>1, <2>2, <2>4, <3>3
  <2> QED
    BY <2>3, <2>4
<1>4. CASE i > n
  <2>1. PICK j \in 1 .. m : j = i - n
    <3>1. i - n \in 1 .. m
      BY <1>1, <1>4
    <3> QED
      BY <3>1
  <2>2. c[i] = t[j]
    BY <1>1, <1>4, <2>1 DEF Joined
  <2>3. (i - 1) % Block = (j - 1) % Block
    <3>1. PICK q \in Nat : n = q * Block
      BY <1>1, <1>2, Division
    <3>2. PICK x \in Nat : x = j - 1
      BY <2>1
    <3>3. i - 1 = q * Block + x
      BY <1>1, <2>1, <3>1, <3>2
    <3>4. (q * Block + x) % Block = x % Block
      <4>1. PICK d \in Nat, o \in 0 .. Block - 1 : x = d * Block + o
        BY Division
      <4>2. q * Block + x = (q + d) * Block + o /\ q + d \in Nat
        BY <1>2, <4>1
      <4>3. \A a \in Nat : (a * Block + o) % Block = o
        BY <1>2
      <4> QED
        BY <4>1, <4>2, <4>3
    <3> QED
      BY <3>2, <3>3, <3>4
  <2>4. IF (j - 1) % Block = 0
        THEN j + Block - 1 <= m => t[j] % Block = 0
        ELSE t[j] = t[j - 1] + 1 /\ t[j] % Block # 0
    BY <1>1, <2>1 DEF LaidOut, m
  <2>5. (j - 1) % Block # 0 => c[i - 1] = t[j - 1]
    <3> SUFFICES ASSUME (j - 1) % Block # 0 PROVE c[i - 1] = t[j - 1]
      OBVIOUS
    <3>1. j # 1
      BY <1>2
    <3>2. i - 1 \in 1 .. n + m /\ i - 1 > n /\ i - 1 - n = j - 1
      BY <1>1, <2>1, <3>1
    <3> QED
      BY <1>1, <3>2 DEF Joined
  <2>6. i + Block - 1 <= Len(c) => j + Block - 1 <= m
    BY <1>1, <1>2, <2>1
  <2> QED
    BY <2>2, <2>3, <2>4, <2>5, <2>6
<1> QED
  BY <1>1, <1>3, <1>4

(* ... and every first part of a layout is one.                            *)
LEMMA LayoutPrefix ==
  ASSUME NEW S, NEW s \in Seq(S), NEW n \in 0 .. Len(s)
  PROVE  /\ SubSeq(s, 1, n) \in Seq(S) /\ Len(SubSeq(s, 1, n)) = n
         /\ \A i \in 1 .. n : SubSeq(s, 1, n)[i] = s[i]
         /\ ToSet(SubSeq(s, 1, n)) \subseteq ToSet(s)
         /\ IsInjective(s) => IsInjective(SubSeq(s, 1, n))
         /\ LaidOut(s) => LaidOut(SubSeq(s, 1, n))
<1> DEFINE p == SubSeq(s, 1, n)
<1>1. /\ Len(s) \in Nat /\ DOMAIN s = 1 .. Len(s) /\ Block \in Nat \ {0}
      /\ \A i \in 1 .. n : i \in DOMAIN s
  BY LenProperties, FragmentsAssumption
<1>2. p \in Seq(S) /\ Len(p) = n /\ DOMAIN p = 1 .. n /\ \A i \in 1 .. n : p[i] = s[i]
  <2>1. p = [i \in 1 .. n |-> s[i]]
    BY <1>1
  <2>2. \A i \in 1 .. n : s[i] \in S
    BY <1>1, ElementOfSeq
  <2> HIDE DEF p
  <2>3. n \in Nat /\ p \in [1 .. n -> S]
    BY <1>1, <2>1, <2>2
  <2>4. p \in Seq(S)
    BY <2>3, IsASeq
  <2> QED
    BY <2>1, <2>3, <2>4, LenProperties
<1> HIDE DEF p
<1>3. ToSet(p) \subseteq ToSet(s)
  BY <1>1, <1>2 DEF ToSet
<1>4. IsInjective(s) => IsInjective(p)
  BY <1>1, <1>2 DEF IsInjective
<1>5. ASSUME LaidOut(s) PROVE LaidOut(p)
  <2> SUFFICES ASSUME NEW i \in 1 .. n
               PROVE  IF (i - 1) % Block = 0
                      THEN i + Block - 1 <= n => p[i] % Block = 0
                      ELSE p[i] = p[i - 1] + 1 /\ p[i] % Block # 0
    BY <1>2 DEF LaidOut
  <2>1. IF (i - 1) % Block = 0
        THEN i + Block - 1 <= Len(s) => s[i] % Block = 0
        ELSE s[i] = s[i - 1] + 1 /\ s[i] % Block # 0
    BY <1>1, <1>5 DEF LaidOut
  <2>2. (i - 1) % Block # 0 => i - 1 \in 1 .. n
    <3>1. i # 1 \/ (i - 1) % Block = 0
      BY <1>1
    <3> QED
      BY <1>1, <3>1
  <2>3. i + Block - 1 <= n => i + Block - 1 <= Len(s)
    BY <1>1
  <2> QED
    BY <1>2, <2>1, <2>2, <2>3
<1> QED
  BY <1>2, <1>3, <1>4, <1>5 DEF p

(* The fragments a file keeps are the whole blocks it has.                 *)
LEMMA KeptFacts ==
  ASSUME NEW old \in Seq(Fragment)
  PROVE  /\ Kept(old) \in Seq(Fragment)
         /\ Len(Kept(old)) = BlockOf(Len(old)) /\ BlockOf(Len(Kept(old))) = Len(Kept(old))
         /\ ToSet(Kept(old)) \subseteq ToSet(old)
         /\ IsInjective(old) => IsInjective(Kept(old))
         /\ LaidOut(old) => LaidOut(Kept(old))
<1>1. /\ Len(old) \in Nat /\ BlockOf(Len(old)) \in 0 .. Len(old)
      /\ BlockOf(BlockOf(Len(old))) = BlockOf(Len(old))
  <2>1. Len(old) \in Nat
    BY LenProperties
  <2>2. /\ BlockOf(Len(old)) \in Nat /\ BlockOf(Len(old)) <= Len(old)
        /\ BlockOf(Len(old)) < BlockOf(Len(old)) + Block
    BY <2>1, BlockFacts, FragmentsAssumption
  <2> QED
    BY <2>1, <2>2, BlockFacts
<1> QED
  BY <1>1, LayoutPrefix DEF Kept

LEMMA DivisionIsMonotone ==
  ASSUME NEW d \in Nat \ {0}, NEW x \in Nat, NEW y \in Nat, x <= y
  PROVE  x \div d \in Nat /\ y \div d \in Nat /\ x \div d <= y \div d
<1>1. \A z \in Nat : z \div d \in Nat /\ z % d \in 0 .. d - 1 /\ z = (z \div d) * d + (z % d)
  OBVIOUS
<1>2. PICK p \in Nat, q \in Nat : p = x \div d /\ q = y \div d
  BY <1>1
<1>3. PICK r \in 0 .. d - 1, t \in 0 .. d - 1 : x = p * d + r /\ y = q * d + t
  BY <1>1, <1>2
<1>4. ASSUME q < p PROVE FALSE
  <2>1. PICK c \in Nat : p = q + 1 + c
    <3>1. p - q - 1 \in Nat /\ p = q + 1 + (p - q - 1)
      BY <1>4
    <3> QED
      BY <3>1
  <2>2. p * d = q * d + d + c * d
    BY <2>1
  <2>3. c * d \in Nat /\ q * d \in Nat
    OBVIOUS
  <2> QED
    BY <1>3, <2>2, <2>3
<1> QED
  BY <1>1, <1>2, <1>4

(* The three parts of a file that grows from m to n fragments.             *)
LEMMA Parts ==
  ASSUME NEW m \in Nat, NEW n \in Nat, m < n
  PROVE  LET k == n \div Block - m \div Block
         IN  /\ k \in Nat /\ k * Block \in Nat /\ BlockOf(k * Block) = k * Block
             /\ BlockOf(m) \in Nat /\ BlockOf(BlockOf(m)) = BlockOf(m)
             /\ n % Block \in 0 .. Block - 1 /\ n = BlockOf(m) + k * Block + (n % Block)
             /\ BlockOf(BlockOf(m) + k * Block) = BlockOf(m) + k * Block
<1>1. Block \in Nat \ {0}
  BY FragmentsAssumption
<1>2. PICK p \in Nat, q \in Nat : p = m \div Block /\ q = n \div Block /\ p <= q
  BY <1>1, DivisionIsMonotone
<1>3. PICK k \in Nat : k = q - p
  BY <1>2
<1>4. k * Block \in Nat /\ p * Block \in Nat /\ (p + k) * Block = p * Block + k * Block
  BY <1>1
<1>5. BlockOf(m) = p * Block /\ n = q * Block + (n % Block) /\ n % Block \in 0 .. Block - 1
  BY <1>2, Division
<1>6. ASSUME NEW a \in Nat PROVE BlockOf(a * Block) = a * Block
  BY <1>1 DEF BlockOf
<1>7. q * Block = p * Block + k * Block /\ q = p + k
  BY <1>2, <1>3, <1>4
<1>8. BlockOf(p * Block + k * Block) = p * Block + k * Block
  BY <1>6, <1>7
<1> QED
  BY <1>2, <1>3, <1>4, <1>5, <1>6, <1>7, <1>8

(* What a file that grows has afterwards: fragments of its own, and others *)
(* that were free, in a layout that can be extended again.                 *)
LEMMA AllocateFacts ==
  ASSUME NEW maps \in FragMaps, NEW old \in Seq(Fragment), NEW n \in Nat, Len(old) < n,
         NEW g \in Group, Allocate(maps, old, n, g).ok
  PROVE  LET a == Allocate(maps, old, n, g)
         IN  /\ a.maps \in FragMaps /\ a.frags \in Seq(Fragment) /\ Len(a.frags) = n
             /\ LaidOut(old) => LaidOut(a.frags)
             /\ IsInjective(old)
                /\ (\A c \in Group, b \in Bit : FragmentAt(c, b) \in ToSet(old) => b \in maps[c])
                => /\ IsInjective(a.frags)
                   /\ \A c \in Group, b \in Bit :
                        /\ FragmentAt(c, b) \in ToSet(a.frags) =>
                             b \notin maps[c] \/ FragmentAt(c, b) \in ToSet(old)
                        /\ b \in a.maps[c] <=>
                             \/ FragmentAt(c, b) \in ToSet(a.frags)
                             \/ b \in maps[c] /\ FragmentAt(c, b) \notin ToSet(old)
<1> DEFINE a == Allocate(maps, old, n, g)
           free == Clear(maps, GivenUp(old))
           order == SearchOrder(g)
           k == n \div Block - Len(old) \div Block
           blocks == NewBlocks(free, order, k)
           withBlocks == Mark(free, ToSet(blocks))
           size == n % Block
           rest == IF size = 0 THEN <<>> ELSE NewRest(withBlocks, order, size)
           kept == Kept(old)
           all == Mark(withBlocks, ToSet(rest))
<1>1. /\ k <= Cardinality(Free(free, order))
      /\ size = 0 \/ Fitting(withBlocks, order, size) # {}
      /\ a = [ok |-> TRUE, frags |-> kept \o blocks \o rest, maps |-> all]
  BY DEF Allocate
<1>2. /\ kept \in Seq(Fragment) /\ Len(kept) = BlockOf(Len(old)) /\ BlockOf(Len(kept)) = Len(kept)
      /\ ToSet(kept) \subseteq ToSet(old) /\ (IsInjective(old) => IsInjective(kept))
      /\ (LaidOut(old) => LaidOut(kept)) /\ GivenUp(old) = ToSet(old) \ ToSet(kept)
  BY KeptFacts DEF GivenUp
<1>3. Len(old) \in Nat
  BY LenProperties
<1>4. /\ k \in Nat /\ k * Block \in Nat /\ BlockOf(k * Block) = k * Block
      /\ size \in 0 .. Block - 1 /\ n = Len(kept) + k * Block + size /\ Len(kept) \in Nat
      /\ BlockOf(Len(kept) + k * Block) = Len(kept) + k * Block
  BY <1>2, <1>3, Parts
<1> HIDE DEF kept, k, size
<1>5. order \in Orders /\ order \in [1 .. Groups -> Group]
  BY SearchOrderFacts DEF Orders
<1>6. free \in FragMaps /\ \A c \in Group, b \in Bit :
        b \in free[c] <=> b \in maps[c] /\ FragmentAt(c, b) \notin GivenUp(old)
  BY MarkFacts
<1> HIDE DEF order, free
<1>7. /\ blocks \in Seq(Fragment) /\ Len(blocks) = k * Block /\ IsInjective(blocks)
      /\ \A j \in 1 .. k * Block :
           /\ blocks[j] % Block = (j - 1) % Block
           /\ (j - 1) % Block # 0 => blocks[j] = blocks[j - 1] + 1
      /\ \A c \in Group, b \in Bit : FragmentAt(c, b) \in ToSet(blocks) => b \notin free[c]
  <2>1. k \in Nat /\ k <= Cardinality(Free(free, order)) /\ free \in FragMaps
        /\ order \in Orders
    BY <1>1, <1>4, <1>5, <1>6
  <2>2. blocks \in Seq(Fragment) /\ Len(blocks) = k * Block /\ IsInjective(blocks)
    BY <2>1, NewBlocksFacts
  <2>3. \A j \in 1 .. k * Block :
           /\ blocks[j] % Block = (j - 1) % Block
           /\ (j - 1) % Block # 0 => blocks[j] = blocks[j - 1] + 1
    BY <2>1, NewBlocksFacts
  <2>4. \A c \in Group, b \in Bit : FragmentAt(c, b) \in ToSet(blocks) => b \notin free[c]
    BY <2>1, NewBlocksFacts
  <2> QED
    BY <2>2, <2>3, <2>4
<1> HIDE DEF blocks
<1>8. LaidOut(blocks)
  <2>1. DOMAIN blocks = 1 .. k * Block
    BY <1>7, LenProperties
  <2> QED
    BY <1>7, <2>1 DEF LaidOut
<1>9. withBlocks \in FragMaps /\ \A c \in Group, b \in Bit :
        b \in withBlocks[c] <=> b \in free[c] \/ FragmentAt(c, b) \in ToSet(blocks)
  BY <1>6, MarkFacts
<1> HIDE DEF withBlocks
<1>10. /\ rest \in Seq(Fragment) /\ Len(rest) = size /\ IsInjective(rest) /\ LaidOut(rest)
       /\ \A c \in Group, b \in Bit : FragmentAt(c, b) \in ToSet(rest) => b \notin withBlocks[c]
  <2>1. CASE size = 0
    <3>1. rest = <<>>
      BY <2>1
    <3>2. LaidOut(<<>>)
      BY DEF LaidOut
    <3> QED
      BY <2>1, <3>1, <3>2, NoElements, EmptySeq
  <2>2. CASE size # 0
    <3>1. rest = NewRest(withBlocks, order, size)
      BY <2>2
    <3>2. size \in 1 .. Block - 1 /\ size \in Nat
      BY <1>4, <2>2
    <3> HIDE DEF rest
    <3>3. /\ rest \in Seq(Fragment) /\ Len(rest) = size /\ IsInjective(rest)
          /\ \A j \in 1 .. size : j # 1 => rest[j] = rest[j - 1] + 1 /\ rest[j] % Block # 0
          /\ \A c \in Group, b \in Bit : FragmentAt(c, b) \in ToSet(rest) => b \notin withBlocks[c]
      BY <1>1, <1>5, <1>9, <2>2, <3>1, <3>2, NewRestFacts
    <3>4. LaidOut(rest)
      <4>1. Block \in Nat /\ DOMAIN rest = 1 .. size
        BY <3>3, LenProperties, FragmentsAssumption
      <4> SUFFICES ASSUME NEW i \in 1 .. size
                   PROVE  IF (i - 1) % Block = 0
                          THEN i + Block - 1 <= size => rest[i] % Block = 0
                          ELSE rest[i] = rest[i - 1] + 1 /\ rest[i] % Block # 0
        BY <3>3, <4>1 DEF LaidOut
      <4>2. CASE i = 1
        <5>1. ~ (i + Block - 1 <= size) /\ (i - 1) % Block = 0
          BY <3>2, <4>1, <4>2
        <5> QED
          BY <5>1
      <4>3. CASE i # 1
        <5>1. (i - 1) % Block # 0
          BY <3>2, <4>1, <4>3
        <5> QED
          BY <3>3, <4>3, <5>1
      <4> QED
        BY <4>2, <4>3
    <3> QED
      BY <3>3, <3>4
  <2> QED
    BY <2>1, <2>2
<1> HIDE DEF rest
<1>11. all \in FragMaps /\ \A c \in Group, b \in Bit :
         b \in all[c] <=> b \in withBlocks[c] \/ FragmentAt(c, b) \in ToSet(rest)
  BY <1>9, MarkFacts
<1> HIDE DEF all
<1> DEFINE two == kept \o blocks
           three == two \o rest
<1>12. two \in Seq(Fragment) /\ Len(two) = Len(kept) + k * Block
       /\ ToSet(two) = ToSet(kept) \cup ToSet(blocks)
  <2>0. kept \in Seq(Fragment) /\ blocks \in Seq(Fragment)
    BY <1>2, <1>7
  <2>1. Len(two) = Len(kept) + Len(blocks)
    BY <2>0, ConcatElements DEF Joined
  <2> QED
    BY <1>2, <1>7, <2>1, ConcatSet
<1>13. Fragment \subseteq Nat
  BY DEF Fragment
<1>14. LaidOut(old) => LaidOut(two)
  BY <1>2, <1>7, <1>8, <1>13, LayoutJoined
<1> HIDE DEF two
<1>15. three \in Seq(Fragment) /\ Len(three) = n
       /\ ToSet(three) = ToSet(kept) \cup ToSet(blocks) \cup ToSet(rest)
  BY <1>4, <1>10, <1>12, ConcatSet, ConcatProperties
<1>16. LaidOut(old) => LaidOut(three)
  BY <1>4, <1>10, <1>12, <1>13, <1>14, LayoutJoined
<1>17. a.maps = all /\ a.frags = three
  BY <1>1 DEF two
<1>18. ASSUME IsInjective(old),
              \A c \in Group, b \in Bit : FragmentAt(c, b) \in ToSet(old) => b \in maps[c]
       PROVE  /\ IsInjective(three)
              /\ \A c \in Group, b \in Bit :
                   /\ FragmentAt(c, b) \in ToSet(three) =>
                        b \notin maps[c] \/ FragmentAt(c, b) \in ToSet(old)
                   /\ b \in all[c] <=>
                        \/ FragmentAt(c, b) \in ToSet(three)
                        \/ b \in maps[c] /\ FragmentAt(c, b) \notin ToSet(old)
  <2>1. \A x \in Fragment : \E c \in Group, b \in Bit : x = FragmentAt(c, b)
    BY Numbering
  <2>2. /\ ToSet(kept) \subseteq Fragment /\ ToSet(blocks) \subseteq Fragment
        /\ ToSet(two) \subseteq Fragment
    BY <1>2, <1>7, <1>12, SeqFacts
  <2>3. ASSUME NEW c \in Group, NEW b \in Bit, FragmentAt(c, b) \in ToSet(kept)
        PROVE  b \in free[c]
    BY <1>2, <1>6, <1>18, <2>3
  <2>4. ToSet(kept) \cap ToSet(blocks) = {}
    BY <1>7, <2>1, <2>2, <2>3
  <2>5. IsInjective(two)
    BY <1>2, <1>7, <1>18, <2>4, ConcatInjective DEF two
  <2>6. ToSet(two) \cap ToSet(rest) = {}
    BY <1>9, <1>10, <1>12, <2>1, <2>2, <2>3
  <2>7. IsInjective(three)
    BY <1>10, <1>12, <2>5, <2>6, ConcatInjective
  <2>8. ASSUME NEW c \in Group, NEW b \in Bit
        PROVE  /\ FragmentAt(c, b) \in ToSet(three) =>
                    b \notin maps[c] \/ FragmentAt(c, b) \in ToSet(old)
               /\ b \in all[c] <=>
                    \/ FragmentAt(c, b) \in ToSet(three)
                    \/ b \in maps[c] /\ FragmentAt(c, b) \notin ToSet(old)
    <3> DEFINE x == FragmentAt(c, b)
    <3>1. b \in all[c] <=> b \in free[c] \/ x \in ToSet(blocks) \/ x \in ToSet(rest)
      BY <1>9, <1>11
    <3>2. b \in free[c] <=> b \in maps[c] /\ (x \notin ToSet(old) \/ x \in ToSet(kept))
      BY <1>2, <1>6
    <3>3. x \in ToSet(three) <=> x \in ToSet(kept) \/ x \in ToSet(blocks) \/ x \in ToSet(rest)
      BY <1>15
    <3>4. x \in ToSet(blocks) \/ x \in ToSet(rest) => b \notin free[c]
      BY <1>7, <1>9, <1>10
    <3>5. (x \in ToSet(kept) => x \in ToSet(old)) /\ (x \in ToSet(old) => b \in maps[c])
      BY <1>2, <1>18
    <3> QED
      BY <3>1, <3>2, <3>3, <3>4, <3>5
  <2> QED
    BY <2>7, <2>8
<1> QED
  BY <1>11, <1>15, <1>16, <1>17, <1>18 DEF a

-----------------------------------------------------------------------------
(* The fragments of a directory of k entries.                              *)
LEMMA DirLengthFacts ==
  /\ DirLength(0) = 1
  /\ \A k \in Nat : DirLength(k) \in Nat /\ DirLength(k) <= DirLength(k + 1)
  /\ \A k \in Nat : k + 2 <= EntriesPerFragment => DirLength(k) = 1
<1> DEFINE E == EntriesPerFragment
<1>1. E \in Nat \ {0} /\ 2 <= E
  BY FragmentsAssumption
<1> HIDE DEF E
<1>2. \A o \in 0 .. E - 1 : (1 * E + o) \div E = 1
  BY <1>1
<1>3. ASSUME NEW k \in Nat, k + 2 <= E PROVE DirLength(k) = 1
  <2>1. k + 2 + E - 1 = 1 * E + (k + 1) /\ k + 1 \in 0 .. E - 1
    BY <1>1, <1>3
  <2> QED
    BY <1>2, <2>1 DEF DirLength, E
<1>4. ASSUME NEW k \in Nat PROVE DirLength(k) \in Nat /\ DirLength(k) <= DirLength(k + 1)
  <2>1. PICK x \in Nat, y \in Nat : x = k + 2 + E - 1 /\ y = k + 1 + 2 + E - 1 /\ x <= y
    BY <1>1
  <2>2. x \div E \in Nat /\ x \div E <= y \div E
    BY <1>1, <2>1, DivisionIsMonotone
  <2> QED
    BY <2>1, <2>2 DEF DirLength, E
<1> QED
  BY <1>1, <1>3, <1>4 DEF E

Formatted == [g \in Group |-> 0 .. Control - 1]

(* The root directory finds its fragment on the formatted disk.            *)
LEMMA RootFits ==
  ASSUME NEW g \in Group
  PROVE  Formatted \in FragMaps /\ Allocate(Formatted, <<>>, 1, g).ok
<1> DEFINE old == <<>>
           free == Clear(Formatted, GivenUp(old))
           order == SearchOrder(g)
           k == 1 \div Block - Len(old) \div Block
           blocks == NewBlocks(free, order, k)
           withBlocks == Mark(free, ToSet(blocks))
           size == 1 % Block
<1>1. Block \in Nat \ {0} /\ BlockOf(Control) = Control /\ Control \in Bit /\ Control \in Nat
      /\ GroupSize \in Nat
  BY GroupIsBlocks DEF Bit
<1>2. Formatted \in FragMaps /\ \A c \in Group : Formatted[c] = 0 .. Control - 1
  BY <1>1 DEF Formatted, FragMaps, Bit
<1>3. /\ free \in FragMaps
      /\ \A c \in Group, b \in Bit : b \in free[c] <=> b < Control
  <2>1. old \in Seq(Fragment) /\ ToSet(old) = {}
    BY NoElements
  <2>2. GivenUp(old) = {}
    BY <2>1 DEF GivenUp
  <2> QED
    BY <1>1, <1>2, <2>2, MarkFacts DEF Bit
<1>4. order \in [1 .. Groups -> Group] /\ order \in Orders /\ 1 \in 1 .. Groups /\ order[1] \in Group
  <2>1. order \in [1 .. Groups -> Group] /\ order \in Orders
    BY SearchOrderFacts DEF Orders
  <2>2. 1 \in 1 .. Groups
    BY FragmentsAssumption
  <2> HIDE DEF order
  <2> QED
    BY <2>1, <2>2
<1>5. Len(old) = 0 /\ 0 \div Block = 0
  BY <1>1
<1> HIDE DEF old, free, order
<1>6. \A i \in 0 .. Block - 1 : Control + i \notin free[order[1]]
  <2> SUFFICES ASSUME NEW i \in 0 .. Block - 1 PROVE Control + i \notin free[order[1]]
    OBVIOUS
  <2>1. free[order[1]] \subseteq Bit
    BY <1>3, <1>4 DEF FragMaps
  <2>2. ~ (Control + i < Control)
    BY <1>1
  <2> QED
    BY <1>3, <1>4, <2>1, <2>2
<1>7. CASE Block = 1
  <2>1. k = 1 /\ size = 0
    BY <1>5, <1>7
  <2>2. <<1, Control>> \in Free(free, order)
    BY <1>1, <1>3, <1>4, <1>6, FreeFacts
  <2>3. IsFiniteSet(Free(free, order))
    BY <1>3, <1>4, FreeFacts
  <2>4. Cardinality(Free(free, order)) \in Nat /\ Cardinality(Free(free, order)) # 0
    BY <2>2, <2>3, FS_EmptySet, FS_CardinalityType
  <2> QED
    BY <1>2, <2>1, <2>4 DEF Allocate, old, free, order
<1>8. CASE Block # 1
  <2>1. 1 \div Block = 0 /\ 1 % Block = 1 /\ 1 \in 1 .. Block - 1
    <3>1. \A o \in 0 .. Block - 1 : (0 * Block + o) \div Block = 0 /\ (0 * Block + o) % Block = o
      BY <1>1
    <3>2. 1 \in 0 .. Block - 1 /\ 0 * Block + 1 = 1
      BY <1>1, <1>8
    <3> QED
      BY <3>1, <3>2
  <2>2. k = 0 /\ size = 1
    BY <1>5, <2>1
  <2>3. 0 <= Cardinality(Free(free, order))
    BY <1>3, <1>4, FreeFacts, FS_CardinalityType
  <2>4. ToSet(blocks) = {}
    <3>1. blocks \in Seq(Fragment) /\ Len(blocks) = 0 * Block
      <4>1. 0 \in Nat /\ k = 0
        BY <2>2
      <4> HIDE DEF k
      <4> QED
        BY <1>3, <1>4, <2>3, <4>1, NewBlocksFacts
    <3>2. 0 * Block = 0
      BY <1>1
    <3> QED
      BY <3>1, <3>2, SeqFacts
  <2>5. withBlocks \in FragMaps /\ \A c \in Group : withBlocks[c] = free[c]
    BY <1>3, <2>4, MarkFacts DEF FragMaps
  <2> HIDE DEF blocks, withBlocks
  <2>6. Control \in FreeRuns(withBlocks[order[1]], 1)
    <3>1. Control + 0 \notin free[order[1]] /\ 0 \in 0 .. Block - 1 /\ Control + 0 = Control
      BY <1>1, <1>6
    <3>2. Control % Block = 0
      BY FragmentsAssumption
    <3>3. \A i \in 0 .. 1 - 1 : Control + i \notin free[order[1]]
      BY <3>1
    <3> QED
      BY <1>1, <1>4, <2>1, <2>5, <3>2, <3>3 DEF FreeRuns
  <2>7. 1 \in Fitting(withBlocks, order, 1)
    BY <1>4, <2>1, <2>5, <2>6, FittingFacts
  <2> QED
    BY <1>2, <2>2, <2>3, <2>7 DEF Allocate, old, free, order, blocks, withBlocks
<1> QED
  BY <1>7, <1>8

-----------------------------------------------------------------------------
(* The inductive invariant of every file system: what Allocate takes for   *)
(* granted, and a directory just long enough for its entries.              *)
DirectoryLength == Len(frags[Dir]) = DirLength(Cardinality(entries))
FragIInv == FragTypeOK /\ Layout /\ DirectoryLength

LEMMA NothingIsLaidOut ==
  /\ <<>> \in Seq(Fragment) /\ Len(<<>>) = 0 /\ LaidOut(<<>>) /\ IsInjective(<<>>) /\ ToSet(<<>>) = {}
<1>1. LaidOut(<<>>)
  BY DEF LaidOut
<1> QED
  BY <1>1, NoElements

LEMMA StartGroupIsAGroup ==
  ASSUME NEW old \in Seq(Fragment) PROVE StartGroup(old) \subseteq Group
<1>1. CASE old = <<>>
  BY <1>1 DEF StartGroup
<1>2. CASE old # <<>>
  <2>1. Len(old) \in 1 .. Len(old) /\ DOMAIN old = 1 .. Len(old)
    BY <1>2, EmptySeq, LenProperties
  <2>2. Last(old) \in Fragment
    BY <2>1, ElementOfSeq DEF Last
  <2> QED
    BY <1>2, <2>2, Numbering DEF StartGroup
<1> QED
  BY <1>1, <1>2

LEMMA EntriesFacts ==
  ASSUME FragTypeOK
  PROVE  /\ IsFiniteSet(entries) /\ Cardinality(entries) \in Nat
         /\ Cardinality(entries) <= Cardinality(File) /\ Cardinality(File) \in Nat
         /\ \A f \in entries : /\ Cardinality(entries \ {f}) = Cardinality(entries) - 1
                             /\ Cardinality(entries) - 1 \in Nat
<1>1. IsFiniteSet(File) /\ entries \subseteq File
  BY FragmentsAssumption DEF FragTypeOK
<1>2. IsFiniteSet(entries) /\ Cardinality(entries) <= Cardinality(File)
  BY <1>1, FS_Subset
<1>3. Cardinality(entries) \in Nat /\ Cardinality(File) \in Nat
  BY <1>1, <1>2, FS_CardinalityType
<1>4. ASSUME NEW f \in entries
      PROVE  Cardinality(entries \ {f}) = Cardinality(entries) - 1 /\ Cardinality(entries) - 1 \in Nat
  <2>1. Cardinality(entries \ {f}) = Cardinality(entries) - 1 /\ IsFiniteSet(entries \ {f})
    BY <1>2, FS_RemoveElement
  <2> QED
    BY <2>1, FS_CardinalityType
<1> QED
  BY <1>2, <1>3, <1>4

LEMMA EntryAdded ==
  ASSUME FragTypeOK, NEW f \in File, f \notin entries
  PROVE  Cardinality(entries \cup {f}) = Cardinality(entries) + 1
<1>1. IsFiniteSet(entries)
  BY EntriesFacts
<1> QED
  BY <1>1, FS_AddElement

LEMMA FragInitial == FragInit => FragIInv
<1> SUFFICES ASSUME FragInit PROVE FragIInv
  OBVIOUS
<1> DEFINE root(g) == Allocate(Formatted, <<>>, 1, g)
<1>1. PICK g \in Group :
        /\ fragMap = root(g).maps
        /\ frags = [f \in File \cup {Dir} |-> IF f = Dir THEN root(g).frags ELSE <<>>]
        /\ entries = {}
  BY DirLengthFacts DEF FragInit, Formatted, StartGroup
<1>2. root(g).maps \in FragMaps /\ root(g).frags \in Seq(Fragment) /\ Len(root(g).frags) = 1
      /\ LaidOut(root(g).frags)
  <2>1. <<>> \in Seq(Fragment) /\ Len(<<>>) < 1 /\ LaidOut(<<>>) /\ 1 \in Nat
    BY NothingIsLaidOut
  <2> QED
    BY <2>1, RootFits, AllocateFacts
<1> HIDE DEF root
<1>3. FragTypeOK
  BY <1>1, <1>2, NothingIsLaidOut DEF FragTypeOK, FragMaps
<1>4. Layout
  BY <1>1, <1>2, NothingIsLaidOut DEF Layout
<1>5. DirectoryLength
  BY <1>1, <1>2, FS_EmptySet, DirLengthFacts DEF DirectoryLength
<1> QED
  BY <1>3, <1>4, <1>5 DEF FragIInv

LEMMA FragStep == FragIInv /\ [FragNext]_fragVars => FragIInv'
<1> SUFFICES ASSUME FragIInv, [FragNext]_fragVars PROVE FragIInv'
  OBVIOUS
<1> USE DEF FragIInv
<1>1. /\ fragMap \in FragMaps /\ DOMAIN frags = File \cup {Dir} /\ entries \subseteq File
      /\ \A f \in File \cup {Dir} : frags[f] \in Seq(Fragment) /\ LaidOut(frags[f])
                                   /\ Len(frags[f]) \in Nat
  BY LenProperties DEF FragTypeOK, Layout, FragMaps
<1>2. Dir \notin File /\ Dir \in File \cup {Dir}
  BY FragmentsAssumption
<1>3. ASSUME NEW f \in File, NEW n \in 1 .. MaxLength, WriteAt(f, n) PROVE FragIInv'
  <2>1. PICK g \in StartGroup(frags[f]) :
          LET new == Allocate(fragMap, frags[f], n, g)
          IN  new.ok /\ fragMap' = new.maps /\ frags' = [frags EXCEPT ![f] = new.frags]
    BY <1>3 DEF WriteAt
  <2> DEFINE new == Allocate(fragMap, frags[f], n, g)
  <2>2. n \in Nat /\ Len(frags[f]) < n /\ g \in Group /\ entries' = entries
    BY <1>1, <1>3, StartGroupIsAGroup DEF WriteAt
  <2>3. new.maps \in FragMaps /\ new.frags \in Seq(Fragment) /\ LaidOut(new.frags)
    BY <1>1, <2>1, <2>2, AllocateFacts
  <2>4. fragMap' = new.maps /\ frags' = [frags EXCEPT ![f] = new.frags]
    BY <2>1
  <2> HIDE DEF new
  <2>5. /\ DOMAIN frags' = File \cup {Dir} /\ frags'[f] = new.frags
        /\ \A e \in File \cup {Dir} : e # f => frags'[e] = frags[e]
    BY <1>1, <2>4
  <2>6. FragTypeOK'
    BY <1>1, <2>2, <2>3, <2>4, <2>5 DEF FragTypeOK, FragMaps
  <2>7. Layout'
    BY <1>1, <2>3, <2>5 DEF Layout
  <2>8. DirectoryLength'
    BY <1>2, <2>2, <2>5 DEF DirectoryLength
  <2> QED
    BY <2>6, <2>7, <2>8
<1>4. ASSUME NEW f \in File, FragCreate(f) PROVE FragIInv'
  <2> DEFINE length == DirLength(Cardinality(entries) + 1)
  <2>1. /\ f \notin entries /\ entries' = entries \cup {f}
        /\ \/ length = Len(frags[Dir]) /\ UNCHANGED <<fragMap, frags>>
           \/ /\ length > Len(frags[Dir])
              /\ \E g \in StartGroup(frags[Dir]) :
                   LET new == Allocate(fragMap, frags[Dir], length, g)
                   IN  /\ new.ok
                       /\ fragMap' = [new.maps EXCEPT ![0] = fragMap[0]]
                       /\ frags' = [frags EXCEPT ![Dir] = new.frags]
    BY <1>4 DEF FragCreate
  <2>2. /\ Cardinality(entries') = Cardinality(entries) + 1 /\ entries' \subseteq File
        /\ length \in Nat
    <3>1. FragTypeOK
      OBVIOUS
    <3>2. PICK k \in Nat : k = Cardinality(entries) + 1
      BY <3>1, EntriesFacts
    <3>3. length \in Nat
      BY <3>2, DirLengthFacts
    <3>4. Cardinality(entries \cup {f}) = Cardinality(entries) + 1
      BY <2>1, <3>1, EntryAdded
    <3> QED
      BY <1>1, <2>1, <3>3, <3>4
  <2> HIDE DEF length
  <2>3. length = DirLength(Cardinality(entries'))
    BY <2>2 DEF length
  <2>4. CASE length = Len(frags[Dir]) /\ UNCHANGED <<fragMap, frags>>
    BY <1>1, <2>2, <2>3, <2>4 DEF FragTypeOK, Layout, DirectoryLength
  <2>5. ASSUME length > Len(frags[Dir]), NEW g \in StartGroup(frags[Dir]),
               LET new == Allocate(fragMap, frags[Dir], length, g)
               IN  /\ new.ok
                   /\ fragMap' = [new.maps EXCEPT ![0] = fragMap[0]]
                   /\ frags' = [frags EXCEPT ![Dir] = new.frags]
        PROVE  FragIInv'
    <3> DEFINE new == Allocate(fragMap, frags[Dir], length, g)
    <3>1. new.ok /\ g \in Group /\ Len(frags[Dir]) < length
      BY <1>1, <1>2, <2>2, <2>5, StartGroupIsAGroup
    <3>2. new.maps \in FragMaps /\ new.frags \in Seq(Fragment) /\ LaidOut(new.frags)
          /\ Len(new.frags) = length
      BY <1>1, <1>2, <2>2, <3>1, AllocateFacts
    <3>3. /\ fragMap' = [new.maps EXCEPT ![0] = fragMap[0]]
          /\ frags' = [frags EXCEPT ![Dir] = new.frags]
      BY <2>5
    <3> HIDE DEF new
    <3>4. /\ DOMAIN frags' = File \cup {Dir} /\ frags'[Dir] = new.frags
          /\ \A e \in File \cup {Dir} : e # Dir => frags'[e] = frags[e]
      BY <1>1, <3>3
    <3>5. fragMap' \in FragMaps
      BY <1>1, <3>2, <3>3 DEF FragMaps
    <3>6. FragTypeOK'
      BY <1>1, <2>2, <3>2, <3>4, <3>5 DEF FragTypeOK, FragMaps
    <3>7. Layout'
      BY <1>1, <3>2, <3>4 DEF Layout
    <3>8. DirectoryLength'
      BY <2>3, <3>2, <3>4 DEF DirectoryLength
    <3> QED
      BY <3>6, <3>7, <3>8
  <2> QED
    BY <2>1, <2>4, <2>5
<1>5. ASSUME NEW f \in File, FragRemove(f) PROVE FragIInv'
  <2> DEFINE length == DirLength(Cardinality(entries) - 1)
             shorter == SubSeq(frags[Dir], 1, length)
  <2>1. /\ f \in entries /\ entries' = entries \ {f}
        /\ fragMap' = Clear(fragMap, ToSet(frags[f]))
        /\ frags' = [frags EXCEPT ![f] = <<>>, ![Dir] = shorter]
    BY <1>1, <1>2, <1>5 DEF FragRemove
  <2>2. PICK k \in Nat : k = Cardinality(entries) - 1 /\ Cardinality(entries') = k
                         /\ Cardinality(entries) = k + 1
    BY <2>1, EntriesFacts
  <2>3. length \in 0 .. Len(frags[Dir]) /\ length = DirLength(Cardinality(entries'))
    BY <2>2, DirLengthFacts DEF DirectoryLength
  <2> HIDE DEF length
  <2>4. shorter \in Seq(Fragment) /\ Len(shorter) = length /\ LaidOut(shorter)
    BY <1>1, <1>2, <2>3, LayoutPrefix
  <2> HIDE DEF shorter
  <2>5. /\ DOMAIN frags' = File \cup {Dir} /\ frags'[Dir] = shorter /\ frags'[f] = <<>>
        /\ \A e \in File : e # f => frags'[e] = frags[e]
    BY <1>1, <1>2, <2>1
  <2>6. fragMap' \in FragMaps
    BY <1>1, <2>1, MarkFacts
  <2>7. FragTypeOK'
    BY <1>1, <2>1, <2>4, <2>5, <2>6, NothingIsLaidOut DEF FragTypeOK, FragMaps
  <2>8. Layout'
    BY <1>1, <2>4, <2>5, NothingIsLaidOut DEF Layout
  <2>9. DirectoryLength'
    BY <2>3, <2>4, <2>5 DEF DirectoryLength
  <2> QED
    BY <2>7, <2>8, <2>9
<1>6. CASE UNCHANGED fragVars
  BY <1>6 DEF fragVars, FragTypeOK, Layout, DirectoryLength
<1> QED
  BY <1>3, <1>4, <1>5, <1>6 DEF FragNext

LEMMA FragInvariant == FragSpec => []FragIInv
BY FragInitial, FragStep, PTL DEF FragSpec

(* The state is of its type: in particular Allocate gives a file only      *)
(* fragments that exist.                                                   *)
THEOREM FragTypeCorrect == FragSpec => []FragTypeOK
BY FragInvariant, PTL DEF FragIInv

(* Every file and the directory is laid out in the way Allocate takes for  *)
(* granted when it extends it, also after the directory has grown, shrunk  *)
(* and grown again.                                                        *)
THEOREM LayoutKept == FragSpec => []Layout
BY FragInvariant, PTL DEF FragIInv

(* A block never crosses the edge of a group.                              *)
LEMMA BlockInOneGroup ==
  ASSUME NEW x \in Fragment, NEW y \in Fragment, BlockOf(x) = BlockOf(y)
  PROVE  GroupOf(x) = GroupOf(y)
<1>1. ASSUME NEW g \in Group, NEW b \in Bit
      PROVE  BlockOf(FragmentAt(g, b)) = FragmentAt(g, BlockOf(b)) /\ BlockOf(b) \in Bit
  <2>1. PICK z \in Nat : z = FragmentAt(g, b)
    BY FragmentFacts
  <2>2. z % Block = b - BlockOf(b) /\ z % Block = z - BlockOf(z) /\ BlockOf(z) \in Nat
    BY <2>1, FragmentFacts, BlockFacts
  <2>3. z = g * GroupSize + b /\ g * GroupSize \in Nat /\ b \in Nat
    BY <2>1, FragmentFacts DEF FragmentAt
  <2>4. BlockOf(b) \in Nat /\ BlockOf(b) \in Bit
    BY <2>3, BlockFacts, GroupIsBlocks
  <2>5. z - BlockOf(z) = b - BlockOf(b)
    BY <2>2
  <2>6. BlockOf(z) = g * GroupSize + BlockOf(b)
    BY <2>2, <2>3, <2>4, <2>5
  <2> QED
    BY <2>1, <2>4, <2>6 DEF FragmentAt
<1>2. PICK g \in Group, b \in Bit : x = FragmentAt(g, b) /\ GroupOf(x) = g
  BY Numbering
<1>3. PICK h \in Group, c \in Bit : y = FragmentAt(h, c) /\ GroupOf(y) = h
  BY Numbering
<1>4. FragmentAt(g, BlockOf(b)) = FragmentAt(h, BlockOf(c)) /\ BlockOf(b) \in Bit /\ BlockOf(c) \in Bit
  BY <1>1, <1>2, <1>3
<1>5. g = h
  BY <1>4, SameFragment
<1> QED
  BY <1>2, <1>3, <1>5

(* The fragments behind the last full block of a file are consecutive, so  *)
(* they stand in one block and in one group.                               *)
LEMMA GivenUpTogether ==
  ASSUME NEW s \in Seq(Fragment), LaidOut(s)
  PROVE  \A x \in GivenUp(s) : GroupOf(x) = GroupOf(Last(s))
<1> DEFINE L == Len(s)
           k == BlockOf(L)
<1>1. L \in Nat /\ DOMAIN s = 1 .. L /\ Block \in Nat \ {0}
      /\ \A i \in 1 .. L : s[i] \in Fragment /\ s[i] \in Nat
  BY LenProperties, ElementOfSeq, FragmentsAssumption DEF Fragment
<1>2. /\ k \in Nat /\ k <= L /\ L < k + Block
      /\ \A y \in Nat : k <= y /\ y < k + Block => BlockOf(y) = k
  BY <1>1, BlockFacts
<1>3. \A i \in 1 .. k : Kept(s)[i] = s[i] /\ Kept(s)[i] \in ToSet(Kept(s))
  <2>1. Kept(s) \in Seq(Fragment) /\ Len(Kept(s)) = k /\ \A i \in 1 .. k : Kept(s)[i] = s[i]
    BY <1>1, <1>2, LayoutPrefix DEF Kept
  <2> QED
    BY <2>1, LenProperties DEF ToSet
<1> HIDE DEF L, k
<1>4. ASSUME NEW i \in 1 .. L, i > k + 1 PROVE i - 1 \in 1 .. L /\ BlockOf(s[i - 1]) = BlockOf(s[i])
  <2>1. PICK j \in 1 .. L : j = i - 1 /\ k < j /\ j < k + Block
    <3>1. i - 1 \in 1 .. L /\ k < i - 1 /\ i - 1 < k + Block
      BY <1>1, <1>2, <1>4
    <3> QED
      BY <3>1
  <2>2. j % Block # 0
    <3>1. j \in Nat
      BY <1>1, <2>1
    <3>2. BlockOf(j) = k
      BY <1>2, <2>1, <3>1
    <3>3. BlockOf(j) # j
      BY <1>2, <2>1, <3>1, <3>2
    <3> QED
      BY <3>1, <3>3, WholeBlocks
  <2>3. s[i] = s[j] + 1 /\ s[i] % Block # 0
    BY <1>1, <2>1, <2>2 DEF LaidOut
  <2>4. PICK x \in Nat, y \in Nat : x = s[i] /\ y = s[j] /\ x = y + 1
    BY <1>1, <2>1, <2>3
  <2>5. BlockOf(x) \in Nat /\ BlockOf(x) <= x /\ x < BlockOf(x) + Block /\ BlockOf(x) # x
    BY <2>3, <2>4, BlockFacts, WholeBlocks
  <2>6. BlockOf(x) <= y /\ y < BlockOf(x) + Block
    BY <1>1, <2>4, <2>5
  <2>7. BlockOf(y) = BlockOf(x)
    BY <2>4, <2>6, BlockFacts
  <2> QED
    BY <2>1, <2>4, <2>7
<1> DEFINE Bad == {d \in Nat : L - d \in k + 1 .. L /\ BlockOf(s[L - d]) # BlockOf(s[L])}
<1>5. ASSUME Bad # {} PROVE FALSE
  <2>1. PICK d \in Nat : d \in Bad /\ \A e \in Bad : d <= e
    BY <1>5, MinIsElement
  <2>2. PICK i \in 1 .. L : i = L - d /\ k < i /\ BlockOf(s[i]) # BlockOf(s[L])
    BY <1>1, <1>2, <2>1
  <2>3. i # L
    BY <2>2
  <2>4. i + 1 \in 1 .. L /\ i + 1 > k + 1 /\ i + 1 - 1 = i /\ d - 1 \in Nat /\ L - (d - 1) = i + 1
    BY <1>1, <1>2, <2>2, <2>3
  <2>5. BlockOf(s[i]) = BlockOf(s[i + 1])
    BY <1>4, <2>4
  <2>6. d - 1 \in Bad
    <3>1. i + 1 \in k + 1 .. L /\ BlockOf(s[i + 1]) # BlockOf(s[L])
      BY <1>1, <1>2, <2>2, <2>4, <2>5
    <3> QED
      BY <2>4, <3>1
  <2> QED
    BY <2>1, <2>4, <2>6
<1> SUFFICES ASSUME NEW x \in GivenUp(s) PROVE GroupOf(x) = GroupOf(Last(s))
  OBVIOUS
<1>6. PICK i \in 1 .. L : x = s[i] /\ x \notin ToSet(Kept(s))
  BY <1>1 DEF GivenUp, ToSet
<1>7. i \in k + 1 .. L
  <2>1. ~ (i \in 1 .. k)
    BY <1>3, <1>6
  <2> QED
    BY <1>1, <1>2, <2>1
<1>8. BlockOf(s[i]) = BlockOf(s[L])
  <2>1. PICK d \in Nat : L - d = i
    <3>1. L - i \in Nat /\ L - (L - i) = i
      BY <1>1
    <3> QED
      BY <3>1
  <2> QED
    BY <1>5, <1>7, <2>1
<1>9. L \in 1 .. L /\ Last(s) = s[L]
  BY <1>1 DEF Last, L
<1> QED
  BY <1>1, <1>6, <1>8, <1>9, BlockInOneGroup

(* The fragments Allocate gives up are all in the group of the file's last *)
(* fragment: the code clears them in the bitmap of that group, without     *)
(* looking which group each is in (filesys.cc:597, 615-624).               *)
THEOREM GivenUpInOneGroup ==
  FragSpec => [](\A f \in File \cup {Dir} : \A x \in GivenUp(frags[f]) :
                   GroupOf(x) = GroupOf(Last(frags[f])))
<1>1. FragIInv => \A f \in File \cup {Dir} : \A x \in GivenUp(frags[f]) :
                    GroupOf(x) = GroupOf(Last(frags[f]))
  BY GivenUpTogether DEF FragIInv, FragTypeOK, Layout
<1> QED
  BY <1>1, FragInvariant, PTL

-----------------------------------------------------------------------------
(* The inductive invariant of the accounts of a file system whose          *)
(* directory never grows beyond its first fragment.  Beside what the       *)
(* bitmaps say, no file may own a fragment of the control blocks, or its   *)
(* removal would clear that fragment's bit.                                *)
FragAccounts ==
  /\ \A f \in File \cup {Dir} : IsInjective(frags[f])
  /\ \A e, f \in File \cup {Dir} : e # f => ToSet(frags[e]) \cap ToSet(frags[f]) = {}
  /\ \A g \in Group, b \in Bit, f \in File \cup {Dir} :
       FragmentAt(g, b) \in ToSet(frags[f]) => ~ (b < Control)
  /\ \A g \in Group, b \in Bit :
       b \in fragMap[g] <=>
         b < Control \/ \E f \in File \cup {Dir} : FragmentAt(g, b) \in ToSet(frags[f])

LEMMA AccountsAreKept ==
  ASSUME FragTypeOK, FragAccounts PROVE FragmentAccounting
<1>1. ASSUME NEW g \in Group, NEW b \in Bit
      PROVE  b \in fragMap[g] <=> b < Control \/ FragmentAt(g, b) \in Owned
  BY DEF FragAccounts, Owned
<1>2. ASSUME NEW e \in File \cup {Dir}, NEW f \in File \cup {Dir},
             NEW i \in DOMAIN frags[e], NEW j \in DOMAIN frags[f], frags[e][i] = frags[f][j]
      PROVE  e = f /\ i = j
  <2>1. frags[e][i] \in ToSet(frags[e]) /\ frags[f][j] \in ToSet(frags[f])
    BY LenProperties DEF FragTypeOK, ToSet
  <2>2. e = f
    BY <1>2, <2>1 DEF FragAccounts
  <2> QED
    BY <1>2, <2>2 DEF FragAccounts, IsInjective
<1> QED
  BY <1>1, <1>2 DEF FragmentAccounting

(* One file has other fragments than before; those that are new to it were *)
(* free, and the bitmaps follow.                                           *)
LEMMA Reassigned ==
  ASSUME FragTypeOK, FragAccounts, NEW f \in File \cup {Dir}, NEW new \in Seq(Fragment),
         IsInjective(new), frags' = [frags EXCEPT ![f] = new],
         \A g \in Group, b \in Bit :
           /\ FragmentAt(g, b) \in ToSet(new) =>
                b \notin fragMap[g] \/ FragmentAt(g, b) \in ToSet(frags[f])
           /\ b \in fragMap'[g] <=>
                \/ FragmentAt(g, b) \in ToSet(new)
                \/ b \in fragMap[g] /\ FragmentAt(g, b) \notin ToSet(frags[f])
  PROVE  FragAccounts'
<1>1. frags'[f] = new /\ \A e \in File \cup {Dir} : e # f => frags'[e] = frags[e]
  BY DEF FragTypeOK
<1>2. ASSUME NEW e \in File \cup {Dir}, e # f PROVE ToSet(frags[e]) \cap ToSet(new) = {}
  <2> SUFFICES ASSUME NEW x \in ToSet(frags[e]), x \in ToSet(new) PROVE FALSE
    OBVIOUS
  <2>1. x \in Fragment
    BY SeqFacts
  <2>2. PICK g \in Group, b \in Bit : x = FragmentAt(g, b)
    BY <2>1, Numbering
  <2>3. b \in fragMap[g] /\ x \notin ToSet(frags[f])
    BY <1>2, <2>2 DEF FragAccounts
  <2> QED
    BY <2>2, <2>3
<1>3. \A e \in File \cup {Dir} : IsInjective(frags'[e])
  BY <1>1 DEF FragAccounts
<1>4. \A d, e \in File \cup {Dir} : d # e => ToSet(frags'[d]) \cap ToSet(frags'[e]) = {}
  <2> SUFFICES ASSUME NEW d \in File \cup {Dir}, NEW e \in File \cup {Dir}, d # e
               PROVE  ToSet(frags'[d]) \cap ToSet(frags'[e]) = {}
    OBVIOUS
  <2>1. ToSet(frags[d]) \cap ToSet(frags[e]) = {}
    BY DEF FragAccounts
  <2>2. CASE d = f
    BY <1>1, <1>2, <2>2
  <2>3. CASE e = f
    BY <1>1, <1>2, <2>3
  <2> QED
    BY <1>1, <2>1, <2>2, <2>3
<1>5. ASSUME NEW g \in Group, NEW b \in Bit, NEW e \in File \cup {Dir},
             FragmentAt(g, b) \in ToSet(frags'[e])
      PROVE  ~ (b < Control)
  <2>1. CASE e = f
    BY <1>1, <1>5, <2>1 DEF FragAccounts
  <2>2. CASE e # f
    BY <1>1, <1>5, <2>2 DEF FragAccounts
  <2> QED
    BY <2>1, <2>2
<1>6. ASSUME NEW g \in Group, NEW b \in Bit
      PROVE  b \in fragMap'[g] <=>
               b < Control \/ \E e \in File \cup {Dir} : FragmentAt(g, b) \in ToSet(frags'[e])
  <2> DEFINE x == FragmentAt(g, b)
  <2>1. b \in fragMap'[g] <=> x \in ToSet(new) \/ (b \in fragMap[g] /\ x \notin ToSet(frags[f]))
    OBVIOUS
  <2>2. b \in fragMap[g] <=> b < Control \/ \E e \in File \cup {Dir} : x \in ToSet(frags[e])
    BY DEF FragAccounts
  <2>3. x \in ToSet(frags[f]) => ~ (b < Control)
        /\ \A e \in File \cup {Dir} : e # f => x \notin ToSet(frags[e])
    BY DEF FragAccounts
  <2> HIDE DEF x
  <2> QED
    BY <1>1, <2>1, <2>2, <2>3 DEF x
<1> QED
  BY <1>3, <1>4, <1>5, <1>6 DEF FragAccounts

LEMMA AccountsInitially == FragInit => FragAccounts
<1> SUFFICES ASSUME FragInit PROVE FragAccounts
  OBVIOUS
<1> DEFINE root(g) == Allocate(Formatted, <<>>, 1, g)
<1>1. PICK g \in Group :
        /\ fragMap = root(g).maps
        /\ frags = [f \in File \cup {Dir} |-> IF f = Dir THEN root(g).frags ELSE <<>>]
  BY DirLengthFacts DEF FragInit, Formatted, StartGroup
<1>2. \A c \in Group, b \in Bit : b \in Formatted[c] <=> b < Control
  BY FragmentsAssumption DEF Formatted, Bit
<1>3. /\ IsInjective(root(g).frags)
      /\ \A c \in Group, b \in Bit :
           /\ FragmentAt(c, b) \in ToSet(root(g).frags) => b \notin Formatted[c]
           /\ b \in root(g).maps[c] <=>
                FragmentAt(c, b) \in ToSet(root(g).frags) \/ b \in Formatted[c]
  <2>1. /\ <<>> \in Seq(Fragment) /\ Len(<<>>) < 1 /\ 1 \in Nat /\ IsInjective(<<>>)
        /\ ToSet(<<>>) = {}
    BY NothingIsLaidOut
  <2>2. \A c \in Group, b \in Bit : FragmentAt(c, b) \in ToSet(<<>>) => b \in Formatted[c]
    BY <2>1
  <2>3. Formatted \in FragMaps /\ Allocate(Formatted, <<>>, 1, g).ok
    BY RootFits
  <2> QED
    BY <2>1, <2>2, <2>3, AllocateFacts
<1> HIDE DEF root
<1>4. frags[Dir] = root(g).frags /\ \A f \in File \cup {Dir} : f # Dir => frags[f] = <<>>
  BY <1>1
<1>5. IsInjective(<<>>) /\ ToSet(<<>>) = {}
  BY NothingIsLaidOut
<1>6. ASSUME NEW c \in Group, NEW b \in Bit
      PROVE  (\E f \in File \cup {Dir} : FragmentAt(c, b) \in ToSet(frags[f]))
               <=> FragmentAt(c, b) \in ToSet(root(g).frags)
  BY <1>4, <1>5
<1> QED
  BY <1>1, <1>2, <1>3, <1>4, <1>5, <1>6 DEF FragAccounts

LEMMA AccountsStep ==
  ASSUME Cardinality(File) + 2 <= EntriesPerFragment, FragIInv, FragAccounts, [FragNext]_fragVars
  PROVE  FragAccounts'
<1>1. /\ FragTypeOK /\ fragMap \in FragMaps /\ DOMAIN frags = File \cup {Dir} /\ entries \subseteq File
      /\ \A f \in File \cup {Dir} : frags[f] \in Seq(Fragment) /\ Len(frags[f]) \in Nat
  BY LenProperties DEF FragIInv, FragTypeOK, FragMaps
<1>2. Dir \notin File /\ Dir \in File \cup {Dir}
  BY FragmentsAssumption
<1>3. ASSUME NEW k \in Nat, k <= Cardinality(File) PROVE DirLength(k) = 1
  BY <1>1, <1>3, EntriesFacts, FragmentsAssumption, DirLengthFacts
<1>4. Len(frags[Dir]) = 1
  BY <1>1, <1>3, EntriesFacts DEF FragIInv, DirectoryLength
<1>5. ASSUME NEW f \in File, NEW n \in 1 .. MaxLength, WriteAt(f, n) PROVE FragAccounts'
  <2>1. PICK g \in StartGroup(frags[f]) :
          LET new == Allocate(fragMap, frags[f], n, g)
          IN  new.ok /\ fragMap' = new.maps /\ frags' = [frags EXCEPT ![f] = new.frags]
    BY <1>5 DEF WriteAt
  <2> DEFINE old == frags[f]
             new == Allocate(fragMap, old, n, g)
  <2>2. /\ n \in Nat /\ Len(old) < n /\ g \in Group /\ old \in Seq(Fragment) /\ IsInjective(old)
        /\ new.ok
    BY <1>1, <1>5, <2>1, StartGroupIsAGroup DEF WriteAt, FragAccounts
  <2>3. \A c \in Group, b \in Bit : FragmentAt(c, b) \in ToSet(old) => b \in fragMap[c]
    BY DEF FragAccounts
  <2>4. /\ new.frags \in Seq(Fragment) /\ IsInjective(new.frags)
        /\ \A c \in Group, b \in Bit :
             /\ FragmentAt(c, b) \in ToSet(new.frags) =>
                  b \notin fragMap[c] \/ FragmentAt(c, b) \in ToSet(old)
             /\ b \in new.maps[c] <=>
                  \/ FragmentAt(c, b) \in ToSet(new.frags)
                  \/ b \in fragMap[c] /\ FragmentAt(c, b) \notin ToSet(old)
    BY <1>1, <2>2, <2>3, AllocateFacts
  <2>5. fragMap' = new.maps /\ frags' = [frags EXCEPT ![f] = new.frags]
    BY <2>1
  <2> HIDE DEF new
  <2> QED
    BY <1>1, <2>4, <2>5, Reassigned
<1>6. ASSUME NEW f \in File, FragCreate(f) PROVE FragAccounts'
  <2>1. DirLength(Cardinality(entries) + 1) = 1
    <3>1. f \notin entries /\ entries \cup {f} \subseteq File /\ IsFiniteSet(File)
      BY <1>1, <1>6, FragmentsAssumption DEF FragCreate
    <3>2. Cardinality(entries \cup {f}) <= Cardinality(File)
      BY <3>1, FS_Subset
    <3>3. PICK k \in Nat : k = Cardinality(entries) + 1
      BY <1>1, EntriesFacts
    <3>4. Cardinality(entries \cup {f}) = Cardinality(entries) + 1
      BY <1>1, <3>1, EntryAdded
    <3>5. k <= Cardinality(File)
      BY <3>2, <3>3, <3>4
    <3> QED
      BY <1>3, <3>3, <3>5
  <2> QED
    BY <1>4, <1>6, <2>1 DEF FragCreate, FragAccounts
<1>7. ASSUME NEW f \in File, FragRemove(f) PROVE FragAccounts'
  <2> DEFINE length == DirLength(Cardinality(entries) - 1)
             shorter == SubSeq(frags[Dir], 1, length)
  <2>1. /\ f \in entries /\ fragMap' = Clear(fragMap, ToSet(frags[f]))
        /\ frags' = [frags EXCEPT ![f] = <<>>, ![Dir] = shorter]
    BY <1>1, <1>2, <1>7 DEF FragRemove
  <2>2. length = 1
    <3>1. PICK k \in Nat : k = Cardinality(entries) - 1
      BY <1>1, <2>1, EntriesFacts
    <3>2. PICK c \in Nat, d \in Nat : c = Cardinality(entries) /\ d = Cardinality(File) /\ c <= d
      BY <1>1, EntriesFacts
    <3>3. k <= Cardinality(File)
      BY <3>1, <3>2
    <3> QED
      BY <1>3, <3>1, <3>3
  <2> HIDE DEF length
  <2>3. shorter = frags[Dir]
    BY <1>1, <1>2, <1>4, <2>2
  <2> HIDE DEF shorter
  <2>4. frags' = [frags EXCEPT ![f] = <<>>]
    BY <1>1, <1>2, <2>1, <2>3
  <2>5. \A g \in Group, b \in Bit :
          b \in fragMap'[g] <=> b \in fragMap[g] /\ FragmentAt(g, b) \notin ToSet(frags[f])
    BY <1>1, <2>1, MarkFacts
  <2> QED
    BY <1>1, <2>4, <2>5, NothingIsLaidOut, Reassigned
<1>8. CASE UNCHANGED fragVars
  BY <1>8 DEF fragVars, FragAccounts
<1> QED
  BY <1>5, <1>6, <1>7, <1>8 DEF FragNext

(* While the directory has room for all files in its first fragment, the   *)
(* bitmaps agree with the headers: what Allocate gives out was free and is *)
(* marked, what Unlink and Allocate give up is cleared, and no fragment is *)
(* in two files.                                                           *)
THEOREM FragmentsAccounted ==
  Cardinality(File) + 2 <= EntriesPerFragment => (FragSpec => []FragmentAccounting)
<1> SUFFICES ASSUME Cardinality(File) + 2 <= EntriesPerFragment
             PROVE  FragSpec => []FragmentAccounting
  OBVIOUS
<1>1. FragIInv /\ FragAccounts /\ [FragNext]_fragVars => FragAccounts'
  BY AccountsStep
<1>2. FragIInv /\ FragAccounts => FragmentAccounting
  BY AccountsAreKept DEF FragIInv
<1> QED
  BY <1>1, <1>2, FragInvariant, AccountsInitially, PTL DEF FragSpec

-----------------------------------------------------------------------------
(* The free blocks of the disk, as RefusesOnlyWhenFull counts them.        *)
FreeBlocks(maps) ==
  UNION {{<<c, b>> : b \in {x \in FreeRuns(maps[c], Block) : x % Block = 0}} : c \in Group}

LEMMA FreeBlocksFacts ==
  ASSUME NEW maps \in FragMaps
  PROVE  /\ FreeBlocks(maps) \subseteq Nat \X Nat
         /\ \A p \in FreeBlocks(maps) : p[1] \in Group /\ p[2] \in Bit
         /\ \A c \in Group, b \in Bit :
              <<c, b>> \in FreeBlocks(maps) <=>
                BlockOf(b) = b /\ \A i \in 0 .. Block - 1 : b + i \notin maps[c]
<1>1. Block \in Nat \ {0} /\ Group \subseteq Nat /\ Bit \subseteq Nat
  BY FragmentsAssumption DEF Group, Bit
<1>2. ASSUME NEW c \in Group, NEW b \in Bit
      PROVE  <<c, b>> \in FreeBlocks(maps) <=> b \in FreeRuns(maps[c], Block) /\ b % Block = 0
  BY DEF FreeBlocks
<1>3. ASSUME NEW c \in Group, NEW b \in Bit
      PROVE  <<c, b>> \in FreeBlocks(maps) <=>
               BlockOf(b) = b /\ \A i \in 0 .. Block - 1 : b + i \notin maps[c]
  <2>1. b % Block = 0 <=> BlockOf(b) = b
    BY <1>1, WholeBlocks
  <2>2. b % Block = 0 => b % Block <= Block - Block
    BY <1>1
  <2> QED
    BY <1>2, <2>1, <2>2 DEF FreeRuns
<1>4. \A p \in FreeBlocks(maps) : \E c \in Group, b \in Bit : p = <<c, b>>
  BY DEF FreeBlocks, FreeRuns
<1>5. \A p \in FreeBlocks(maps) : p \in Nat \X Nat /\ p[1] \in Group /\ p[2] \in Bit
  BY <1>1, <1>4
<1> QED
  BY <1>3, <1>5

(* The order of the search does not change how many blocks it can find.    *)
LEMMA AsManyFound ==
  ASSUME NEW maps \in FragMaps, NEW g \in Group
  PROVE  Cardinality(FreeBlocks(maps)) = Cardinality(Free(maps, SearchOrder(g)))
<1> DEFINE order == SearchOrder(g)
           F == Free(maps, order)
           B == FreeBlocks(maps)
           h == [p \in F |-> <<order[p[1]], p[2]>>]
<1>1. /\ order \in [1 .. Groups -> Group]
      /\ \A c \in Group : \E i \in 1 .. Groups : order[i] = c
      /\ \A i, j \in 1 .. Groups : order[i] = order[j] => i = j
  BY SearchOrderFacts
<1> HIDE DEF order
<1>2. /\ F \subseteq Nat \X Nat /\ IsFiniteSet(F)
      /\ \A p \in F : /\ p[1] \in 1 .. Groups /\ order[p[1]] \in Group
                     /\ p[2] \in Bit /\ BlockOf(p[2]) = p[2]
                     /\ \A i \in 0 .. Block - 1 : p[2] + i \notin maps[order[p[1]]]
  BY <1>1, FreeFacts
<1>3. \A i \in 1 .. Groups, b \in Bit :
        BlockOf(b) = b /\ (\A j \in 0 .. Block - 1 : b + j \notin maps[order[i]]) => <<i, b>> \in F
  BY <1>1, FreeFacts
<1>4. /\ B \subseteq Nat \X Nat /\ \A p \in B : p[1] \in Group /\ p[2] \in Bit
      /\ \A c \in Group, b \in Bit :
           <<c, b>> \in B <=> BlockOf(b) = b /\ \A i \in 0 .. Block - 1 : b + i \notin maps[c]
  BY FreeBlocksFacts
<1> HIDE DEF F, B
<1>5. \A p \in F : <<order[p[1]], p[2]>> \in B
  BY <1>2, <1>4
<1>6. h \in [F -> B]
  BY <1>5
<1>7. ASSUME NEW p \in F, NEW q \in F, h[p] = h[q] PROVE p = q
  <2>1. order[p[1]] = order[q[1]] /\ p[2] = q[2]
    BY <1>7
  <2>2. p[1] = q[1]
    BY <1>1, <1>2, <2>1
  <2> QED
    BY <1>2, <2>1, <2>2, PairFacts
<1>8. ASSUME NEW t \in B PROVE \E p \in F : h[p] = t
  <2>1. t[1] \in Group /\ t[2] \in Bit /\ t = <<t[1], t[2]>>
    BY <1>4
  <2>2. PICK i \in 1 .. Groups : order[i] = t[1]
    BY <1>1, <2>1
  <2>3. BlockOf(t[2]) = t[2] /\ \A j \in 0 .. Block - 1 : t[2] + j \notin maps[t[1]]
    BY <1>4, <2>1
  <2>4. <<i, t[2]>> \in F
    BY <1>3, <2>1, <2>2, <2>3
  <2>5. h[<<i, t[2]>>] = <<t[1], t[2]>>
    BY <2>2, <2>4
  <2> QED
    BY <2>1, <2>4, <2>5
<1>9. ExistsBijection(F, B)
  <2>1. h \in Bijection(F, B)
    BY <1>6, <1>7, <1>8 DEF Bijection, Injection, Surjection, IsInjective
  <2> QED
    BY <2>1 DEF ExistsBijection
<1>10. Cardinality(B) = Cardinality(F)
  BY <1>2, <1>9, FS_Bijection
<1> QED
  BY <1>10 DEF B, F, order

LEMMA RefusalFacts ==
  ASSUME NEW maps \in FragMaps, NEW old \in Seq(Fragment), NEW n \in Nat, Len(old) < n,
         NEW g \in Group, ~ Allocate(maps, old, n, g).ok
  PROVE  LET free == Clear(maps, GivenUp(old))
             blocks == FreeBlocks(free)
             partial == {c \in Group : \E r \in FreeRuns(free[c], n % Block) :
                           <<c, BlockOf(r)>> \notin blocks}
             needed == n \div Block - Len(old) \div Block
         IN  \/ Cardinality(blocks) < needed
             \/ Cardinality(blocks) = needed /\ n % Block > 0 /\ partial = {}
<1> DEFINE free == Clear(maps, GivenUp(old))
           order == SearchOrder(g)
           k == n \div Block - Len(old) \div Block
           new == NewBlocks(free, order, k)
           withBlocks == Mark(free, ToSet(new))
           size == n % Block
           F == Free(free, order)
           B == FreeBlocks(free)
<1>1. ~ (k <= Cardinality(F)) \/ (size # 0 /\ Fitting(withBlocks, order, size) = {})
  BY DEF Allocate
<1>2. Len(old) \in Nat
  BY LenProperties
<1>3. k \in Nat /\ size \in 0 .. Block - 1
  BY <1>2, Parts
<1> HIDE DEF k, size
<1>4. free \in FragMaps
  BY MarkFacts
<1>5. /\ order \in [1 .. Groups -> Group] /\ order \in Orders
      /\ \A c \in Group : \E i \in 1 .. Groups : order[i] = c
  BY SearchOrderFacts DEF Orders
<1>6. IsFiniteSet(F) /\ Cardinality(F) \in Nat /\ Cardinality(B) = Cardinality(F)
  BY <1>4, <1>5, FreeFacts, FS_CardinalityType, AsManyFound
<1> HIDE DEF free, order
<1> SUFFICES ASSUME k <= Cardinality(F)
             PROVE  /\ k = Cardinality(F) /\ size > 0
                    /\ {c \in Group : \E r \in FreeRuns(free[c], size) : <<c, BlockOf(r)>> \notin B} = {}
  BY <1>3, <1>6 DEF k, size, free
<1>7. size # 0 /\ size \in 1 .. Block - 1 /\ Fitting(withBlocks, order, size) = {}
  BY <1>1, <1>3, <1>6
<1>8. /\ \A c \in Group, b \in Bit : FragmentAt(c, b) \in ToSet(new) =>
           /\ b \notin free[c]
           /\ \E i \in 1 .. Groups : order[i] = c /\ <<i, BlockOf(b)>> \in F
      /\ k < Cardinality(F) => \E p \in F : \A o \in 0 .. Block - 1 :
           FragmentAt(order[p[1]], p[2] + o) \notin ToSet(new)
  BY <1>3, <1>4, <1>5, NewBlocksFacts
<1> HIDE DEF new
<1>9. withBlocks \in FragMaps /\ \A c \in Group, b \in Bit :
        b \in withBlocks[c] <=> b \in free[c] \/ FragmentAt(c, b) \in ToSet(new)
  BY <1>4, MarkFacts
<1> HIDE DEF withBlocks
<1>10. \A c \in Group : FreeRuns(withBlocks[c], size) = {}
  BY <1>5, <1>7, <1>9, FittingFacts
<1>11. /\ F \subseteq Nat \X Nat
       /\ \A p \in F : /\ p[1] \in 1 .. Groups /\ order[p[1]] \in Group
                      /\ p[2] \in Bit /\ BlockOf(p[2]) = p[2]
                      /\ \A i \in 0 .. Block - 1 : p[2] + i \in Bit /\ p[2] + i \notin free[order[p[1]]]
  BY <1>4, <1>5, FreeFacts
<1> HIDE DEF F
<1>12. Block \in Nat \ {0} /\ Bit \subseteq Nat
  BY FragmentsAssumption DEF Bit
<1>13. ASSUME k < Cardinality(F) PROVE FALSE
  <2>1. PICK p \in F : \A o \in 0 .. Block - 1 : FragmentAt(order[p[1]], p[2] + o) \notin ToSet(new)
    BY <1>8, <1>13
  <2>2. PICK c \in Group, b \in Bit :
          /\ c = order[p[1]] /\ b = p[2] /\ BlockOf(b) = b
          /\ \A i \in 0 .. Block - 1 : b + i \in Bit /\ b + i \notin free[c]
    BY <1>11
  <2>3. \A i \in 0 .. size - 1 : b + i \notin withBlocks[c]
    <3>1. \A i \in 0 .. size - 1 : i \in 0 .. Block - 1
      BY <1>7, <1>12
    <3> QED
      BY <1>9, <2>1, <2>2, <3>1
  <2>4. b % Block = 0
    BY <1>12, <2>2, WholeBlocks
  <2>5. b % Block <= Block - size
    BY <1>7, <1>12, <2>4
  <2> QED
    BY <1>10, <2>3, <2>5 DEF FreeRuns
<1>14. ASSUME NEW c \in Group, NEW r \in FreeRuns(free[c], size), <<c, BlockOf(r)>> \notin B
       PROVE  FALSE
  <2>1. /\ r \in Nat /\ r < GroupSize /\ r + size <= BlockOf(r) + Block
        /\ \A b \in r .. r + size - 1 : b \notin free[c]
    BY <1>7, <1>12, RunFacts
  <2>2. ASSUME NEW b \in r .. r + size - 1 PROVE b \notin withBlocks[c]
    <3> SUFFICES ASSUME b \in withBlocks[c] PROVE FALSE
      OBVIOUS
    <3>1. b \in Bit
      BY <1>9 DEF FragMaps
    <3>2. FragmentAt(c, b) \in ToSet(new)
      BY <1>9, <2>1, <3>1
    <3>3. PICK i \in 1 .. Groups : order[i] = c /\ <<i, BlockOf(b)>> \in F
      BY <1>8, <3>1, <3>2
    <3>4. BlockOf(b) = BlockOf(r)
      <4>1. BlockOf(r) \in Nat /\ BlockOf(r) <= r
        BY <2>1, BlockFacts
      <4>2. b \in Nat /\ size \in Nat /\ r <= b /\ b < r + size
        BY <1>7, <1>12, <2>1
      <4>3. BlockOf(r) <= b /\ b < BlockOf(r) + Block
        BY <1>12, <2>1, <4>1, <4>2
      <4> QED
        BY <2>1, <4>2, <4>3, BlockFacts
    <3>5. BlockOf(r) \in Bit /\ BlockOf(BlockOf(r)) = BlockOf(r)
          /\ \A o \in 0 .. Block - 1 : BlockOf(r) + o \notin free[c]
      BY <1>11, <3>3, <3>4
    <3>6. <<c, BlockOf(r)>> \in B
      BY <1>4, <3>5, FreeBlocksFacts
    <3> QED
      BY <1>14, <3>6
  <2>3. r \in FreeRuns(withBlocks[c], size)
    BY <1>7, <1>12, <2>1, <2>2, RunFacts
  <2> QED
    BY <1>10, <2>3
<1>15. k = Cardinality(F)
  BY <1>3, <1>6, <1>13
<1>16. {c \in Group : \E r \in FreeRuns(free[c], size) : <<c, BlockOf(r)>> \notin B} = {}
  BY <1>14
<1>17. size > 0
  BY <1>7, <1>12
<1> QED
  BY <1>15, <1>16, <1>17

(* Allocate refuses to extend a file only when the disk has too few free   *)
(* blocks for it, or no room left for the rest beside the blocks it needs. *)
THEOREM RefusedOnlyWhenFull == FragSpec => []RefusesOnlyWhenFull
<1>1. ASSUME FragTypeOK PROVE RefusesOnlyWhenFull
  <2> SUFFICES ASSUME NEW f \in entries, NEW n \in 1 .. MaxLength, NEW g \in StartGroup(frags[f]),
                      n > Len(frags[f]), ~ Allocate(fragMap, frags[f], n, g).ok
               PROVE  LET free == Clear(fragMap, GivenUp(frags[f]))
                          blocks == FreeBlocks(free)
                          partial == {c \in Group : \E r \in FreeRuns(free[c], n % Block) :
                                        <<c, BlockOf(r)>> \notin blocks}
                          needed == n \div Block - Len(frags[f]) \div Block
                      IN  \/ Cardinality(blocks) < needed
                          \/ Cardinality(blocks) = needed /\ n % Block > 0 /\ partial = {}
    BY DEF RefusesOnlyWhenFull, FreeBlocks
  <2>1. fragMap \in FragMaps /\ frags[f] \in Seq(Fragment)
    BY <1>1 DEF FragTypeOK, FragMaps
  <2>2. n \in Nat /\ Len(frags[f]) < n /\ g \in Group
    BY <2>1, LenProperties, StartGroupIsAGroup
  <2> QED
    BY <2>1, <2>2, RefusalFacts
<1> QED
  BY <1>1, FragTypeCorrect, PTL
=============================================================================
