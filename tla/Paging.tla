-------------------------------- MODULE Paging --------------------------------
(***************************************************************************)
(* Demand paging in Assignment 2: AddrSpace::Load puts a program in the    *)
(* swap file, Machine::Translate raises a page fault for a page that is    *)
(* not in memory, MemoryManager::PageReplacement brings it in, in the      *)
(* place of the page that came in first (userprog/addrspace.cc,            *)
(* machine/translate.cc).                                                  *)
(*                                                                         *)
(* The build uses the file system stub, whose reads and writes are calls   *)
(* of the host: Load and PageReplacement lose the processor nowhere, and   *)
(* each is one step.  What a page holds is one value.                      *)
(***************************************************************************)
EXTENDS Integers, FiniteSets, FiniteSetsExt, SequencesExt

CONSTANTS
  Program,       \* user programs; each has its AddrSpace
  NumPages,      \* pages of an address space
  NumPhysPages,  \* page frames of the machine
  Value,         \* what a page can hold
  Image          \* what a program's executable puts in each of its pages

Zero == 0    \* a page of zeros
Page == 0 .. NumPages - 1
Frame == 0 .. NumPhysPages - 1
Slot == 0 .. Cardinality(Program) * NumPages - 1

ASSUME PagingAssumption ==
  /\ IsFiniteSet(Program) /\ Program # {}
  /\ NumPages \in Nat \ {0}
  /\ NumPhysPages \in Nat \ {0, 1}
  /\ Zero \in Value /\ -1 \notin Value
  /\ Image \in [Program -> [Page -> Value]]

VARIABLES
  mainMemory,   \* what each frame holds
  memory,       \* MemoryManager::memory, the frames in use
  fifo,         \* MemoryManager::fifo, the pages in memory by age
  swap,         \* what each page of the swap file holds
  swapEnd,      \* how many pages long the swap file is
  swapCounter,  \* MemoryManager::swapCounter, the next unused page of it
  loaded,       \* programs whose AddrSpace is loaded
  pageTable     \* the TranslationEntry of each page of a program

paging == <<mainMemory, memory, fifo, swap, swapEnd, swapCounter, loaded, pageTable>>

NoEntry == [valid |-> FALSE, physicalPage |-> -1, swapIndex |-> 0]

PagingTypeOK ==
  /\ mainMemory \in [Frame -> Value]
  /\ memory \subseteq Frame
  /\ fifo \in Seq(Program \X Page)
  /\ swap \in [Slot -> Value]
  /\ swapEnd \in 0 .. Cardinality(Slot)
  /\ swapCounter \in 0 .. Cardinality(Slot)
  /\ loaded \subseteq Program
  /\ pageTable \in [Program -> [Page ->
       [valid : BOOLEAN, physicalPage : Frame \cup {-1}, swapIndex : Slot]]]

PagingInit ==
  /\ mainMemory = [f \in Frame |-> Zero]
  /\ memory = {}
  /\ fifo = <<>>
  /\ swap = [s \in Slot |-> Zero]
  /\ swapEnd = 0
  /\ swapCounter = 0
  /\ loaded = {}
  /\ pageTable = [p \in Program |-> [v \in Page |-> NoEntry]]
-----------------------------------------------------------------------------
(* Slip: the counter is not incremented for every page. *)
LoadOneSlot(p) ==
  /\ p \notin loaded
  /\ loaded' = loaded \cup {p}
  /\ swapCounter' = swapCounter + 1
  /\ pageTable' = [pageTable EXCEPT ![p] =
       [v \in Page |-> [NoEntry EXCEPT !.swapIndex = swapCounter + v]]]
  /\ LET written == {v \in Page : Image[p][v] # Zero}
     IN  /\ swap' = [s \in Slot |-> IF s - swapCounter \in written
                                    THEN Image[p][s - swapCounter] ELSE swap[s]]
         /\ swapEnd' = Max({swapEnd} \cup {swapCounter + v + 1 : v \in written})
  /\ UNCHANGED <<mainMemory, memory, fifo>>

(* AddrSpace::Load gives every page a place in the swap file and writes    *)
(* the segments of the executable there; the pages of the uninitialised    *)
(* data and of the stack are not written.                                  *)
Load(p) ==
  /\ p \notin loaded
  /\ loaded' = loaded \cup {p}
  /\ swapCounter' = swapCounter + NumPages
  /\ pageTable' = [pageTable EXCEPT ![p] =
       [v \in Page |-> [NoEntry EXCEPT !.swapIndex = swapCounter + v]]]
  /\ LET written == {v \in Page : Image[p][v] # Zero}
     IN  /\ swap' = [s \in Slot |-> IF s - swapCounter \in written
                                    THEN Image[p][s - swapCounter] ELSE swap[s]]
         /\ swapEnd' = Max({swapEnd} \cup {swapCounter + v + 1 : v \in written})
  /\ UNCHANGED <<mainMemory, memory, fifo>>

(* What memory that held "before" holds after reading a page of the swap   *)
(* file as it now is: past the end of the file nothing is read.            *)
ReadSwap(slot, before) == IF slot < swapEnd' THEN swap'[slot] ELSE before

(* Slip: without the bzero of the frame. *)
PageInUncleared(p, v, f, table, queue) ==
  /\ mainMemory' = [mainMemory EXCEPT ![f] = ReadSwap(pageTable[p][v].swapIndex, @)]
  /\ pageTable' = [table EXCEPT ![p][v].valid = TRUE, ![p][v].physicalPage = f]
  /\ fifo' = Append(queue, <<p, v>>)
  /\ UNCHANGED <<swapCounter, loaded>>

(* The second half of PageReplacement: page v of p comes into frame f. *)
PageIn(p, v, f, table, queue) ==
  /\ mainMemory' = [mainMemory EXCEPT ![f] = ReadSwap(pageTable[p][v].swapIndex, Zero)]
  /\ pageTable' = [table EXCEPT ![p][v].valid = TRUE, ![p][v].physicalPage = f]
  /\ fifo' = Append(queue, <<p, v>>)
  /\ UNCHANGED <<swapCounter, loaded>>

(* PageReplacement with a free frame: FindAndSet takes the lowest. *)
UseFreeFrame(p, v) ==
  /\ memory # Frame
  /\ UNCHANGED <<swap, swapEnd>>
  /\ LET f == Min(Frame \ memory)
     IN  /\ memory' = memory \cup {f}
         /\ PageIn(p, v, f, pageTable, fifo)

(* Slip: the page that leaves stays valid. *)
ReplaceOldestStillValid(p, v) ==
  /\ memory = Frame
  /\ LET old == Head(fifo)
         entry == pageTable[old[1]][old[2]]
         f == entry.physicalPage
     IN  /\ swap' = [swap EXCEPT ![entry.swapIndex] = mainMemory[f]]
         /\ swapEnd' = Max({swapEnd, entry.swapIndex + 1})
         /\ PageIn(p, v, f, pageTable, Tail(fifo))
  /\ UNCHANGED memory

(* PageReplacement without one: the oldest page is written to its place in *)
(* the swap file, dirty or not, and leaves its frame.                      *)
ReplaceOldest(p, v) ==
  /\ memory = Frame
  /\ LET old == Head(fifo)
         entry == pageTable[old[1]][old[2]]
         f == entry.physicalPage
     IN  /\ swap' = [swap EXCEPT ![entry.swapIndex] = mainMemory[f]]
         /\ swapEnd' = Max({swapEnd, entry.swapIndex + 1})
         /\ PageIn(p, v, f,
                   [pageTable EXCEPT ![old[1]][old[2]].valid = FALSE,
                                     ![old[1]][old[2]].physicalPage = -1],
                   Tail(fifo))
  /\ UNCHANGED memory

PageReplacement(p, v) == UseFreeFrame(p, v) \/ ReplaceOldest(p, v)

(* Machine::Translate finds the page in memory. *)
Translates(p, v) == pageTable[p][v].valid
FrameOf(p, v) == pageTable[p][v].physicalPage

(* Machine::WriteMem of a page in memory. *)
WriteMem(p, v, x) ==
  /\ mainMemory' = [mainMemory EXCEPT ![FrameOf(p, v)] = x]
  /\ UNCHANGED <<memory, fifo, swap, swapEnd, swapCounter, loaded, pageTable>>
-----------------------------------------------------------------------------
Entry == Program \X Page
InMemory == {e \in Entry : pageTable[e[1]][e[2]].valid}
FrameOfEntry(e) == FrameOf(e[1], e[2])

(* Page tables, the bitmap of frames and the queue of PageReplacement      *)
(* describe one assignment of frames: a page is valid just when it is      *)
(* queued, once, and has a frame marked in the bitmap that no other page,  *)
(* of its own program or another, has; and no two pages of loaded programs *)
(* share a place in the swap file.                                         *)
FramesOwned ==
  /\ ToSet(fifo) = InMemory
  /\ Len(fifo) = Cardinality(InMemory)
  /\ {FrameOfEntry(e) : e \in InMemory} = memory
  /\ Cardinality(InMemory) = Cardinality(memory)
  /\ \A e \in Entry \ InMemory : FrameOfEntry(e) = -1
  /\ \A d, e \in loaded \X Page :
       pageTable[d[1]][d[2]].swapIndex = pageTable[e[1]][e[2]].swapIndex => d = e

NotLoaded == [v \in Page |-> -1]

(* What a program would read in a page, wherever the page is. *)
Contents(p, v) ==
  LET entry == pageTable[p][v]
  IN  IF entry.valid THEN mainMemory[entry.physicalPage]
      ELSE IF entry.swapIndex < swapEnd THEN swap[entry.swapIndex] ELSE Zero

AddressSpaces ==
  [p \in Program |-> IF p \in loaded THEN [v \in Page |-> Contents(p, v)] ELSE NotLoaded]
=============================================================================
