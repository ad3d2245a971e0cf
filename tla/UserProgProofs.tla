---------------------------- MODULE UserProgProofs ----------------------------
(***************************************************************************)
(* Proofs about Paging and UserProg, for any number of programs, pages,    *)
(* frames and pids.  First, that every step of Paging keeps the page       *)
(* tables, the bitmap of frames, the queue of PageReplacement and the swap *)
(* file in agreement, and what it does to the contents of the address      *)
(* spaces; then the types, the frames and the pids of UserProg, and that   *)
(* the programs cannot tell demand paging from an address space of their   *)
(* own.                                                                    *)
(***************************************************************************)
EXTENDS UserProg, Lists


SlotOf(p, v) == pageTable[p][v].swapIndex

(* A page in memory belongs to a loaded program, is queued and has a frame *)
(* of its own; a page that is not has none.                                *)
PagesInMemory ==
  \A p \in Program, v \in Page :
    /\ Translates(p, v) => /\ p \in loaded
                           /\ FrameOf(p, v) \in memory
                           /\ <<p, v>> \in ToSet(fifo)
    /\ ~ Translates(p, v) => /\ FrameOf(p, v) = -1
                             /\ <<p, v>> \notin ToSet(fifo)

FramesDiffer ==
  \A p, q \in Program, v, w \in Page :
    Translates(p, v) /\ Translates(q, w) /\ FrameOf(p, v) = FrameOf(q, w) => p = q /\ v = w

(* No frame is marked without a page in it.                                *)
FramesUsed ==
  \A f \in memory : \E p \in Program, v \in Page :
    Translates(p, v) /\ FrameOf(p, v) = f

(* The pages of loaded programs have places of their own in the swap file, *)
(* all below swapCounter.                                                  *)
SlotsDiffer ==
  /\ swapCounter = Cardinality(loaded) * NumPages
  /\ \A p \in loaded, v \in Page : SlotOf(p, v) < swapCounter
  /\ \A p, q \in loaded, v, w \in Page :
       SlotOf(p, v) = SlotOf(q, w) => p = q /\ v = w

(* Behind its end, and in its holes, the swap file is zero.                *)
SwapEnds ==
  /\ swapEnd <= swapCounter
  /\ \A s \in Slot : s >= swapEnd => swap[s] = Zero

PagingInv ==
  /\ PagingTypeOK
  /\ IsInjective(fifo)
  /\ PagesInMemory
  /\ FramesDiffer
  /\ FramesUsed
  /\ SlotsDiffer
  /\ SwapEnds

TranslationEntry == [valid : BOOLEAN, physicalPage : Frame \cup {-1}, swapIndex : Slot]

-----------------------------------------------------------------------------
(* The sets of pages and of places in the swap file.                       *)
LEMMA Sizes ==
  /\ Cardinality(Program) \in Nat \ {0}
  /\ Cardinality(Program) * NumPages \in Nat \ {0}
  /\ Cardinality(Slot) = Cardinality(Program) * NumPages
  /\ 0 \in Slot /\ 0 \in Page /\ 0 \in Frame
<1>1. Cardinality(Program) \in Nat \ {0}
  BY PagingAssumption, FS_CardinalityType, FS_EmptySet
<1>2. Cardinality(Program) * NumPages \in Nat \ {0}
  BY <1>1, PagingAssumption
<1>3. Cardinality(Slot) = Cardinality(Program) * NumPages
  BY <1>2, FS_Interval DEF Slot
<1> QED
  BY <1>1, <1>2, <1>3, PagingAssumption DEF Slot, Page, Frame

(* At the start no program is loaded.                                      *)
LEMMA PagingInvInit == PagingInit => PagingInv
<1> SUFFICES ASSUME PagingInit PROVE PagingInv
  OBVIOUS
<1>1. NoEntry \in TranslationEntry
  BY Sizes DEF NoEntry, TranslationEntry
<1>2. PagingTypeOK
  BY <1>1, Sizes, PagingAssumption DEF PagingInit, PagingTypeOK, TranslationEntry
<1>3. \A p \in Program, v \in Page : ~ Translates(p, v) /\ FrameOf(p, v) = -1
  BY DEF PagingInit, Translates, FrameOf, NoEntry
<1>4. IsInjective(fifo) /\ ToSet(fifo) = {}
  BY NoElements DEF PagingInit
<1>5. PagesInMemory /\ FramesDiffer
  BY <1>3, <1>4 DEF PagesInMemory, FramesDiffer
<1>6. FramesUsed
  BY DEF FramesUsed, PagingInit
<1>7. SlotsDiffer
  <2>1. Cardinality(loaded) * NumPages = 0
    BY FS_EmptySet, PagingAssumption DEF PagingInit
  <2> QED
    BY <2>1 DEF PagingInit, SlotsDiffer
<1>8. SwapEnds
  BY DEF PagingInit, SwapEnds
<1> QED
  BY <1>2, <1>4, <1>5, <1>6, <1>7, <1>8 DEF PagingInv

(* What the assignments of PageReplacement to an entry change.             *)
WithEntry(T, p, v, b, f) == [T EXCEPT ![p][v].valid = b, ![p][v].physicalPage = f]

EntryIs(T, U, p, v, b, f) ==
  /\ U[p][v].valid = b /\ U[p][v].physicalPage = f
  /\ U[p][v].swapIndex = T[p][v].swapIndex
  /\ \A q \in Program, w \in Page : q # p \/ w # v => U[q][w] = T[q][w]

PageTables == [Program -> [Page -> TranslationEntry]]

LEMMA EntryUpdate ==
  ASSUME NEW T \in PageTables, NEW U,
         NEW p \in Program, NEW v \in Page, NEW b \in BOOLEAN, NEW f \in Frame \cup {-1},
         U = WithEntry(T, p, v, b, f)
  PROVE  U \in PageTables /\ EntryIs(T, U, p, v, b, f)
<1> DEFINE e == [T[p][v] EXCEPT !.valid = b, !.physicalPage = f]
           row == [T[p] EXCEPT ![v] = e]
<1>1. T[p] \in [Page -> TranslationEntry] /\ T[p][v] \in TranslationEntry
  BY DEF PageTables
<1>2. /\ e \in TranslationEntry /\ e.valid = b /\ e.physicalPage = f
      /\ e.swapIndex = T[p][v].swapIndex
  BY <1>1 DEF TranslationEntry
<1>3. U = [T EXCEPT ![p] = row]
  BY DEF WithEntry
<1> HIDE DEF e
<1>4. /\ row \in [Page -> TranslationEntry] /\ row[v] = e
      /\ \A w \in Page : w # v => row[w] = T[p][w]
  BY <1>1, <1>2
<1> HIDE DEF row
<1>5. /\ U \in PageTables /\ U[p] = row
      /\ \A q \in Program : q # p => U[q] = T[q]
  BY <1>3, <1>4 DEF PageTables
<1>6. \A q \in Program, w \in Page : q # p \/ w # v => U[q][w] = T[q][w]
  BY <1>4, <1>5
<1> QED
  BY <1>2, <1>4, <1>5, <1>6 DEF EntryIs

-----------------------------------------------------------------------------
(* The swap file has room for every program.                               *)
LEMMA RoomInSwap ==
  ASSUME PagingInv, NEW p \in Program, p \notin loaded
  PROVE  /\ Cardinality(loaded \cup {p}) * NumPages = swapCounter + NumPages
         /\ swapCounter \in Nat /\ swapCounter + NumPages <= Cardinality(Program) * NumPages
<1> DEFINE c == Cardinality(loaded)
           n == Cardinality(Program)
<1>1. loaded \subseteq Program /\ swapCounter = c * NumPages /\ swapCounter \in Nat
  BY DEF PagingInv, PagingTypeOK, SlotsDiffer
<1>2. IsFiniteSet(loaded) /\ c \in Nat
  BY <1>1, PagingAssumption, FS_Subset, FS_CardinalityType
<1>3. Cardinality(loaded \cup {p}) = c + 1
  BY <1>2, FS_AddElement
<1>4. c + 1 <= n
  <2>1. loaded \cup {p} \subseteq Program
    BY <1>1
  <2> QED
    BY <1>3, <2>1, PagingAssumption, FS_Subset
<1>5. n \in Nat /\ NumPages \in Nat
  BY Sizes, PagingAssumption
<1> HIDE DEF c, n
<1>6. (c + 1) * NumPages = c * NumPages + NumPages
  BY <1>2, <1>5
<1>7. (c + 1) * NumPages <= n * NumPages
  BY <1>2, <1>4, <1>5
<1> QED
  BY <1>1, <1>3, <1>6, <1>7 DEF n

(* What Load does to the page tables and to the swap file.                 *)
LEMMA LoadFacts ==
  ASSUME PagingInv, NEW p \in Program, Load(p)
  PROVE  /\ p \notin loaded /\ loaded' = loaded \cup {p}
         /\ swapCounter' = swapCounter + NumPages
         /\ pageTable' \in [Program -> [Page -> TranslationEntry]]
         /\ \A v \in Page : /\ swapCounter + v \in Slot /\ SlotOf(p, v)' = swapCounter + v
                            /\ ~ Translates(p, v)' /\ FrameOf(p, v)' = -1
                            /\ ~ Translates(p, v)
         /\ \A q \in Program : q # p => pageTable'[q] = pageTable[q]
         /\ swap' \in [Slot -> Value]
         /\ \A v \in Page : swap'[swapCounter + v] = Image[p][v]
         /\ \A s \in Slot : s < swapCounter => swap'[s] = swap[s]
         /\ \A s \in Slot : s >= swapEnd' => swap'[s] = Zero
         /\ swapEnd' \in Nat /\ swapEnd <= swapEnd' /\ swapEnd' <= swapCounter'
         /\ UNCHANGED <<mainMemory, memory, fifo>>
<1> DEFINE n == swapCounter
           written == {v \in Page : Image[p][v] # Zero}
           ends == {swapEnd} \cup {n + v + 1 : v \in written}
           last == n + NumPages
<1>1. /\ p \notin loaded /\ loaded' = loaded \cup {p} /\ swapCounter' = n + NumPages
      /\ pageTable' = [pageTable EXCEPT ![p] =
                         [v \in Page |-> [NoEntry EXCEPT !.swapIndex = n + v]]]
      /\ swap' = [s \in Slot |-> IF s - n \in written THEN Image[p][s - n] ELSE swap[s]]
      /\ swapEnd' = Max(ends)
      /\ UNCHANGED <<mainMemory, memory, fifo>>
  BY DEF Load
<1>2. /\ n \in Nat /\ NumPages \in Nat /\ swapEnd \in Nat /\ swapEnd <= n
      /\ swap \in [Slot -> Value] /\ \A s \in Slot : s >= swapEnd => swap[s] = Zero
      /\ Image[p] \in [Page -> Value] /\ Page = 0 .. NumPages - 1
      /\ pageTable \in [Program -> [Page -> TranslationEntry]]
  BY PagingAssumption, Sizes
     DEF PagingInv, PagingTypeOK, SwapEnds, Page, TranslationEntry
<1>3. \A v \in Page : n + v \in Slot /\ n + v \in Nat /\ n + v + 1 \in 0 .. last
  <2>1. last <= Cardinality(Program) * NumPages
    BY <1>1, RoomInSwap
  <2> SUFFICES ASSUME NEW v \in Page
               PROVE  n + v \in Slot /\ n + v \in Nat /\ n + v + 1 \in 0 .. last
    OBVIOUS
  <2>2. v \in Nat /\ v <= NumPages - 1
    BY <1>2
  <2> HIDE DEF n
  <2> QED
    BY <1>2, <2>1, <2>2, Sizes DEF Slot
<1>4. /\ Max(ends) \in ends /\ \A y \in ends : y <= Max(ends)
      /\ ends \subseteq 0 .. last
  <2>1. ends \subseteq 0 .. last /\ ends # {} /\ last \in Nat
    BY <1>2, <1>3
  <2> QED
    BY <2>1, MaxIsElement
<1>5. /\ swapEnd' \in 0 .. last /\ swapEnd <= swapEnd'
      /\ \A v \in written : n + v + 1 <= swapEnd'
  <2>1. swapEnd' \in ends /\ \A y \in ends : y <= swapEnd'
    BY <1>1, <1>4
  <2>2. swapEnd \in ends /\ \A v \in written : n + v + 1 \in ends
    OBVIOUS
  <2> HIDE DEF ends, written
  <2> QED
    BY <1>4, <2>1, <2>2
<1>6. \A v \in Page : /\ [NoEntry EXCEPT !.swapIndex = n + v] \in TranslationEntry
                      /\ pageTable'[p][v] = [NoEntry EXCEPT !.swapIndex = n + v]
  BY <1>1, <1>2, <1>3 DEF NoEntry, TranslationEntry
<1>7. /\ pageTable' \in [Program -> [Page -> TranslationEntry]]
      /\ \A q \in Program : q # p => pageTable'[q] = pageTable[q]
  BY <1>1, <1>2, <1>6
<1>8. \A v \in Page : /\ SlotOf(p, v)' = n + v
                      /\ ~ Translates(p, v)' /\ FrameOf(p, v)' = -1
  BY <1>6 DEF SlotOf, Translates, FrameOf, NoEntry
<1>9. \A v \in Page : ~ Translates(p, v)
  BY <1>1 DEF PagingInv, PagesInMemory
<1>10. swap' \in [Slot -> Value]
  <2>1. \A s \in Slot : s - n \in written => Image[p][s - n] \in Value
    BY <1>2
  <2> QED
    BY <1>1, <1>2, <2>1
<1>11. \A v \in Page : swap'[n + v] = Image[p][v]
  <2> SUFFICES ASSUME NEW v \in Page PROVE swap'[n + v] = Image[p][v]
    OBVIOUS
  <2>1. n + v \in Slot /\ (n + v) - n = v /\ n + v >= swapEnd
    BY <1>2, <1>3
  <2>2. swap'[n + v] = IF v \in written THEN Image[p][v] ELSE swap[n + v]
    BY <1>1, <2>1
  <2>3. swap[n + v] = Zero
    BY <1>2, <2>1
  <2> QED
    BY <2>2, <2>3
<1>12. \A s \in Slot : s < n => swap'[s] = swap[s]
  <2> SUFFICES ASSUME NEW s \in Slot, s < n PROVE swap'[s] = swap[s]
    OBVIOUS
  <2>1. s - n \notin Page
    BY <1>2, Sizes DEF Slot
  <2> QED
    BY <1>1, <2>1
<1>13. \A s \in Slot : s >= swapEnd' => swap'[s] = Zero
  <2> SUFFICES ASSUME NEW s \in Slot, s >= swapEnd' PROVE swap'[s] = Zero
    OBVIOUS
  <2>1. s \in Nat
    BY Sizes DEF Slot
  <2>2. swap[s] = Zero
    BY <1>2, <1>5, <2>1
  <2>3. s - n \notin written
    <3> SUFFICES ASSUME NEW v \in written, s - n = v PROVE FALSE
      OBVIOUS
    <3>1. s = n + v /\ v \in Nat
      BY <1>2, <2>1
    <3>2. n + v + 1 <= swapEnd' /\ swapEnd' \in Nat
      BY <1>2, <1>5
    <3> QED
      BY <1>2, <3>1, <3>2
  <2> QED
    BY <1>1, <2>2, <2>3
<1>14. swapEnd' \in Nat /\ swapEnd <= swapEnd' /\ swapEnd' <= swapCounter'
  BY <1>1, <1>2, <1>5
<1>15. \A v \in Page : /\ n + v \in Slot /\ SlotOf(p, v)' = n + v
                       /\ ~ Translates(p, v)' /\ FrameOf(p, v)' = -1
                       /\ ~ Translates(p, v)
  BY <1>3, <1>8, <1>9
<1> QED
  BY <1>1, <1>7, <1>10, <1>11, <1>12, <1>13, <1>14, <1>15

(* AddrSpace::Load keeps page tables, frames and swap file in agreement.   *)
LEMMA LoadKeepsInv ==
  ASSUME PagingInv, NEW p \in Program, Load(p)
  PROVE  PagingInv'
<1>1. /\ p \notin loaded /\ loaded' = loaded \cup {p}
      /\ swapCounter' = swapCounter + NumPages
      /\ pageTable' \in [Program -> [Page -> TranslationEntry]]
      /\ swap' \in [Slot -> Value]
      /\ swapEnd' \in Nat /\ swapEnd <= swapEnd' /\ swapEnd' <= swapCounter'
      /\ UNCHANGED <<mainMemory, memory, fifo>>
      /\ \A s \in Slot : s >= swapEnd' => swap'[s] = Zero
  BY LoadFacts
<1>2. \A v \in Page : /\ SlotOf(p, v)' = swapCounter + v
                      /\ ~ Translates(p, v)' /\ FrameOf(p, v)' = -1
                      /\ ~ Translates(p, v)
  BY LoadFacts
<1>3. \A q \in Program, v \in Page : q # p =>
        /\ Translates(q, v)' = Translates(q, v)
        /\ FrameOf(q, v)' = FrameOf(q, v) /\ SlotOf(q, v)' = SlotOf(q, v)
  BY LoadFacts DEF Translates, FrameOf, SlotOf
<1>4. /\ PagingTypeOK /\ IsInjective(fifo) /\ PagesInMemory /\ FramesDiffer /\ FramesUsed
      /\ SlotsDiffer /\ SwapEnds
  BY DEF PagingInv
<1>5. /\ Cardinality(loaded') * NumPages = swapCounter'
      /\ swapCounter' \in Nat /\ swapCounter' <= Cardinality(Slot)
      /\ swapCounter \in Nat /\ NumPages \in Nat
  <2>1. /\ Cardinality(loaded \cup {p}) * NumPages = swapCounter + NumPages
        /\ swapCounter \in Nat /\ swapCounter + NumPages <= Cardinality(Program) * NumPages
    BY <1>1, RoomInSwap
  <2>2. NumPages \in Nat
    BY PagingAssumption
  <2>3. swapCounter + NumPages \in Nat
    BY <2>1, <2>2
  <2> QED
    BY <1>1, <2>1, <2>2, <2>3, Sizes
<1>6. PagingTypeOK'
  <2>1. swapEnd' \in 0 .. Cardinality(Slot) /\ swapCounter' \in 0 .. Cardinality(Slot)
    BY <1>1, <1>5, Sizes
  <2>2. mainMemory \in [Frame -> Value] /\ memory \subseteq Frame /\ fifo \in Seq(Program \X Page)
        /\ loaded' \subseteq Program
    BY <1>1, <1>4 DEF PagingTypeOK
  <2> QED
    BY <1>1, <2>1, <2>2 DEF PagingTypeOK, TranslationEntry
<1>7. PagesInMemory'
  <2> SUFFICES ASSUME NEW q \in Program, NEW v \in Page
               PROVE  /\ Translates(q, v)' => /\ q \in loaded'
                                              /\ FrameOf(q, v)' \in memory'
                                              /\ <<q, v>> \in ToSet(fifo')
                      /\ ~ Translates(q, v)' => /\ FrameOf(q, v)' = -1
                                                /\ <<q, v>> \notin ToSet(fifo')
    BY DEF PagesInMemory
  <2>1. /\ Translates(q, v)' <=> Translates(q, v)
        /\ q = p => FrameOf(q, v)' = -1
        /\ q # p => FrameOf(q, v)' = FrameOf(q, v)
    BY <1>2, <1>3
  <2> QED
    BY <1>1, <1>2, <1>4, <2>1 DEF PagesInMemory
<1>8. FramesDiffer'
  BY <1>2, <1>3, <1>4 DEF FramesDiffer
<1>9. FramesUsed'
  BY <1>1, <1>2, <1>3, <1>4 DEF FramesUsed
<1>10. SlotsDiffer'
  <2>1. \A v \in Page : v \in Nat /\ v < NumPages
    BY <1>5 DEF Page
  <2>2. \A q \in loaded, v \in Page : /\ q \in Program /\ q # p
                                      /\ SlotOf(q, v)' < swapCounter
                                      /\ SlotOf(q, v)' = SlotOf(q, v)
    BY <1>1, <1>3, <1>4 DEF SlotsDiffer, PagingTypeOK
  <2>3. \A q \in loaded', v \in Page : SlotOf(q, v)' \in Nat
    <3>1. \A q \in Program, v \in Page : SlotOf(q, v)' \in Slot
      BY <1>1 DEF SlotOf, TranslationEntry
    <3> QED
      BY <1>1, <1>4, <3>1, Sizes DEF PagingTypeOK, Slot
  <2>4. \A q \in loaded', v \in Page : SlotOf(q, v)' < swapCounter'
    BY <1>1, <1>2, <1>5, <2>1, <2>2, <2>3
  <2>5. \A q, r \in loaded', v, w \in Page : SlotOf(q, v)' = SlotOf(r, w)' => q = r /\ v = w
    <3> SUFFICES ASSUME NEW q \in loaded', NEW r \in loaded', NEW v \in Page, NEW w \in Page,
                        SlotOf(q, v)' = SlotOf(r, w)'
                 PROVE  q = r /\ v = w
      OBVIOUS
    <3>1. CASE q = p /\ r = p
      BY <1>2, <1>5, <2>1, <3>1
    <3>2. CASE q = p /\ r \in loaded
      BY <1>2, <1>5, <2>1, <2>2, <2>3, <3>2
    <3>3. CASE q \in loaded /\ r = p
      BY <1>2, <1>5, <2>1, <2>2, <2>3, <3>3
    <3>4. CASE q \in loaded /\ r \in loaded
      BY <1>4, <2>2, <3>4 DEF SlotsDiffer
    <3> QED
      BY <1>1, <3>1, <3>2, <3>3, <3>4
  <2> QED
    BY <1>5, <2>4, <2>5 DEF SlotsDiffer
<1>11. SwapEnds'
  BY <1>1 DEF SwapEnds
<1> QED
  BY <1>1, <1>4, <1>6, <1>7, <1>8, <1>9, <1>10, <1>11 DEF PagingInv

-----------------------------------------------------------------------------
(* The contents of a page are in its frame or in its place in the swap     *)
(* file, wherever that ends.                                               *)
ContentsPlaced ==
  \A p \in Program, v \in Page :
    /\ Translates(p, v) => Contents(p, v) = mainMemory[FrameOf(p, v)]
    /\ ~ Translates(p, v) => Contents(p, v) = swap[SlotOf(p, v)]
    /\ Contents(p, v) \in Value
    /\ SlotOf(p, v) \in Slot
    /\ Translates(p, v) => FrameOf(p, v) \in Frame

LEMMA WhereContentsAre == PagingInv => ContentsPlaced
<1> SUFFICES ASSUME PagingInv, NEW p \in Program, NEW v \in Page
             PROVE  /\ Translates(p, v) => Contents(p, v) = mainMemory[FrameOf(p, v)]
                    /\ ~ Translates(p, v) => Contents(p, v) = swap[SlotOf(p, v)]
                    /\ Contents(p, v) \in Value
                    /\ SlotOf(p, v) \in Slot
                    /\ Translates(p, v) => FrameOf(p, v) \in Frame
  BY DEF ContentsPlaced
<1>1. /\ SlotOf(p, v) \in Slot /\ swap \in [Slot -> Value] /\ mainMemory \in [Frame -> Value]
      /\ swapEnd \in Nat
  BY Sizes DEF PagingInv, PagingTypeOK, SlotOf
<1>2. Translates(p, v) => FrameOf(p, v) \in Frame
  BY DEF PagingInv, PagesInMemory, PagingTypeOK
<1>3. SlotOf(p, v) < swapEnd \/ swap[SlotOf(p, v)] = Zero
  BY <1>1, Sizes DEF PagingInv, SwapEnds, Slot
<1>4. /\ Translates(p, v) => Contents(p, v) = mainMemory[FrameOf(p, v)]
      /\ ~ Translates(p, v) =>
           Contents(p, v) = IF SlotOf(p, v) < swapEnd THEN swap[SlotOf(p, v)] ELSE Zero
  BY DEF Contents, Translates, FrameOf, SlotOf
<1> QED
  BY <1>1, <1>2, <1>3, <1>4

(* Load gives the program the address space that its executable describes, *)
(* and leaves the others alone.                                            *)
LEMMA LoadFillsSpace ==
  ASSUME PagingInv, NEW p \in Program, Load(p)
  PROVE  AddressSpaces' = [AddressSpaces EXCEPT ![p] = Image[p]]
<1>1. /\ p \notin loaded /\ loaded' = loaded \cup {p} /\ mainMemory' = mainMemory
      /\ \A v \in Page : swapCounter + v \in Slot /\ swap'[swapCounter + v] = Image[p][v]
      /\ \A s \in Slot : s < swapCounter => swap'[s] = swap[s]
  BY LoadFacts
<1>2. \A v \in Page : SlotOf(p, v)' = swapCounter + v /\ ~ Translates(p, v)'
  BY LoadFacts
<1>3. \A q \in Program, v \in Page : q # p =>
        /\ Translates(q, v)' = Translates(q, v)
        /\ FrameOf(q, v)' = FrameOf(q, v) /\ SlotOf(q, v)' = SlotOf(q, v)
  BY LoadFacts DEF Translates, FrameOf, SlotOf
<1>4. ContentsPlaced /\ ContentsPlaced'
  BY LoadKeepsInv, WhereContentsAre, PTL
<1>5. [v \in Page |-> Contents(p, v)'] = Image[p]
  <2>1. \A v \in Page : Contents(p, v)' = Image[p][v]
    BY <1>1, <1>2, <1>4 DEF ContentsPlaced
  <2>2. Image[p] \in [Page -> Value]
    BY PagingAssumption
  <2> QED
    BY <2>1, <2>2
<1>6. \A q \in loaded, v \in Page : Contents(q, v)' = Contents(q, v)
  <2> SUFFICES ASSUME NEW q \in loaded, NEW v \in Page PROVE Contents(q, v)' = Contents(q, v)
    OBVIOUS
  <2>1. q \in Program /\ q # p /\ SlotOf(q, v) < swapCounter
    BY <1>1 DEF PagingInv, PagingTypeOK, SlotsDiffer
  <2> QED
    BY <1>1, <1>3, <1>4, <2>1 DEF ContentsPlaced
<1> QED
  BY <1>1, <1>5, <1>6 DEF AddressSpaces

-----------------------------------------------------------------------------
(* Page v of p comes into frame f with its contents, and no page but v and *)
(* those of "leaving" is touched.                                          *)
Comes(p, v, f, leaving) ==
  /\ pageTable' \in PageTables
  /\ \A q \in Program, w \in Page : SlotOf(q, w)' = SlotOf(q, w)
  /\ Translates(p, v)' /\ FrameOf(p, v)' = f
  /\ \A q \in Program, w \in Page : <<q, w>> \notin leaving \cup {<<p, v>>} =>
       Translates(q, w)' = Translates(q, w) /\ FrameOf(q, w)' = FrameOf(q, w)
  /\ mainMemory' = [mainMemory EXCEPT ![f] = Contents(p, v)]
  /\ UNCHANGED <<swapCounter, loaded>>

(* PageReplacement with a free frame.                                      *)
LEMMA FreeFrameFacts ==
  ASSUME PagingInv, NEW p \in loaded, NEW v \in Page, ~ Translates(p, v), UseFreeFrame(p, v)
  PROVE  \E f \in Frame \ memory : /\ memory' = memory \cup {f}
                                   /\ fifo' = Append(fifo, <<p, v>>)
                                   /\ Comes(p, v, f, {})
                                   /\ UNCHANGED <<swap, swapEnd>>
<1> DEFINE f == Min(Frame \ memory)
<1>1. f \in Frame \ memory
  <2>1. memory \subseteq Frame /\ memory # Frame
    BY DEF UseFreeFrame, PagingInv, PagingTypeOK
  <2>2. PICK n \in Nat : n = NumPhysPages - 1
    BY PagingAssumption
  <2>3. Frame \ memory # {} /\ Frame \ memory \subseteq 0 .. n
    BY <2>1, <2>2 DEF Frame
  <2> QED
    BY <2>2, <2>3, MinIsElement
<1>2. /\ memory' = memory \cup {f} /\ UNCHANGED <<swap, swapEnd, swapCounter, loaded>>
      /\ mainMemory' = [mainMemory EXCEPT ![f] = ReadSwap(pageTable[p][v].swapIndex, Zero)]
      /\ pageTable' = WithEntry(pageTable, p, v, TRUE, f)
      /\ fifo' = Append(fifo, <<p, v>>)
  BY DEF UseFreeFrame, PageIn, WithEntry
<1> HIDE DEF f
<1>3. p \in Program /\ pageTable \in PageTables
  BY DEF PagingInv, PagingTypeOK, TranslationEntry, PageTables
<1>4. /\ pageTable' \in PageTables
      /\ pageTable'[p][v].valid = TRUE /\ pageTable'[p][v].physicalPage = f
      /\ pageTable'[p][v].swapIndex = pageTable[p][v].swapIndex
      /\ \A q \in Program, w \in Page : q # p \/ w # v => pageTable'[q][w] = pageTable[q][w]
  <2>1. TRUE \in BOOLEAN /\ f \in Frame \cup {-1}
    BY <1>1
  <2>2. pageTable' \in PageTables /\ EntryIs(pageTable, pageTable', p, v, TRUE, f)
    BY <1>2, <1>3, <2>1, EntryUpdate
  <2> QED
    BY <2>2 DEF EntryIs
<1>5. ReadSwap(pageTable[p][v].swapIndex, Zero) = Contents(p, v)
  BY <1>2 DEF ReadSwap, Contents, Translates
<1>6. Comes(p, v, f, {})
  BY <1>2, <1>4, <1>5 DEF Comes, SlotOf, Translates, FrameOf
<1> QED
  BY <1>1, <1>2, <1>6

(* The oldest page of the queue, when there is no free frame.              *)
LEMMA OldestPage ==
  ASSUME PagingInv, memory = Frame
  PROVE  /\ fifo # <<>> /\ fifo \in Seq(Program \X Page)
         /\ \E r \in Program, x \in Page : Head(fifo) = <<r, x>> /\ Translates(r, x)
<1>1. fifo \in Seq(Program \X Page) /\ PagesInMemory /\ FramesUsed
  BY DEF PagingInv, PagingTypeOK
<1>2. PICK q \in Program, w \in Page : Translates(q, w) /\ FrameOf(q, w) = 0
  BY <1>1, Sizes DEF FramesUsed
<1>3. <<q, w>> \in ToSet(fifo)
  BY <1>1, <1>2 DEF PagesInMemory
<1>4. fifo # <<>>
  BY <1>3, NoElements
<1>5. Head(fifo) \in ToSet(fifo) /\ Head(fifo) \in Program \X Page
  BY <1>1, <1>4, TailSet
<1>6. PICK r \in Program, x \in Page : Head(fifo) = <<r, x>>
  BY <1>5
<1>7. Translates(r, x)
  BY <1>1, <1>5, <1>6 DEF PagesInMemory
<1> QED
  BY <1>1, <1>4, <1>6, <1>7

(* PageReplacement without a free frame: the page that leaves takes what   *)
(* is in its frame to its place in the swap file.                          *)
LEMMA ReplaceFacts ==
  ASSUME PagingInv, NEW p \in loaded, NEW v \in Page, ~ Translates(p, v), ReplaceOldest(p, v)
  PROVE  \E r \in Program, x \in Page :
           /\ Translates(r, x) /\ fifo # <<>> /\ Head(fifo) = <<r, x>>
           /\ ~ Translates(r, x)' /\ FrameOf(r, x)' = -1
           /\ Comes(p, v, FrameOf(r, x), {<<r, x>>})
           /\ fifo' = Append(Tail(fifo), <<p, v>>)
           /\ swap' = [swap EXCEPT ![SlotOf(r, x)] = mainMemory[FrameOf(r, x)]]
           /\ swapEnd <= swapEnd' /\ SlotOf(r, x) < swapEnd' /\ swapEnd' <= swapCounter
           /\ swapEnd' \in Nat /\ memory' = memory
<1>1. PICK r \in Program, x \in Page : Head(fifo) = <<r, x>> /\ Translates(r, x)
  BY OldestPage DEF ReplaceOldest
<1>2. fifo # <<>> /\ p \in Program /\ (r # p \/ x # v)
  BY <1>1, OldestPage DEF ReplaceOldest, PagingInv, PagingTypeOK
<1>3. PICK f \in Frame : f = FrameOf(r, x)
  BY <1>1, WhereContentsAre DEF ContentsPlaced
<1>4. PICK slot \in Slot : slot = SlotOf(r, x)
  BY WhereContentsAre DEF ContentsPlaced
<1> DEFINE leave == WithEntry(pageTable, r, x, FALSE, -1)
<1>5. /\ swap' = [swap EXCEPT ![slot] = mainMemory[f]]
      /\ swapEnd' = Max({swapEnd, slot + 1})
      /\ mainMemory' = [mainMemory EXCEPT ![f] = ReadSwap(pageTable[p][v].swapIndex, Zero)]
      /\ pageTable' = WithEntry(leave, p, v, TRUE, f)
      /\ fifo' = Append(Tail(fifo), <<p, v>>)
      /\ UNCHANGED <<memory, swapCounter, loaded>>
  <2>1. Head(fifo)[1] = r /\ Head(fifo)[2] = x
    BY <1>1
  <2>2. /\ pageTable[Head(fifo)[1]][Head(fifo)[2]].physicalPage = f
        /\ pageTable[Head(fifo)[1]][Head(fifo)[2]].swapIndex = slot
    BY <1>3, <1>4, <2>1 DEF SlotOf, FrameOf
  <2>3. /\ swap' = [swap EXCEPT ![slot] = mainMemory[f]]
        /\ swapEnd' = Max({swapEnd, slot + 1})
        /\ PageIn(p, v, f, leave, Tail(fifo)) /\ memory' = memory
    BY <2>1, <2>2 DEF ReplaceOldest, WithEntry
  <2> QED
    BY <2>3 DEF PageIn, WithEntry
<1>6. pageTable \in PageTables
  BY DEF PagingInv, PagingTypeOK, TranslationEntry, PageTables
<1>7. /\ leave \in PageTables
      /\ leave[r][x].valid = FALSE /\ leave[r][x].physicalPage = -1
      /\ leave[r][x].swapIndex = pageTable[r][x].swapIndex
      /\ \A q \in Program, w \in Page : q # r \/ w # x => leave[q][w] = pageTable[q][w]
  <2>1. FALSE \in BOOLEAN /\ -1 \in Frame \cup {-1}
    OBVIOUS
  <2>2. leave \in PageTables /\ EntryIs(pageTable, leave, r, x, FALSE, -1)
    BY <1>6, <2>1, EntryUpdate
  <2> QED
    BY <2>2 DEF EntryIs
<1> HIDE DEF leave
<1>8. /\ pageTable' \in PageTables
      /\ pageTable'[p][v].valid = TRUE /\ pageTable'[p][v].physicalPage = f
      /\ pageTable'[p][v].swapIndex = leave[p][v].swapIndex
      /\ \A q \in Program, w \in Page : q # p \/ w # v => pageTable'[q][w] = leave[q][w]
  <2>1. TRUE \in BOOLEAN /\ f \in Frame \cup {-1}
    OBVIOUS
  <2>2. pageTable' \in PageTables /\ EntryIs(leave, pageTable', p, v, TRUE, f)
    BY <1>2, <1>5, <1>7, <2>1, EntryUpdate
  <2> QED
    BY <2>2 DEF EntryIs
<1>9. ~ Translates(r, x)' /\ FrameOf(r, x)' = -1
  BY <1>2, <1>7, <1>8 DEF Translates, FrameOf
<1>10. \A q \in Program, w \in Page : SlotOf(q, w)' = SlotOf(q, w)
  <2> SUFFICES ASSUME NEW q \in Program, NEW w \in Page
               PROVE  pageTable'[q][w].swapIndex = pageTable[q][w].swapIndex
    BY DEF SlotOf
  <2>1. pageTable'[q][w].swapIndex = leave[q][w].swapIndex
    BY <1>8
  <2>2. leave[q][w].swapIndex = pageTable[q][w].swapIndex
    BY <1>7
  <2> QED
    BY <2>1, <2>2
<1>11. /\ swapEnd <= swapEnd' /\ slot + 1 <= swapEnd' /\ swapEnd' <= swapCounter
       /\ swapEnd' \in Nat
  <2>1. swapEnd \in 0 .. swapCounter /\ swapCounter \in Nat
    BY Sizes DEF PagingInv, PagingTypeOK, SwapEnds
  <2>2. slot + 1 \in 0 .. swapCounter
    <3>1. slot < swapCounter
      BY <1>1, <1>4 DEF PagingInv, PagesInMemory, SlotsDiffer
    <3>2. slot \in Nat
      BY Sizes DEF Slot
    <3> QED
      BY <2>1, <3>1, <3>2
  <2>3. Max({swapEnd, slot + 1}) \in {swapEnd, slot + 1}
        /\ \A y \in {swapEnd, slot + 1} : y <= Max({swapEnd, slot + 1})
    BY <2>1, <2>2, MaxIsElement
  <2>4. swapEnd' \in 0 .. swapCounter
    BY <1>5, <2>1, <2>2, <2>3
  <2> QED
    BY <1>5, <2>1, <2>3, <2>4
<1>12. ReadSwap(pageTable[p][v].swapIndex, Zero) = Contents(p, v)
  <2>1. SlotOf(p, v) # slot /\ SlotOf(p, v) \in Slot
    BY <1>1, <1>2, <1>4, WhereContentsAre
       DEF PagingInv, PagesInMemory, SlotsDiffer, ContentsPlaced
  <2>2. Contents(p, v) = swap[SlotOf(p, v)]
    BY <1>2, WhereContentsAre DEF ContentsPlaced
  <2>3. swap'[SlotOf(p, v)] = swap[SlotOf(p, v)]
    BY <1>5, <2>1 DEF PagingInv, PagingTypeOK
  <2>4. SlotOf(p, v) < swapEnd' \/ swap[SlotOf(p, v)] = Zero
    <3>1. SlotOf(p, v) \in Nat /\ swapEnd \in Nat
      BY <2>1, Sizes DEF PagingInv, PagingTypeOK, Slot
    <3> QED
      BY <1>11, <2>1, <3>1 DEF PagingInv, SwapEnds
  <2> QED
    BY <2>2, <2>3, <2>4 DEF ReadSwap, SlotOf
<1>13. \A q \in Program, w \in Page : <<q, w>> \notin {<<r, x>>} \cup {<<p, v>>} =>
         pageTable'[q][w] = pageTable[q][w]
  BY <1>7, <1>8
<1>14. Comes(p, v, f, {<<r, x>>})
  BY <1>5, <1>8, <1>10, <1>12, <1>13 DEF Comes, Translates, FrameOf
<1>15. SlotOf(r, x) < swapEnd'
  <2>1. slot \in Nat
    BY Sizes DEF Slot
  <2> QED
    BY <1>4, <1>11, <2>1
<1> QED
  BY <1>1, <1>2, <1>3, <1>4, <1>5, <1>9, <1>11, <1>14, <1>15

(* Either way the invariant holds again.                                   *)
LEMMA FreeFrameKeepsInv ==
  ASSUME PagingInv, NEW p \in loaded, NEW v \in Page, ~ Translates(p, v), UseFreeFrame(p, v)
  PROVE  PagingInv'
<1>1. PICK f \in Frame \ memory : /\ memory' = memory \cup {f}
                                  /\ fifo' = Append(fifo, <<p, v>>)
                                  /\ Comes(p, v, f, {})
                                  /\ UNCHANGED <<swap, swapEnd>>
  BY FreeFrameFacts
<1>2. /\ PagingTypeOK /\ IsInjective(fifo) /\ PagesInMemory /\ FramesDiffer /\ FramesUsed
      /\ SlotsDiffer /\ SwapEnds
  BY DEF PagingInv
<1>3. p \in Program /\ fifo \in Seq(Program \X Page) /\ memory \subseteq Frame
  BY <1>2 DEF PagingTypeOK
<1>4. /\ Translates(p, v)' /\ FrameOf(p, v)' = f
      /\ \A q \in Program, w \in Page : q # p \/ w # v =>
           Translates(q, w)' = Translates(q, w) /\ FrameOf(q, w)' = FrameOf(q, w)
      /\ \A q \in Program, w \in Page : SlotOf(q, w)' = SlotOf(q, w)
      /\ UNCHANGED <<swapCounter, loaded, swap, swapEnd>>
  BY <1>1 DEF Comes
<1>5. /\ fifo' \in Seq(Program \X Page) /\ ToSet(fifo') = ToSet(fifo) \cup {<<p, v>>}
      /\ <<p, v>> \notin ToSet(fifo)
      /\ IsInjective(fifo')
  <2>1. <<p, v>> \notin ToSet(fifo) /\ <<p, v>> \in Program \X Page
    BY <1>2, <1>3 DEF PagesInMemory
  <2> QED
    BY <1>1, <1>2, <1>3, <2>1, AppendSet
<1>6. PagingTypeOK'
  <2>1. mainMemory' \in [Frame -> Value]
    BY <1>1, <1>2, WhereContentsAre, <1>3 DEF Comes, PagingTypeOK, ContentsPlaced
  <2> QED
    BY <1>1, <1>2, <1>4, <1>5, <2>1 DEF PagingTypeOK, Comes, PageTables, TranslationEntry
<1>7. PagesInMemory'
  <2> SUFFICES ASSUME NEW q \in Program, NEW w \in Page
               PROVE  /\ Translates(q, w)' => /\ q \in loaded'
                                              /\ FrameOf(q, w)' \in memory'
                                              /\ <<q, w>> \in ToSet(fifo')
                      /\ ~ Translates(q, w)' => /\ FrameOf(q, w)' = -1
                                                /\ <<q, w>> \notin ToSet(fifo')
    BY DEF PagesInMemory
  <2>1. CASE q = p /\ w = v
    BY <1>1, <1>4, <1>5, <2>1
  <2>2. CASE q # p \/ w # v
    BY <1>1, <1>2, <1>4, <1>5, <2>2 DEF PagesInMemory
  <2> QED
    BY <2>1, <2>2
<1>8. FramesDiffer'
  <2> SUFFICES ASSUME NEW q \in Program, NEW w \in Page, NEW r \in Program, NEW x \in Page,
                      Translates(q, w)', Translates(r, x)', FrameOf(q, w)' = FrameOf(r, x)'
               PROVE  q = r /\ w = x
    BY DEF FramesDiffer
  <2>1. ASSUME NEW s \in Program, NEW y \in Page, s # p \/ y # v, Translates(s, y)'
        PROVE  FrameOf(s, y)' # f
    <3>1. Translates(s, y) /\ FrameOf(s, y)' = FrameOf(s, y)
      BY <1>4, <2>1
    <3>2. FrameOf(s, y) \in memory
      BY <1>2, <3>1 DEF PagesInMemory
    <3> QED
      BY <3>1, <3>2
  <2>2. CASE q = p /\ w = v
    <3>1. FrameOf(r, x)' = f
      BY <1>4, <2>2
    <3> QED
      BY <2>1, <2>2, <3>1
  <2>3. CASE r = p /\ x = v
    <3>1. FrameOf(q, w)' = f
      BY <1>4, <2>3
    <3> QED
      BY <2>1, <2>3, <3>1
  <2>4. CASE (q # p \/ w # v) /\ (r # p \/ x # v)
    <3>1. /\ Translates(q, w) /\ Translates(r, x)
          /\ FrameOf(q, w) = FrameOf(r, x)
      BY <1>4, <2>4
    <3> QED
      BY <1>2, <3>1 DEF FramesDiffer
  <2> QED
    BY <2>2, <2>3, <2>4
<1>9. FramesUsed'
  <2> SUFFICES ASSUME NEW g \in memory'
               PROVE  \E q \in Program, w \in Page : Translates(q, w)' /\ FrameOf(q, w)' = g
    BY DEF FramesUsed
  <2>1. CASE g = f
    BY <1>3, <1>4, <2>1
  <2>2. CASE g \in memory
    <3>1. PICK q \in Program, w \in Page : Translates(q, w) /\ FrameOf(q, w) = g
      BY <1>2, <2>2 DEF FramesUsed
    <3>2. q # p \/ w # v
      BY <3>1
    <3> QED
      BY <1>4, <3>1, <3>2
  <2> QED
    BY <1>1, <2>1, <2>2
<1>10. SlotsDiffer'
  BY <1>2, <1>4 DEF SlotsDiffer, PagingTypeOK
<1>11. SwapEnds'
  BY <1>2, <1>4 DEF SwapEnds
<1> QED
  BY <1>5, <1>6, <1>7, <1>8, <1>9, <1>10, <1>11 DEF PagingInv

LEMMA ReplaceKeepsInv ==
  ASSUME PagingInv, NEW p \in loaded, NEW v \in Page, ~ Translates(p, v), ReplaceOldest(p, v)
  PROVE  PagingInv'
<1>1. PICK r \in Program, x \in Page :
           /\ Translates(r, x) /\ fifo # <<>> /\ Head(fifo) = <<r, x>>
           /\ ~ Translates(r, x)' /\ FrameOf(r, x)' = -1
           /\ Comes(p, v, FrameOf(r, x), {<<r, x>>})
           /\ fifo' = Append(Tail(fifo), <<p, v>>)
           /\ swap' = [swap EXCEPT ![SlotOf(r, x)] = mainMemory[FrameOf(r, x)]]
           /\ swapEnd <= swapEnd' /\ SlotOf(r, x) < swapEnd' /\ swapEnd' <= swapCounter
           /\ swapEnd' \in Nat /\ memory' = memory
  BY ReplaceFacts
<1>2. /\ PagingTypeOK /\ IsInjective(fifo) /\ PagesInMemory /\ FramesDiffer /\ FramesUsed
      /\ SlotsDiffer /\ SwapEnds
  BY DEF PagingInv
<1>3. /\ p \in Program /\ fifo \in Seq(Program \X Page) /\ memory \subseteq Frame
      /\ r # p \/ x # v
  BY <1>1, <1>2 DEF PagingTypeOK
<1>4. PICK f \in memory : f = FrameOf(r, x)
  BY <1>1, <1>2 DEF PagesInMemory
<1>5. /\ Translates(p, v)' /\ FrameOf(p, v)' = f
      /\ \A q \in Program, w \in Page : (q # p \/ w # v) /\ (q # r \/ w # x) =>
           Translates(q, w)' = Translates(q, w) /\ FrameOf(q, w)' = FrameOf(q, w)
      /\ \A q \in Program, w \in Page : SlotOf(q, w)' = SlotOf(q, w)
      /\ UNCHANGED <<swapCounter, loaded>>
  BY <1>1, <1>4 DEF Comes
<1>6. /\ fifo' \in Seq(Program \X Page)
      /\ ToSet(fifo') = (ToSet(fifo) \ {<<r, x>>}) \cup {<<p, v>>}
      /\ <<p, v>> \notin ToSet(fifo)
      /\ IsInjective(fifo')
  <2>1. <<p, v>> \notin ToSet(fifo) /\ <<p, v>> \in Program \X Page
    BY <1>2, <1>3 DEF PagesInMemory
  <2>2. /\ Tail(fifo) \in Seq(Program \X Page) /\ IsInjective(Tail(fifo))
        /\ ToSet(Tail(fifo)) = ToSet(fifo) \ {<<r, x>>}
    BY <1>1, <1>2, <1>3, TailSet
  <2>3. <<p, v>> \notin ToSet(Tail(fifo))
    BY <2>1, <2>2
  <2> QED
    <3>1. PICK rest \in Seq(Program \X Page) : rest = Tail(fifo)
      BY <2>2
    <3>2. fifo' = Append(rest, <<p, v>>) /\ ToSet(rest) = ToSet(fifo) \ {<<r, x>>}
          /\ IsInjective(rest) /\ <<p, v>> \notin ToSet(rest)
      BY <1>1, <2>2, <2>3, <3>1
    <3>3. PICK T : T = Program \X Page
      OBVIOUS
    <3>4. PICK page \in T : page = <<p, v>>
      BY <2>1, <3>3
    <3>5. rest \in Seq(T) /\ IsInjective(rest) /\ page \notin ToSet(rest)
      BY <3>1, <3>2, <3>3, <3>4
    <3>6. /\ Append(rest, page) \in Seq(T) /\ IsInjective(Append(rest, page))
          /\ ToSet(Append(rest, page)) = ToSet(rest) \cup {page}
      BY <3>5, AppendSet
    <3>7. /\ fifo' \in Seq(Program \X Page) /\ IsInjective(fifo')
          /\ ToSet(fifo') = ToSet(rest) \cup {<<p, v>>}
      BY <3>2, <3>3, <3>4, <3>6
    <3> QED
      BY <2>1, <3>2, <3>7
<1>7. PagingTypeOK'
  <2>1. f \in Frame /\ SlotOf(r, x) \in Slot /\ mainMemory \in [Frame -> Value]
    BY <1>2, <1>4, WhereContentsAre DEF ContentsPlaced, PagingTypeOK
  <2>2. mainMemory' \in [Frame -> Value]
    BY <1>1, <1>3, <1>4, <2>1, WhereContentsAre DEF Comes, ContentsPlaced
  <2>3. swap' \in [Slot -> Value]
    BY <1>1, <1>2, <1>4, <2>1 DEF PagingTypeOK
  <2>4. swapEnd' \in 0 .. Cardinality(Slot)
    <3>1. swapCounter \in 0 .. Cardinality(Slot) /\ Cardinality(Slot) \in Nat
      BY <1>2, Sizes DEF PagingTypeOK
    <3> QED
      BY <1>1, <3>1
  <2> QED
    BY <1>1, <1>2, <1>5, <1>6, <2>2, <2>3, <2>4
       DEF PagingTypeOK, Comes, PageTables, TranslationEntry
<1>8. PagesInMemory'
  <2> SUFFICES ASSUME NEW q \in Program, NEW w \in Page
               PROVE  /\ Translates(q, w)' => /\ q \in loaded'
                                              /\ FrameOf(q, w)' \in memory'
                                              /\ <<q, w>> \in ToSet(fifo')
                      /\ ~ Translates(q, w)' => /\ FrameOf(q, w)' = -1
                                                /\ <<q, w>> \notin ToSet(fifo')
    BY DEF PagesInMemory
  <2>1. CASE q = p /\ w = v
    BY <1>1, <1>5, <1>6, <2>1
  <2>2. CASE q = r /\ w = x
    BY <1>1, <1>3, <1>6, <2>2
  <2>3. CASE (q # p \/ w # v) /\ (q # r \/ w # x)
    BY <1>1, <1>2, <1>5, <1>6, <2>3 DEF PagesInMemory
  <2> QED
    BY <2>1, <2>2, <2>3
<1>9. \A q \in Program, w \in Page : Translates(q, w)' =>
        \/ q = p /\ w = v
        \/ /\ q # r \/ w # x
           /\ Translates(q, w) /\ FrameOf(q, w)' = FrameOf(q, w) /\ FrameOf(q, w) # f
  BY <1>1, <1>2, <1>4, <1>5 DEF FramesDiffer
<1>10. FramesDiffer'
  <2> SUFFICES ASSUME NEW q \in Program, NEW w \in Page, NEW s \in Program, NEW y \in Page,
                      Translates(q, w)', Translates(s, y)', FrameOf(q, w)' = FrameOf(s, y)'
               PROVE  q = s /\ w = y
    BY DEF FramesDiffer
  <2> QED
    BY <1>2, <1>5, <1>9 DEF FramesDiffer
<1>11. FramesUsed'
  <2> SUFFICES ASSUME NEW g \in memory
               PROVE  \E q \in Program, w \in Page : Translates(q, w)' /\ FrameOf(q, w)' = g
    BY <1>1 DEF FramesUsed
  <2>1. CASE g = f
    BY <1>3, <1>5, <2>1
  <2>2. CASE g # f
    <3>1. PICK q \in Program, w \in Page : Translates(q, w) /\ FrameOf(q, w) = g
      BY <1>2 DEF FramesUsed
    <3>2. (q # p \/ w # v) /\ (q # r \/ w # x)
      BY <1>4, <2>2, <3>1
    <3> QED
      BY <1>5, <3>1, <3>2
  <2> QED
    BY <2>1, <2>2
<1>12. SlotsDiffer'
  BY <1>2, <1>5 DEF SlotsDiffer, PagingTypeOK
<1>13. SwapEnds'
  <2> SUFFICES ASSUME NEW s \in Slot, s >= swapEnd' PROVE swap'[s] = Zero
    BY <1>1, <1>5 DEF SwapEnds
  <2>1. s \in Nat /\ swapEnd \in Nat /\ swap \in [Slot -> Value] /\ SlotOf(r, x) \in Nat
    BY <1>2, Sizes, WhereContentsAre DEF Slot, PagingTypeOK, ContentsPlaced
  <2>2. s # SlotOf(r, x) /\ s >= swapEnd
    BY <1>1, <2>1
  <2> QED
    BY <1>1, <1>2, <2>1, <2>2 DEF SwapEnds
<1> QED
  BY <1>6, <1>7, <1>8, <1>10, <1>11, <1>12, <1>13 DEF PagingInv

LEMMA ReplacementKeepsInv ==
  ASSUME PagingInv, NEW p \in loaded, NEW v \in Page, ~ Translates(p, v), PageReplacement(p, v)
  PROVE  PagingInv'
BY FreeFrameKeepsInv, ReplaceKeepsInv DEF PageReplacement

(* No program sees a page fault: what its pages hold, wherever they are,   *)
(* stays the same; and the page that was missed is in memory.              *)
LEMMA ReplacementHidden ==
  ASSUME PagingInv, NEW p \in loaded, NEW v \in Page, ~ Translates(p, v), PageReplacement(p, v)
  PROVE  /\ AddressSpaces' = AddressSpaces /\ loaded' = loaded
         /\ Translates(p, v)' /\ mainMemory'[FrameOf(p, v)'] = Contents(p, v)
<1>1. ContentsPlaced /\ ContentsPlaced'
  BY ReplacementKeepsInv, WhereContentsAre, PTL
<1>2. /\ PagingTypeOK /\ PagesInMemory /\ FramesDiffer /\ SlotsDiffer
  BY DEF PagingInv
<1>3. p \in Program /\ mainMemory \in [Frame -> Value] /\ swap \in [Slot -> Value]
  BY <1>2 DEF PagingTypeOK
<1>4. CASE UseFreeFrame(p, v)
  <2>1. PICK f \in Frame \ memory : /\ Comes(p, v, f, {})
                                    /\ UNCHANGED <<swap, swapEnd>>
    BY <1>4, FreeFrameFacts
  <2>2. /\ loaded' = loaded /\ Translates(p, v)' /\ FrameOf(p, v)' = f
        /\ mainMemory' = [mainMemory EXCEPT ![f] = Contents(p, v)]
        /\ mainMemory'[f] = Contents(p, v)
    BY <1>3, <2>1 DEF Comes
  <2>3. \A q \in Program, w \in Page : Contents(q, w)' = Contents(q, w)
    <3> SUFFICES ASSUME NEW q \in Program, NEW w \in Page
                 PROVE  Contents(q, w)' = Contents(q, w)
      OBVIOUS
    <3>1. CASE q = p /\ w = v
      BY <1>1, <1>3, <2>2, <3>1 DEF ContentsPlaced
    <3>2. CASE q # p \/ w # v
      <4>1. /\ Translates(q, w)' = Translates(q, w) /\ FrameOf(q, w)' = FrameOf(q, w)
            /\ SlotOf(q, w)' = SlotOf(q, w) /\ swap' = swap
        BY <2>1, <3>2 DEF Comes
      <4>2. Translates(q, w) => mainMemory'[FrameOf(q, w)] = mainMemory[FrameOf(q, w)]
        BY <1>1, <1>2, <1>3, <2>2 DEF PagesInMemory, ContentsPlaced
      <4> QED
        BY <1>1, <4>1, <4>2 DEF ContentsPlaced
    <3> QED
      BY <3>1, <3>2
  <2> QED
    BY <2>2, <2>3 DEF AddressSpaces
<1>5. CASE ReplaceOldest(p, v)
  <2>1. PICK r \in Program, x \in Page :
           /\ Translates(r, x) /\ fifo # <<>> /\ Head(fifo) = <<r, x>>
           /\ ~ Translates(r, x)' /\ FrameOf(r, x)' = -1
           /\ Comes(p, v, FrameOf(r, x), {<<r, x>>})
           /\ fifo' = Append(Tail(fifo), <<p, v>>)
           /\ swap' = [swap EXCEPT ![SlotOf(r, x)] = mainMemory[FrameOf(r, x)]]
           /\ swapEnd <= swapEnd' /\ SlotOf(r, x) < swapEnd' /\ swapEnd' <= swapCounter
           /\ swapEnd' \in Nat /\ memory' = memory
    BY <1>5, ReplaceFacts
  <2>2. PICK f \in Frame, s \in Slot : f = FrameOf(r, x) /\ s = SlotOf(r, x)
    BY <1>1, <2>1 DEF ContentsPlaced
  <2>3. /\ loaded' = loaded /\ Translates(p, v)' /\ FrameOf(p, v)' = f
        /\ mainMemory' = [mainMemory EXCEPT ![f] = Contents(p, v)]
        /\ mainMemory'[f] = Contents(p, v)
        /\ swap' = [swap EXCEPT ![s] = mainMemory[f]] /\ swap'[s] = mainMemory[f]
        /\ \A q \in Program, w \in Page : SlotOf(q, w)' = SlotOf(q, w)
    BY <1>3, <2>1, <2>2 DEF Comes
  <2>4. \A q \in loaded, w \in Page : Contents(q, w)' = Contents(q, w)
    <3> SUFFICES ASSUME NEW q \in loaded, NEW w \in Page
                 PROVE  Contents(q, w)' = Contents(q, w)
      OBVIOUS
    <3>0. q \in Program /\ r \in loaded
      BY <1>2, <2>1 DEF PagingTypeOK, PagesInMemory
    <3>1. CASE q = p /\ w = v
      BY <1>1, <1>3, <2>3, <3>1 DEF ContentsPlaced
    <3>2. CASE q = r /\ w = x
      BY <1>1, <2>1, <2>2, <2>3, <3>2 DEF ContentsPlaced
    <3>3. CASE (q # p \/ w # v) /\ (q # r \/ w # x)
      <4>1. /\ Translates(q, w)' = Translates(q, w) /\ FrameOf(q, w)' = FrameOf(q, w)
            /\ SlotOf(q, w)' = SlotOf(q, w)
        BY <2>1, <3>0, <3>3 DEF Comes
      <4>2. Translates(q, w) => mainMemory'[FrameOf(q, w)] = mainMemory[FrameOf(q, w)]
        <5>1. Translates(q, w) => FrameOf(q, w) \in Frame /\ FrameOf(q, w) # f
          BY <1>1, <1>2, <2>1, <2>2, <3>0, <3>3 DEF FramesDiffer, ContentsPlaced
        <5> QED
          BY <1>3, <2>3, <5>1
      <4>3. swap'[SlotOf(q, w)] = swap[SlotOf(q, w)]
        <5>1. SlotOf(q, w) \in Slot /\ SlotOf(q, w) # s
          BY <1>1, <1>2, <2>2, <3>0, <3>3 DEF SlotsDiffer, ContentsPlaced
        <5> QED
          BY <1>3, <2>3, <5>1
      <4> QED
        BY <1>1, <3>0, <4>1, <4>2, <4>3 DEF ContentsPlaced
    <3> QED
      BY <3>1, <3>2, <3>3
  <2> QED
    BY <2>3, <2>4 DEF AddressSpaces
<1> QED
  BY <1>4, <1>5 DEF PageReplacement

(* A store in a page that is in memory changes that page of that program,  *)
(* and nothing else.                                                       *)
LEMMA StoreFacts ==
  ASSUME PagingInv, NEW p \in loaded, NEW v \in Page, NEW x \in Value,
         Translates(p, v), WriteMem(p, v, x)
  PROVE  /\ PagingInv'
         /\ AddressSpaces' = [AddressSpaces EXCEPT ![p][v] = x]
<1>1. /\ PagingTypeOK /\ IsInjective(fifo) /\ PagesInMemory /\ FramesDiffer /\ FramesUsed
      /\ SlotsDiffer /\ SwapEnds
  BY DEF PagingInv
<1>2. p \in Program /\ mainMemory \in [Frame -> Value] /\ loaded \subseteq Program
  BY <1>1 DEF PagingTypeOK
<1>3. PICK f \in Frame : f = FrameOf(p, v)
  BY <1>2, WhereContentsAre DEF ContentsPlaced
<1>4. /\ mainMemory' = [mainMemory EXCEPT ![f] = x]
      /\ UNCHANGED <<memory, fifo, swap, swapEnd, swapCounter, loaded, pageTable>>
  BY <1>3 DEF WriteMem
<1>5. mainMemory' \in [Frame -> Value]
  BY <1>2, <1>4
<1>6. PagingInv'
  <2>1. PagingTypeOK'
    BY <1>1, <1>4, <1>5 DEF PagingTypeOK
  <2>2. PagesInMemory' /\ FramesDiffer' /\ FramesUsed'
    BY <1>1, <1>4 DEF PagesInMemory, FramesDiffer, FramesUsed, Translates, FrameOf
  <2>3. SlotsDiffer' /\ SwapEnds'
    BY <1>1, <1>4 DEF SlotsDiffer, SwapEnds, SlotOf
  <2> QED
    BY <1>1, <1>4, <2>1, <2>2, <2>3 DEF PagingInv
<1>7. ContentsPlaced /\ ContentsPlaced'
  BY <1>6, WhereContentsAre, PTL
<1>8. \A q \in Program, w \in Page :
        /\ Translates(q, w)' = Translates(q, w) /\ FrameOf(q, w)' = FrameOf(q, w)
        /\ SlotOf(q, w)' = SlotOf(q, w)
  BY <1>4 DEF Translates, FrameOf, SlotOf
<1>9. Contents(p, v)' = x
  BY <1>2, <1>3, <1>4, <1>7, <1>8 DEF ContentsPlaced
<1>10. \A q \in Program, w \in Page : q # p \/ w # v => Contents(q, w)' = Contents(q, w)
  <2> SUFFICES ASSUME NEW q \in Program, NEW w \in Page, q # p \/ w # v
               PROVE  Contents(q, w)' = Contents(q, w)
    OBVIOUS
  <2>1. Translates(q, w) => FrameOf(q, w) \in Frame /\ FrameOf(q, w) # f
    BY <1>1, <1>2, <1>3, <1>7 DEF FramesDiffer, ContentsPlaced
  <2> QED
    BY <1>2, <1>4, <1>7, <1>8, <2>1 DEF ContentsPlaced
<1>11. AddressSpaces[p] = [w \in Page |-> Contents(p, w)]
  BY <1>2 DEF AddressSpaces
<1>12. AddressSpaces'[p] = [AddressSpaces[p] EXCEPT ![v] = x]
  <2>1. AddressSpaces'[p] = [w \in Page |-> Contents(p, w)']
    BY <1>2, <1>4 DEF AddressSpaces
  <2> QED
    BY <1>2, <1>9, <1>10, <1>11, <2>1
<1>13. \A q \in Program : q # p => AddressSpaces'[q] = AddressSpaces[q]
  BY <1>2, <1>4, <1>10 DEF AddressSpaces
<1>14. /\ AddressSpaces = [q \in Program |-> AddressSpaces[q]]
       /\ AddressSpaces' = [q \in Program |-> AddressSpaces'[q]]
  BY DEF AddressSpaces
<1> QED
  BY <1>2, <1>6, <1>12, <1>13, <1>14

(* The counts of FramesOwned follow: the queue has no duplicates, and      *)
(* FrameOfEntry is one-to-one from the pages in memory onto the bitmap.    *)
LEMMA FramesAreOwned == PagingInv => FramesOwned
<1> SUFFICES ASSUME PagingInv PROVE FramesOwned
  OBVIOUS
<1>1. /\ fifo \in Seq(Entry) /\ IsInjective(fifo) /\ PagesInMemory /\ FramesDiffer /\ FramesUsed
      /\ SlotsDiffer /\ loaded \subseteq Program
  BY DEF PagingInv, PagingTypeOK, Entry
<1>2. \A e \in Entry : e[1] \in Program /\ e[2] \in Page /\ e = <<e[1], e[2]>>
  BY DEF Entry
<1>3. \A e \in Entry : /\ e \in InMemory <=> Translates(e[1], e[2])
                       /\ e \in ToSet(fifo) <=> Translates(e[1], e[2])
  BY <1>1, <1>2 DEF InMemory, Translates, PagesInMemory
<1>4. ToSet(fifo) = InMemory
  <2>1. ToSet(fifo) \subseteq Entry /\ InMemory \subseteq Entry
    BY <1>1, SeqFacts DEF InMemory
  <2> QED
    BY <1>3, <2>1
<1>5. Len(fifo) = Cardinality(InMemory) /\ IsFiniteSet(InMemory)
  BY <1>1, <1>4, InjectiveLength
<1>6. {FrameOfEntry(e) : e \in InMemory} = memory
  <2>1. ASSUME NEW e \in InMemory PROVE FrameOfEntry(e) \in memory
    BY <1>1, <1>2, <1>3 DEF InMemory, PagesInMemory, FrameOfEntry
  <2>2. ASSUME NEW f \in memory PROVE \E e \in InMemory : FrameOfEntry(e) = f
    <3>1. PICK p \in Program, v \in Page : Translates(p, v) /\ FrameOf(p, v) = f
      BY <1>1 DEF FramesUsed
    <3>2. <<p, v>> \in Entry /\ <<p, v>>[1] = p /\ <<p, v>>[2] = v
      BY DEF Entry
    <3> QED
      BY <1>3, <3>1, <3>2 DEF FrameOfEntry
  <2> QED
    BY <2>1, <2>2
<1>7. Cardinality(InMemory) = Cardinality(memory)
  <2> DEFINE F == [e \in InMemory |-> FrameOfEntry(e)]
  <2>1. F \in [InMemory -> memory] /\ \A f \in memory : \E e \in InMemory : F[e] = f
    BY <1>6
  <2>2. \A d, e \in InMemory : F[d] = F[e] => d = e
    <3> SUFFICES ASSUME NEW d \in InMemory, NEW e \in InMemory, F[d] = F[e] PROVE d = e
      OBVIOUS
    <3>1. d \in Entry /\ e \in Entry /\ FrameOf(d[1], d[2]) = FrameOf(e[1], e[2])
      BY DEF InMemory, FrameOfEntry
    <3>2. d[1] = e[1] /\ d[2] = e[2]
      BY <1>1, <1>2, <1>3, <3>1 DEF FramesDiffer
    <3> QED
      BY <1>2, <3>1, <3>2
  <2> HIDE DEF F
  <2>3. F \in Surjection(InMemory, memory)
    BY <2>1, Fun_IsSurj
  <2>4. F \in Injection(InMemory, memory)
    BY <2>1, <2>2 DEF Injection, IsInjective
  <2> QED
    BY <1>5, <2>3, <2>4, FS_Surjection
<1>8. \A e \in Entry \ InMemory : FrameOfEntry(e) = -1
  BY <1>1, <1>2, <1>3 DEF FrameOfEntry, PagesInMemory
<1>9. \A d, e \in loaded \X Page :
        pageTable[d[1]][d[2]].swapIndex = pageTable[e[1]][e[2]].swapIndex => d = e
  <2> SUFFICES ASSUME NEW d \in loaded \X Page, NEW e \in loaded \X Page,
                      SlotOf(d[1], d[2]) = SlotOf(e[1], e[2])
               PROVE  d = e
    BY DEF SlotOf
  <2>1. d[1] = e[1] /\ d[2] = e[2]
    BY <1>1 DEF SlotsDiffer
  <2> QED
    BY <2>1
<1> QED
  BY <1>4, <1>5, <1>6, <1>7, <1>8, <1>9 DEF FramesOwned

(* What happens outside Paging does not matter to it.                      *)
LEMMA PagingStutters ==
  ASSUME PagingInv, UNCHANGED paging
  PROVE  /\ PagingInv' /\ loaded' = loaded /\ mainMemory' = mainMemory
         /\ AddressSpaces' = AddressSpaces
<1>1. UNCHANGED <<mainMemory, memory, fifo, swap, swapEnd, swapCounter, loaded, pageTable>>
  BY DEF paging
<1>2. PagingInv'
  BY <1>1 DEF PagingInv, PagingTypeOK, PagesInMemory, FramesDiffer, FramesUsed,
              SlotsDiffer, SwapEnds, Translates, FrameOf, SlotOf
<1>3. AddressSpaces' = AddressSpaces
  BY <1>1 DEF AddressSpaces, Contents
<1> QED
  BY <1>1, <1>2, <1>3

-----------------------------------------------------------------------------

(* The page table of the machine is the one of the program that runs: what *)
(* Dispatch restores.                                                      *)
TableIsCurrent == current \in loaded => table = current

(* A thread waits for one pid: it sleeps meanwhile.                        *)
WaitsOnce ==
  \A q, r \in Pid : waiting[q] = waiting[r] /\ waiting[q] \in Program => q = r

(* Who waits sleeps; what was never set is where nobody cleared it.        *)
WaiterSleeps(q) ==
  /\ waiting[q] \in Program => q \in occupied /\ waiting[q] \notin Ready \cup {current}
  /\ waiting[q] = Wild => q >= Cleared

(* The pids in use, and the entries of waiting_list.                       *)
PidsOK ==
  /\ occupied = {q \in Pid : q \in Ready \cup {current}}
  /\ current \notin Ready
  /\ \A q \in Pid : WaiterSleeps(q)
  /\ machine = "wild" => Cleared < MaxThreads

UserInv ==
  /\ TypeOK
  /\ PagingInv
  /\ TableIsCurrent
  /\ PidsOK
  /\ WaitsOnce

(* The part of TypeOK and of PidsOK that is about the         *)
(* processor and the list of ready threads.                                *)
SchedOK ==
  /\ current \in Thread \cup {NoThread}
  /\ readyList \in Seq(Thread) /\ IsInjective(readyList)
  /\ table \in Program \cup {NoThread}
  /\ slice \in 0 .. Quantum
  /\ current \notin Ready
  /\ TableIsCurrent

(* A dispatch takes the first thread of the list for the processor, with   *)
(* its page table.                                                         *)
LEMMA DispatchFacts ==
  ASSUME UserInv, NEW list \in Seq(Thread), IsInjective(list), Dispatch(list),
         loaded' = loaded
  PROVE  /\ SchedOK'
         /\ \A t \in Thread : t \in Ready' \cup {current'} <=> t \in ToSet(list)
<1>1. /\ table \in Program \cup {NoThread} /\ loaded \subseteq Program
      /\ NoThread \notin Thread /\ Quantum \in Nat /\ Program \subseteq Thread
  BY UserProgAssumption DEF UserInv, TypeOK, PagingTypeOK, Thread
<1>2. CASE list = <<>>
  <2>1. current' = NoThread /\ readyList' = <<>> /\ slice' = 0 /\ table' = table
    BY <1>2 DEF Dispatch
  <2>2. ToSet(list) = {} /\ ToSet(readyList') = {} /\ IsInjective(readyList')
    BY <1>2, <2>1, NoElements
  <2> QED
    BY <1>1, <2>1, <2>2 DEF SchedOK, TableIsCurrent, Ready
<1>3. CASE list # <<>>
  <2>1. /\ current' = Head(list) /\ readyList' = Tail(list) /\ slice' = 0
        /\ table' = IF Head(list) \in loaded THEN Head(list) ELSE table
    BY <1>3 DEF Dispatch
  <2>2. /\ Head(list) \in Thread /\ Tail(list) \in Seq(Thread) /\ IsInjective(Tail(list))
        /\ ToSet(list) = ToSet(Tail(list)) \cup {Head(list)}
        /\ Head(list) \notin ToSet(Tail(list))
    BY <1>3, TailSet
  <2> QED
    BY <1>1, <2>1, <2>2 DEF SchedOK, TableIsCurrent, Ready
<1> QED
  BY <1>2, <1>3

(* A tick changes nothing of this but the slice.                           *)
LEMMA TickFacts ==
  ASSUME UserInv, slice' = IF slice < Quantum THEN slice + 1 ELSE slice,
         UNCHANGED <<current, readyList, table, loaded>>
  PROVE  SchedOK' /\ Ready' = Ready
<1>1. slice' \in 0 .. Quantum
  BY UserProgAssumption DEF UserInv, TypeOK
<1> QED
  BY <1>1 DEF UserInv, TypeOK, SchedOK, TableIsCurrent, PidsOK, Ready

(* A program that runs has its page table in the machine.                  *)
LEMMA RunsFacts ==
  ASSUME UserInv, NEW p \in Program, NEW i \in Instr, Runs(p, i)
  PROVE  /\ p \in loaded /\ table = p /\ current = p
         /\ i.fetch \in Page /\ i.page \in Page /\ i.arg \in Value \cup Pid
         /\ Unfetched(i.fetch) \in {Unfetched(c) : c \in Code}
         /\ i.op = "store" => i.arg \in Value
         /\ i.op = "wait" => i.arg \in Pid
<1>1. p \in loaded /\ current = p /\ table = p
  BY DEF Runs, UserInv, TableIsCurrent
<1>2. Code \subseteq Page /\ 0 \in Page /\ Zero \in Value
  BY UserProgAssumption, PagingAssumption, Sizes
<1>3. i.fetch \in Code /\ i.page \in Page /\ i.arg \in Value \cup Pid
      /\ (i.op = "store" => i.arg \in Value) /\ (i.op = "wait" => i.arg \in Pid)
  BY <1>2 DEF Instr
<1> QED
  BY <1>1, <1>2, <1>3

(* What a step has to keep, when no pid is taken, given back or waited for.*)
LEMMA SamePids ==
  ASSUME UserInv, SchedOK', PagingInv', UNCHANGED <<pid, occupied, waiting>>,
         pending' \in [Program -> Instr \cup {NoInstr} \cup {Unfetched(c) : c \in Code}],
         seen' \in Value, machine' \in {machine, "hung"},
         \A t \in Thread : t \in Ready' \cup {current'} <=> t \in Ready \cup {current}
  PROVE  UserInv'
<1>1. TypeOK'
  BY DEF UserInv, TypeOK, SchedOK, PagingInv
<1>2. PidsOK'
  <2>1. /\ occupied = {q \in Pid : q \in Ready \cup {current}}
        /\ \A q \in Pid : WaiterSleeps(q)
        /\ Pid \subseteq Thread /\ waiting \in [Pid -> Program \cup {NoThread, Wild}]
        /\ Program \subseteq Thread
    BY DEF UserInv, PidsOK, Thread, TypeOK
  <2>2. occupied' = {q \in Pid : q \in Ready' \cup {current'}}
    BY <2>1
  <2>3. \A q \in Pid : WaiterSleeps(q)'
    BY <2>1 DEF WaiterSleeps
  <2> QED
    BY <2>2, <2>3 DEF SchedOK, PidsOK, UserInv
<1>3. WaitsOnce'
  BY DEF UserInv, WaitsOnce
<1> QED
  BY <1>1, <1>2, <1>3 DEF UserInv, SchedOK

(* At the start the first program runs and the others are ready.           *)
LEMMA UserInvInit == Init => UserInv
<1> SUFFICES ASSUME Init PROVE UserInv
  OBVIOUS
<1>1. PICK order \in SetToSeqs(Program) : current = Head(order) /\ readyList = Tail(order)
  BY DEF Init
<1>2. /\ order \in Seq(Thread) /\ order # <<>> /\ IsInjective(order) /\ ToSet(order) \subseteq Program
  <2> DEFINE n == Cardinality(Program)
  <2>1. n \in Nat \ {0}
    BY Sizes
  <2>2. order \in [1 .. n -> Program] /\ \A i, j \in 1 .. n : i # j => order[i] # order[j]
    BY <1>1 DEF SetToSeqs
  <2> HIDE DEF n
  <2>3. order \in Seq(Program) /\ Len(order) = n /\ DOMAIN order = 1 .. n
    BY <2>1, <2>2
  <2>4. IsInjective(order)
    BY <2>2, <2>3 DEF IsInjective
  <2>5. order # <<>> /\ ToSet(order) \subseteq Program
    BY <2>1, <2>3, SeqFacts
  <2>6. order \in Seq(Thread)
    BY <2>3 DEF Thread
  <2> QED
    BY <2>4, <2>5, <2>6
<1>3. /\ current \in Thread /\ readyList \in Seq(Thread) /\ IsInjective(readyList)
      /\ ToSet(order) = Ready \cup {current} /\ current \notin Ready
  BY <1>1, <1>2, TailSet DEF Ready
<1>4. /\ pid \in 0 .. MaxThreads /\ slice \in 0 .. Quantum /\ seen \in Value
      /\ Program \cap Pid = {}
  BY UserProgAssumption, PagingAssumption DEF Init
<1>5. PagingInv
  BY PagingInvInit DEF Init
<1>w. PICK stale \in SUBSET (Cleared .. MaxThreads - 1) :
        waiting = [q \in Pid |-> IF q \in stale THEN Wild ELSE NoThread]
  BY DEF Init
<1>v. /\ waiting \in [Pid -> Program \cup {NoThread, Wild}]
      /\ \A q \in Pid : waiting[q] \notin Program /\ (waiting[q] = Wild => q >= Cleared)
  BY <1>w, UserProgAssumption DEF Thread, Pid
<1>6. TypeOK
  BY <1>3, <1>4, <1>5, <1>v DEF Init, TypeOK, PagingInv
<1>7. TableIsCurrent
  BY DEF Init, PagingInit, TableIsCurrent
<1>8. PidsOK
  BY <1>2, <1>3, <1>4, <1>v DEF Init, PidsOK, WaiterSleeps
<1>9. WaitsOnce
  BY <1>v DEF WaitsOnce
<1> QED
  BY <1>5, <1>6, <1>7, <1>8, <1>9 DEF UserInv

(* A program starts and is loaded.                                         *)
LEMMA StartStep ==
  ASSUME UserInv, NEW p \in Program, Start(p)
  PROVE  UserInv'
<1>1. /\ current = p /\ Load(p) /\ table' = p /\ loaded' = loaded \cup {p}
      /\ UNCHANGED <<current, readyList, slice, pid, occupied, waiting, pending, seen, machine>>
  BY DEF Start, pids, Load
<1>2. PagingInv'
  BY <1>1, LoadKeepsInv DEF UserInv
<1>3. SchedOK' /\ Ready' = Ready
  BY <1>1 DEF UserInv, SchedOK, TypeOK, PidsOK, TableIsCurrent, Ready
<1> QED
  BY <1>1, <1>2, <1>3, SamePids DEF UserInv, TypeOK

(* An instruction faults, and its page comes into memory.                  *)
LEMMA PageFaultStep ==
  ASSUME UserInv, NEW p \in Program, PageFault(p)
  PROVE  UserInv'
<1>1. PICK i \in Instr :
        /\ Runs(p, i)
        /\ \/ /\ ~ Translates(table, i.fetch)
              /\ PageReplacement(table, i.fetch)
              /\ pending' = [pending EXCEPT ![p] = Unfetched(i.fetch)]
           \/ /\ Translates(table, i.fetch)
              /\ UsesPage(i) /\ ~ Translates(table, i.page)
              /\ PageReplacement(table, i.page)
              /\ pending' = [pending EXCEPT ![p] = i]
  BY DEF PageFault
<1>2. /\ p \in loaded /\ table = p /\ i.fetch \in Page /\ i.page \in Page
      /\ Unfetched(i.fetch) \in {Unfetched(c) : c \in Code}
  BY <1>1, RunsFacts
<1>3. PICK v \in Page : ~ Translates(p, v) /\ PageReplacement(p, v)
  BY <1>1, <1>2
<1>4. PagingInv' /\ loaded' = loaded
  BY <1>2, <1>3, ReplacementKeepsInv, ReplacementHidden DEF UserInv
<1>5. /\ UNCHANGED <<current, readyList, table, pid, occupied, waiting, seen, machine>>
      /\ slice' = IF slice < Quantum THEN slice + 1 ELSE slice
  BY DEF PageFault, Tick, pids
<1>6. SchedOK' /\ Ready' = Ready
  BY <1>4, <1>5, TickFacts
<1>7. pending' \in [Program -> Instr \cup {NoInstr} \cup {Unfetched(c) : c \in Code}]
  BY <1>1, <1>2 DEF UserInv, TypeOK
<1> QED
  BY <1>4, <1>5, <1>6, <1>7, SamePids DEF UserInv, TypeOK

(* What completing an instruction leaves pending.                          *)
LEMMA CompletesFacts ==
  ASSUME UserInv, NEW p \in Program, NEW i \in Instr, NEW op, Completes(p, i, op)
  PROVE  /\ Runs(p, i) /\ i.op = op /\ Translates(p, i.fetch)
         /\ UsesPage(i) => Translates(p, i.page)
         /\ p \in loaded /\ table = p /\ current = p /\ i.page \in Page
         /\ pending' \in [Program -> Instr \cup {NoInstr} \cup {Unfetched(c) : c \in Code}]
<1>1. /\ Runs(p, i) /\ i.op = op /\ Translates(table, i.fetch)
      /\ UsesPage(i) => Translates(table, i.page)
      /\ pending' = [pending EXCEPT ![p] = NoInstr]
  BY DEF Completes
<1>2. p \in loaded /\ table = p /\ current = p /\ i.page \in Page
  BY <1>1, RunsFacts
<1> QED
  BY <1>1, <1>2 DEF UserInv, TypeOK

(* A load, or any instruction or system call that changes nothing.         *)
LEMMA LoadWordStep ==
  ASSUME UserInv, NEW p \in Program, LoadWord(p) \/ Add(p)
  PROVE  UserInv'
<1>1. PICK i \in Instr, op \in {"load", "add"} :
        /\ Completes(p, i, op)
        /\ (op = "load" /\ seen' = mainMemory[FrameOf(table, i.page)]) \/ seen' = seen
        /\ slice' = IF slice < Quantum THEN slice + 1 ELSE slice
        /\ UNCHANGED <<paging, current, readyList, table, pid, occupied, waiting, machine>>
  BY DEF LoadWord, Add, Tick, pids
<1>2. /\ i.op = op /\ table = p /\ i.page \in Page
      /\ UsesPage(i) => Translates(p, i.page)
      /\ pending' \in [Program -> Instr \cup {NoInstr} \cup {Unfetched(c) : c \in Code}]
  BY <1>1, CompletesFacts
<1>3. seen' \in Value
  <2>1. CASE op = "load" /\ seen' = mainMemory[FrameOf(table, i.page)]
    <3>1. FrameOf(p, i.page) \in Frame
      BY <1>2, <2>1, WhereContentsAre DEF UsesPage, ContentsPlaced, UserInv
    <3> QED
      BY <1>2, <2>1, <3>1 DEF UserInv, PagingInv, PagingTypeOK
  <2> QED
    BY <1>1, <2>1 DEF UserInv, TypeOK
<1>4. PagingInv' /\ loaded' = loaded
  BY <1>1, PagingStutters DEF UserInv
<1>5. SchedOK' /\ Ready' = Ready
  BY <1>1, <1>4, TickFacts
<1> QED
  BY <1>1, <1>2, <1>3, <1>4, <1>5, SamePids DEF UserInv, TypeOK

(* A store, in a page that is in memory.                                   *)
LEMMA StoreWordStep ==
  ASSUME UserInv, NEW p \in Program, StoreWord(p)
  PROVE  UserInv'
<1>1. PICK i \in Instr : Completes(p, i, "store") /\ WriteMem(table, i.page, i.arg)
  BY DEF StoreWord
<1>2. /\ UNCHANGED <<current, readyList, table, pid, occupied, waiting, seen, machine, loaded>>
      /\ slice' = IF slice < Quantum THEN slice + 1 ELSE slice
  BY DEF StoreWord, Tick, pids, WriteMem
<1>3. /\ i.op = "store" /\ Runs(p, i) /\ table = p /\ p \in loaded /\ i.page \in Page
      /\ UsesPage(i) => Translates(p, i.page)
      /\ pending' \in [Program -> Instr \cup {NoInstr} \cup {Unfetched(c) : c \in Code}]
  BY <1>1, CompletesFacts
<1>4. i.arg \in Value /\ Translates(p, i.page)
  BY <1>3, RunsFacts DEF UsesPage
<1>5. PagingInv'
  BY <1>1, <1>3, <1>4, StoreFacts DEF UserInv
<1>6. SchedOK' /\ Ready' = Ready
  BY <1>2, TickFacts
<1> QED
  BY <1>2, <1>3, <1>5, <1>6, SamePids DEF UserInv, TypeOK

(* The system call Write, with or without a page fault of its own.         *)
LEMMA WriteStep ==
  ASSUME UserInv, NEW p \in Program, Write(p)
  PROVE  UserInv'
<1>1. PICK i \in Instr :
        /\ Completes(p, i, "write")
        /\ \/ /\ Translates(table, i.page)
              /\ UNCHANGED paging
              /\ seen' = mainMemory[FrameOf(table, i.page)]
           \/ /\ ~ Translates(table, i.page)
              /\ PageReplacement(table, i.page)
              /\ seen' = mainMemory'[pageTable'[table][i.page].physicalPage]
  BY DEF Write
<1>2. /\ UNCHANGED <<current, readyList, table, pid, occupied, waiting, machine>>
      /\ slice' = IF slice < Quantum THEN slice + 1 ELSE slice
  BY DEF Write, Tick, pids
<1>3. /\ table = p /\ p \in loaded /\ i.page \in Page
      /\ pending' \in [Program -> Instr \cup {NoInstr} \cup {Unfetched(c) : c \in Code}]
  BY <1>1, CompletesFacts
<1>4. PagingInv /\ ContentsPlaced
  BY WhereContentsAre DEF UserInv
<1>5. PagingInv' /\ loaded' = loaded /\ seen' \in Value
  <2>1. CASE Translates(p, i.page) /\ UNCHANGED paging /\ seen' = mainMemory[FrameOf(p, i.page)]
    <3>1. PagingInv' /\ loaded' = loaded
      BY <1>4, <2>1, PagingStutters
    <3> QED
      BY <1>3, <1>4, <2>1, <3>1 DEF ContentsPlaced, UserInv, TypeOK, PagingTypeOK
  <2>2. CASE /\ ~ Translates(p, i.page) /\ PageReplacement(p, i.page)
             /\ seen' = mainMemory'[FrameOf(p, i.page)']
    <3>1. /\ PagingInv' /\ loaded' = loaded
          /\ mainMemory'[FrameOf(p, i.page)'] = Contents(p, i.page)
      BY <1>3, <1>4, <2>2, ReplacementKeepsInv, ReplacementHidden
    <3> QED
      BY <1>3, <1>4, <2>2, <3>1 DEF ContentsPlaced, UserInv, TypeOK, PagingTypeOK
  <2> QED
    BY <1>1, <1>3, <2>1, <2>2 DEF FrameOf
<1>6. SchedOK' /\ Ready' = Ready
  BY <1>2, <1>5, TickFacts
<1> QED
  BY <1>2, <1>3, <1>5, <1>6, SamePids DEF UserInv, TypeOK

(* The thread gives the processor to the next one: at the end of its time  *)
(* slice it is ready again, after Exit it is not.                          *)
LEMMA PreemptStep ==
  ASSUME UserInv, Preempt
  PROVE  UserInv'
<1>1. /\ current # NoThread /\ Dispatch(Append(readyList, current))
      /\ UNCHANGED <<paging, pid, occupied, waiting, pending, seen, machine>>
  BY DEF Preempt, pids
<1>2. /\ current \in Thread /\ readyList \in Seq(Thread) /\ IsInjective(readyList)
      /\ current \notin ToSet(readyList)
  BY <1>1 DEF UserInv, TypeOK, PidsOK, Ready
<1>3. /\ Append(readyList, current) \in Seq(Thread) /\ IsInjective(Append(readyList, current))
      /\ ToSet(Append(readyList, current)) = Ready \cup {current}
  BY <1>2, AppendSet DEF Ready
<1>4. PagingInv' /\ loaded' = loaded
  BY <1>1, PagingStutters DEF UserInv
<1>5. SchedOK' /\ \A t \in Thread : t \in Ready' \cup {current'} <=> t \in Ready \cup {current}
  BY <1>1, <1>3, <1>4, DispatchFacts
<1> QED
  BY <1>1, <1>4, <1>5, SamePids DEF UserInv, TypeOK

(* What a step has to keep, when threads of some pids come or go.          *)
LEMMA OtherPids ==
  ASSUME UserInv, SchedOK', PagingInv', UNCHANGED seen,
         machine' = machine \/ (machine' = "wild" /\ Cleared < MaxThreads),
         pending' \in [Program -> Instr \cup {NoInstr} \cup {Unfetched(c) : c \in Code}],
         pid' \in 0 .. MaxThreads, waiting' \in [Pid -> Program \cup {NoThread, Wild}],
         occupied' = {q \in Pid : q \in Ready' \cup {current'}},
         \A q \in Pid : WaiterSleeps(q)',
         WaitsOnce'
  PROVE  UserInv'
<1>1. occupied' \subseteq Pid
  OBVIOUS
<1>2. TypeOK'
  BY <1>1 DEF UserInv, TypeOK, SchedOK, PagingInv
<1>3. PidsOK'
  BY DEF SchedOK, PidsOK, UserInv
<1> QED
  BY <1>2, <1>3 DEF UserInv, SchedOK

(* A program is gone for good: nobody's pid, and it waits for none.        *)
LEMMA ExitStep ==
  ASSUME UserInv, NEW p \in Program, Exit(p)
  PROVE  UserInv'
<1>1. PICK i \in Instr : Completes(p, i, "exit")
  BY DEF Exit
<1>2. /\ Dispatch(readyList)
      /\ UNCHANGED <<paging, pid, occupied, waiting, seen, machine>>
  BY DEF Exit, pids
<1>3. /\ current = p
      /\ pending' \in [Program -> Instr \cup {NoInstr} \cup {Unfetched(c) : c \in Code}]
  BY <1>1, CompletesFacts
<1>4. PagingInv' /\ loaded' = loaded
  BY <1>2, PagingStutters DEF UserInv
<1>5. SchedOK' /\ \A t \in Thread : t \in Ready' \cup {current'} <=> t \in Ready
  BY <1>2, <1>4, DispatchFacts DEF UserInv, TypeOK, Ready
<1>6. /\ occupied = {q \in Pid : q \in Ready \cup {current}} /\ Program \cap Pid = {}
      /\ \A q \in Pid : WaiterSleeps(q)
      /\ waiting \in [Pid -> Program \cup {NoThread, Wild}]
  BY UserProgAssumption DEF UserInv, PidsOK, TypeOK
<1>7. occupied' = {q \in Pid : q \in Ready' \cup {current'}}
  BY <1>2, <1>3, <1>5, <1>6 DEF Thread
<1>8. \A q \in Pid : WaiterSleeps(q)'
  BY <1>2, <1>5, <1>6 DEF Thread, WaiterSleeps
<1>9. WaitsOnce'
  BY <1>2 DEF UserInv, WaitsOnce
<1> QED
  BY <1>2, <1>3, <1>4, <1>5, <1>6, <1>7, <1>8, <1>9, OtherPids DEF UserInv, TypeOK

(* Scheduler::NextPid looks at one pid after the other, from its counter   *)
(* on and around: the pid that NextFree names is the first free one it     *)
(* comes to, for any number of pids.                                       *)
THEOREM NextPidCountsUp ==
  ASSUME NEW n \in Nat \ {0}, NEW from \in 0 .. n, NEW free \in SUBSET (0 .. n - 1), free # {}
  PROVE  \E k \in 0 .. n - 1 :
           /\ NextFree(from, free, n) = (from + k) % n
           /\ NextFree(from, free, n) \in free
           /\ \A j \in 0 .. k - 1 : (from + j) % n \notin free
<1> DEFINE ahead == {q \in free : q >= from % n}
           next == NextFree(from, free, n)
<1>1. \A q \in Nat, r \in 0 .. n - 1 : (q * n + r) % n = r
  OBVIOUS
<1>2. \A x \in 0 .. n - 1 : x % n = x /\ (n + x) % n = x
  <2> SUFFICES ASSUME NEW x \in 0 .. n - 1 PROVE x % n = x /\ (n + x) % n = x
    OBVIOUS
  <2>1. 0 * n + x = x /\ 1 * n + x = n + x
    OBVIOUS
  <2>2. (0 * n + x) % n = x /\ (1 * n + x) % n = x
    BY <1>1
  <2> QED
    BY <2>1, <2>2
<1>3. PICK a \in 0 .. n - 1 :
        /\ a = from % n
        /\ \A j \in 0 .. n - 1 : (from + j) % n = IF a + j < n THEN a + j ELSE a + j - n
  <2>1. CASE from < n
    <3>1. ASSUME NEW j \in 0 .. n - 1
          PROVE  (from + j) % n = IF from + j < n THEN from + j ELSE from + j - n
      <4>1. CASE from + j < n
        <5>1. from + j \in 0 .. n - 1
          BY <2>1, <4>1
        <5> QED
          BY <1>2, <4>1, <5>1
      <4>2. CASE ~ (from + j < n)
        <5>1. PICK x \in 0 .. n - 1 : x = from + j - n /\ from + j = n + x
          BY <2>1, <4>2
        <5> QED
          BY <1>2, <4>2, <5>1
      <4> QED
        BY <4>1, <4>2
    <3>2. from \in 0 .. n - 1 /\ from = from % n
      BY <1>2, <2>1
    <3> QED
      BY <3>1, <3>2
  <2>2. CASE from = n
    <3>1. 0 \in 0 .. n - 1 /\ n + 0 = n
      OBVIOUS
    <3>2. 0 = from % n
      BY <1>2, <2>2, <3>1
    <3>3. \A j \in 0 .. n - 1 : (from + j) % n = j /\ 0 + j < n /\ 0 + j = j
      BY <1>2, <2>2
    <3> QED
      BY <3>1, <3>2, <3>3
  <2> QED
    BY <2>1, <2>2
<1>4. ahead = {q \in free : q >= a} /\ next = Min(IF ahead # {} THEN ahead ELSE free)
  BY <1>3 DEF NextFree
<1>5. free \subseteq Nat /\ ahead \subseteq free
  OBVIOUS
<1> HIDE DEF ahead, next
<1>6. CASE ahead # {}
  <2>1. next \in ahead /\ \A y \in ahead : next <= y
    BY <1>4, <1>5, <1>6, MinIsElement
  <2>2. next \in free /\ next \in 0 .. n - 1 /\ a <= next
    BY <1>4, <2>1
  <2>3. PICK k \in 0 .. n - 1 : a + k = next
    <3>1. next - a \in 0 .. n - 1 /\ a + (next - a) = next
      BY <2>2
    <3> QED
      BY <3>1
  <2>4. next = (from + k) % n
    <3>1. a + k < n
      BY <2>2, <2>3
    <3> QED
      BY <1>3, <2>3, <3>1
  <2>5. ASSUME NEW j \in 0 .. k - 1 PROVE (from + j) % n \notin free
    <3>1. j \in 0 .. n - 1 /\ a + j < next /\ a + j < n /\ a + j >= a
      BY <2>2, <2>3
    <3>2. (from + j) % n = a + j
      BY <1>3, <3>1
    <3>3. a + j \notin ahead
      BY <2>1, <2>2, <3>1
    <3> QED
      BY <1>4, <3>1, <3>2, <3>3
  <2> QED
    BY <2>2, <2>4, <2>5 DEF next
<1>7. CASE ahead = {}
  <2>1. next \in free /\ \A y \in free : next <= y
    BY <1>4, <1>5, <1>7, MinIsElement
  <2>2. next \in 0 .. n - 1 /\ next < a /\ \A y \in free : y < a
    BY <1>4, <1>7, <2>1
  <2>3. PICK k \in 0 .. n - 1 : a + k = n + next
    <3>1. n + next - a \in 0 .. n - 1 /\ a + (n + next - a) = n + next
      BY <2>2
    <3> QED
      BY <3>1
  <2>4. next = (from + k) % n
    <3>1. ~ (a + k < n) /\ a + k - n = next
      BY <2>2, <2>3
    <3> QED
      BY <1>3, <3>1
  <2>5. ASSUME NEW j \in 0 .. k - 1 PROVE (from + j) % n \notin free
    <3>1. j \in 0 .. n - 1 /\ a + j < n + next
      BY <2>2, <2>3
    <3>2. CASE a + j < n
      <4>1. (from + j) % n = a + j
        BY <1>3, <3>1, <3>2
      <4>2. ~ (a + j < a)
        BY <3>1
      <4> QED
        BY <2>2, <4>1, <4>2
    <3>3. CASE ~ (a + j < n)
      <4>1. (from + j) % n = a + j - n
        BY <1>3, <3>1, <3>3
      <4>2. ~ (next <= a + j - n)
        BY <2>2, <3>1
      <4> QED
        BY <2>1, <4>1, <4>2
    <3> QED
      BY <3>2, <3>3
  <2> QED
    BY <2>1, <2>4, <2>5 DEF next
<1> QED
  BY <1>6, <1>7

(* NextPid finds a free pid, when there is one.                            *)
LEMMA NextPidIsFree ==
  ASSUME UserInv, occupied # Pid
  PROVE  NextPid \in Pid \ occupied /\ NextPid + 1 \in 0 .. MaxThreads
<1>1. occupied \subseteq Pid /\ MaxThreads \in Nat
  BY UserProgAssumption DEF UserInv, TypeOK
<1> DEFINE free == Pid \ occupied
           ahead == {q \in free : q >= pid % MaxThreads}
<1>2. free # {} /\ free \subseteq Nat /\ ahead \subseteq free
  <2>1. Pid \subseteq Nat
    BY DEF Pid
  <2>2. \E q \in Pid : q \notin occupied
    BY <1>1
  <2> QED
    BY <2>1, <2>2
<1>3. NextPid = Min(IF ahead # {} THEN ahead ELSE free)
  BY DEF NextPid, NextFree
<1> HIDE DEF ahead, free
<1>4. NextPid \in free
  <2>1. CASE ahead # {}
    BY <1>2, <1>3, <2>1, MinIsElement
  <2>2. CASE ahead = {}
    BY <1>2, <1>3, <2>2, MinIsElement
  <2> QED
    BY <2>1, <2>2
<1>5. NextPid + 1 \in 0 .. MaxThreads
  BY <1>1, <1>4 DEF free, Pid
<1> QED
  BY <1>4, <1>5 DEF free

(* Fork_POS adds a thread with a pid of its own.                           *)
LEMMA ForkPOSStep ==
  ASSUME UserInv, NEW p \in Program, ForkPOS(p)
  PROVE  UserInv'
<1>1. PICK i \in Instr :
        /\ Completes(p, i, "fork")
        /\ \/ /\ occupied # Pid
              /\ occupied' = occupied \cup {NextPid}
              /\ pid' = NextPid + 1
              /\ readyList' = Append(readyList, NextPid)
              /\ slice' = IF slice < Quantum THEN slice + 1 ELSE slice
              /\ UNCHANGED <<current, table, machine>>
           \/ /\ occupied = Pid
              /\ machine' = "hung"
              /\ UNCHANGED <<sched, pid, occupied>>
  BY DEF ForkPOS
<1>2. UNCHANGED <<paging, waiting, seen>>
  BY DEF ForkPOS
<1>3. /\ current = p /\ p \in loaded /\ table = p
      /\ pending' \in [Program -> Instr \cup {NoInstr} \cup {Unfetched(c) : c \in Code}]
  BY <1>1, CompletesFacts
<1>4. PagingInv' /\ loaded' = loaded
  BY <1>2, PagingStutters DEF UserInv
<1>5. CASE /\ occupied # Pid
           /\ occupied' = occupied \cup {NextPid}
           /\ pid' = NextPid + 1
           /\ readyList' = Append(readyList, NextPid)
           /\ slice' = IF slice < Quantum THEN slice + 1 ELSE slice
           /\ UNCHANGED <<current, table, machine>>
  <2>1. NextPid \in Pid \ occupied /\ NextPid + 1 \in 0 .. MaxThreads
    BY <1>5, NextPidIsFree
  <2>2. PICK n \in Pid : n = NextPid /\ n \notin occupied
    BY <2>1
  <2>3. /\ occupied = {q \in Pid : q \in Ready \cup {current}} /\ Program \cap Pid = {}
        /\ \A q \in Pid : WaiterSleeps(q)
        /\ waiting \in [Pid -> Program \cup {NoThread, Wild}] /\ current \notin Ready
        /\ readyList \in Seq(Thread) /\ IsInjective(readyList)
    BY UserProgAssumption DEF UserInv, PidsOK, TypeOK
  <2>4. n \in Thread /\ n \notin Ready /\ n # current
    BY <2>2, <2>3 DEF Thread
  <2>5. /\ readyList' \in Seq(Thread) /\ IsInjective(readyList')
        /\ Ready' = Ready \cup {n}
    BY <1>5, <2>2, <2>3, <2>4, AppendSet DEF Ready
  <2>6. slice' \in 0 .. Quantum
    BY <1>5, UserProgAssumption DEF UserInv, TypeOK
  <2>7. SchedOK'
    BY <1>4, <1>5, <2>3, <2>4, <2>5, <2>6 DEF SchedOK, UserInv, TypeOK, TableIsCurrent
  <2>8. occupied' = {q \in Pid : q \in Ready' \cup {current'}}
    BY <1>5, <2>2, <2>3, <2>5
  <2>9. \A q \in Pid : WaiterSleeps(q)'
    BY <1>2, <1>5, <2>2, <2>3, <2>5 DEF WaiterSleeps
  <2>10. WaitsOnce'
    BY <1>2 DEF UserInv, WaitsOnce
  <2> QED
    BY <1>2, <1>3, <1>4, <1>5, <2>1, <2>3, <2>7, <2>8, <2>9, <2>10, OtherPids
<1>6. CASE occupied = Pid /\ machine' = "hung" /\ UNCHANGED <<sched, pid, occupied>>
  <2>1. UNCHANGED <<current, readyList, table, slice>>
    BY <1>6 DEF sched
  <2>2. SchedOK' /\ Ready' = Ready
    BY <1>4, <2>1 DEF UserInv, TypeOK, SchedOK, TableIsCurrent, PidsOK, Ready
  <2> QED
    BY <1>2, <1>3, <1>4, <1>6, <2>1, <2>2, SamePids DEF UserInv, TypeOK
<1> QED
  BY <1>1, <1>5, <1>6

(* Wait_POS takes the program out of the ready threads, when the pid is    *)
(* that of a thread.                                                       *)
LEMMA WaitPOSStep ==
  ASSUME UserInv, NEW p \in Program, WaitPOS(p)
  PROVE  UserInv'
<1>1. PICK i \in Instr :
        /\ Completes(p, i, "wait")
        /\ \/ /\ i.arg \in occupied
              /\ waiting' = [waiting EXCEPT ![i.arg] = p]
              /\ Dispatch(readyList)
           \/ /\ i.arg \notin occupied
              /\ Tick
              /\ UNCHANGED waiting
  BY DEF WaitPOS
<1>2. UNCHANGED <<paging, pid, occupied, seen, machine>>
  BY DEF WaitPOS
<1>3. /\ current = p /\ i.op = "wait" /\ Runs(p, i)
      /\ pending' \in [Program -> Instr \cup {NoInstr} \cup {Unfetched(c) : c \in Code}]
  BY <1>1, CompletesFacts
<1>4. PagingInv' /\ loaded' = loaded
  BY <1>2, PagingStutters DEF UserInv
<1>5. PICK q \in Pid : q = i.arg
  BY <1>3, RunsFacts
<1>6. CASE q \in occupied /\ waiting' = [waiting EXCEPT ![q] = p] /\ Dispatch(readyList)
  <2>1. SchedOK' /\ \A t \in Thread : t \in Ready' \cup {current'} <=> t \in Ready
    BY <1>4, <1>6, DispatchFacts DEF UserInv, TypeOK, Ready
  <2>2. /\ occupied = {r \in Pid : r \in Ready \cup {current}} /\ Program \cap Pid = {}
        /\ \A r \in Pid : WaiterSleeps(r)
        /\ waiting \in [Pid -> Program \cup {NoThread, Wild}]
        /\ current \notin Ready /\ WaitsOnce
    BY UserProgAssumption DEF UserInv, PidsOK, TypeOK
  <2>3. /\ waiting' \in [Pid -> Program \cup {NoThread, Wild}]
        /\ waiting'[q] = p /\ \A r \in Pid : r # q => waiting'[r] = waiting[r]
    BY <1>6, <2>2
  <2>4. occupied' = {r \in Pid : r \in Ready' \cup {current'}}
    BY <1>2, <1>3, <2>1, <2>2 DEF Thread
  <2>5. \A r \in Pid : WaiterSleeps(r)'
    <3>1. p \in Thread /\ p \notin Ready
      BY <1>3, <2>2 DEF Thread
    <3> QED
      BY <1>2, <1>6, <2>1, <2>2, <2>3, <3>1, UserProgAssumption DEF Thread, WaiterSleeps
  <2>6. WaitsOnce'
    <3>1. \A r \in Pid : waiting[r] # p
      BY <1>3, <2>2 DEF WaiterSleeps
    <3> QED
      BY <2>2, <2>3, <3>1 DEF WaitsOnce
  <2> QED
    BY <1>2, <1>3, <1>4, <2>1, <2>3, <2>4, <2>5, <2>6, OtherPids DEF UserInv, TypeOK
<1>7. CASE Tick /\ UNCHANGED waiting
  <2>1. SchedOK' /\ Ready' = Ready /\ current' = current
    BY <1>4, <1>7, TickFacts DEF Tick
  <2> QED
    BY <1>2, <1>3, <1>4, <1>7, <2>1, SamePids DEF UserInv, TypeOK
<1> QED
  BY <1>1, <1>5, <1>6, <1>7

(* Exit_POS gives the pid back and wakes the program that waits for it,    *)
(* which waits for no other.                                               *)
LEMMA ExitPOSStep ==
  ASSUME UserInv, NEW q \in Pid, ExitPOS(q)
  PROVE  UserInv'
<1> DEFINE list == IF waiting[q] = NoThread THEN readyList ELSE Append(readyList, waiting[q])
<1>1. /\ current = q /\ occupied' = occupied \ {q}
      /\ waiting' = [waiting EXCEPT ![q] = NoThread]
      /\ \/ waiting[q] # Wild /\ Dispatch(list) /\ UNCHANGED machine
         \/ /\ waiting[q] = Wild /\ machine' = "wild" /\ current' = NoThread
            /\ UNCHANGED <<readyList, table, slice>>
      /\ UNCHANGED <<paging, pid, pending, seen>>
  BY DEF ExitPOS, WakesUp
<1>2. /\ occupied = {r \in Pid : r \in Ready \cup {current}} /\ Program \cap Pid = {}
      /\ \A r \in Pid : WaiterSleeps(r)
      /\ waiting \in [Pid -> Program \cup {NoThread, Wild}]
      /\ current \notin Ready /\ WaitsOnce
      /\ readyList \in Seq(Thread) /\ IsInjective(readyList)
      /\ table \in Program \cup {NoThread} /\ slice \in 0 .. Quantum
      /\ NoThread \notin Thread /\ Wild \notin Thread \cup {NoThread}
  BY UserProgAssumption DEF UserInv, PidsOK, TypeOK
<1> DEFINE woken == {waiting[q]} \ {NoThread, Wild}
<1>4. PagingInv' /\ loaded' = loaded
  BY <1>1, PagingStutters DEF UserInv
<1>5. SchedOK' /\ \A t \in Thread : t \in Ready' \cup {current'} <=> t \in Ready \cup woken
  <2>1. CASE waiting[q] = Wild
    <3>1. current' = NoThread /\ UNCHANGED <<readyList, table, slice>>
      BY <1>1, <2>1
    <3>2. NoThread \notin Ready /\ NoThread \notin loaded
      <4>1. Ready \subseteq Thread
        BY <1>2, SeqFacts DEF Ready
      <4> QED
        BY <1>2, <4>1 DEF UserInv, TypeOK, PagingTypeOK, Thread
    <3> QED
      BY <1>2, <1>4, <2>1, <3>1, <3>2 DEF SchedOK, TableIsCurrent, Ready
  <2>2. CASE waiting[q] # Wild
    <3>1. list \in Seq(Thread) /\ IsInjective(list) /\ ToSet(list) = Ready \cup woken
      <4>1. CASE waiting[q] = NoThread
        BY <1>2, <4>1 DEF Ready
      <4>2. CASE waiting[q] # NoThread
        <5>1. waiting[q] \in Thread /\ waiting[q] \notin ToSet(readyList)
          BY <1>2, <2>2, <4>2 DEF Thread, Ready, WaiterSleeps
        <5>2. list = Append(readyList, waiting[q])
          BY <4>2
        <5> QED
          BY <1>2, <2>2, <4>2, <5>1, <5>2, AppendSet DEF Ready
      <4> QED
        BY <4>1, <4>2
    <3> HIDE DEF list
    <3> QED
      BY <1>1, <1>4, <2>2, <3>1, DispatchFacts
  <2> QED
    BY <2>1, <2>2
<1>6. /\ waiting' \in [Pid -> Program \cup {NoThread, Wild}]
      /\ waiting'[q] = NoThread /\ \A r \in Pid : r # q => waiting'[r] = waiting[r]
  BY <1>1, <1>2
<1>7. woken \subseteq Program
  BY <1>2
<1>8. occupied' = {r \in Pid : r \in Ready' \cup {current'}}
  <2>1. \A r \in Pid : r \in Thread /\ r \notin woken
    BY <1>2, <1>7 DEF Thread
  <2>2. \A r \in Pid : r \in Ready' \cup {current'} <=> r \in Ready
    BY <1>5, <2>1
  <2> QED
    BY <1>1, <1>2, <2>2
<1>9. \A r \in Pid : WaiterSleeps(r)'
  <2> SUFFICES ASSUME NEW r \in Pid PROVE WaiterSleeps(r)'
    OBVIOUS
  <2>1. r = q => waiting'[r] \notin Program /\ waiting'[r] # Wild
    BY <1>2, <1>6 DEF Thread
  <2>2. r # q => waiting'[r] = waiting[r] /\ (waiting[r] = Wild => r >= Cleared)
    BY <1>2, <1>6 DEF WaiterSleeps
  <2>3. ASSUME r # q, waiting[r] \in Program
        PROVE  r \in occupied' /\ waiting'[r] \notin Ready' \cup {current'}
    <3>1. r \in occupied /\ waiting[r] \notin Ready \cup woken
      BY <1>2, <2>3 DEF WaitsOnce, WaiterSleeps
    <3>2. waiting[r] \notin Ready' \cup {current'}
      BY <1>5, <2>3, <3>1 DEF Thread
    <3> QED
      BY <1>1, <2>2, <2>3, <3>1, <3>2
  <2> QED
    BY <2>1, <2>2, <2>3 DEF WaiterSleeps
<1>10. WaitsOnce'
  BY <1>2, <1>6 DEF WaitsOnce, Thread
<1>11. machine' = machine \/ (machine' = "wild" /\ Cleared < MaxThreads)
  <2>1. waiting[q] = Wild => q >= Cleared /\ q < MaxThreads
    BY <1>2, UserProgAssumption DEF WaiterSleeps, Pid
  <2>2. waiting[q] = Wild => Cleared < MaxThreads
    BY <2>1, UserProgAssumption DEF Pid
  <2> QED
    BY <1>1, <2>2
<1> QED
  BY <1>1, <1>4, <1>5, <1>6, <1>8, <1>9, <1>10, <1>11, OtherPids DEF UserInv, TypeOK

(* The loops of a thread of Fork_POS only take time.                       *)
LEMMA LoopStep ==
  ASSUME UserInv, NEW q \in Pid, Loop(q)
  PROVE  UserInv'
<1>1. /\ slice' = Quantum
      /\ UNCHANGED <<paging, current, readyList, table, pid, occupied, waiting, pending,
                     seen, machine>>
  BY DEF Loop, pids
<1>2. PagingInv' /\ loaded' = loaded
  BY <1>1, PagingStutters DEF UserInv
<1>3. SchedOK' /\ Ready' = Ready
  BY <1>1, <1>2, UserProgAssumption
     DEF UserInv, TypeOK, SchedOK, TableIsCurrent, PidsOK, Ready
<1> QED
  BY <1>1, <1>2, <1>3, SamePids DEF UserInv, TypeOK

LEMMA UserInvStep == UserInv /\ [Next]_vars => UserInv'
<1> SUFFICES ASSUME UserInv, [Next]_vars PROVE UserInv'
  OBVIOUS
<1>1. CASE Preempt
  BY <1>1, PreemptStep
<1>2. ASSUME NEW p \in Program, Start(p) PROVE UserInv'
  BY <1>2, StartStep
<1>3. ASSUME NEW p \in Program, Instruction(p) PROVE UserInv'
  BY <1>3, PageFaultStep, LoadWordStep, StoreWordStep, WriteStep, ExitStep, ForkPOSStep,
     WaitPOSStep DEF Instruction
<1>4. ASSUME NEW q \in Pid, Loop(q) \/ ExitPOS(q) PROVE UserInv'
  BY <1>4, LoopStep, ExitPOSStep
<1>5. CASE UNCHANGED vars
  <2>1. UNCHANGED <<paging, current, readyList, table, slice, pid, occupied, waiting, pending,
                    seen, machine>>
    BY <1>5 DEF vars, sched, pids
  <2>2. PagingInv' /\ loaded' = loaded
    BY <2>1, PagingStutters DEF UserInv
  <2>3. SchedOK' /\ Ready' = Ready
    BY <2>1, <2>2 DEF UserInv, TypeOK, SchedOK, TableIsCurrent, PidsOK, Ready
  <2> QED
    BY <2>1, <2>2, <2>3, SamePids DEF UserInv, TypeOK
<1> QED
  BY <1>1, <1>2, <1>3, <1>4, <1>5 DEF Next, Run

LEMMA UserInvariant == Spec => []UserInv
  BY UserInvInit, UserInvStep, PTL DEF Spec

(* No step of the system leaves the types: the pids stay below MaxThreads, *)
(* the places in the swap file below what Load has given out.              *)
THEOREM UserProgTypeCorrect == Spec => []TypeOK
<1>1. UserInv => TypeOK
  BY DEF UserInv
<1> QED
  BY <1>1, UserInvariant, PTL

(* Page tables, bitmap and queue describe one assignment of frames, and    *)
(* the places in the swap file are one page's each: what PageReplacement   *)
(* relies on when it takes the head of the queue (machine/translate.cc).   *)
THEOREM FramesHaveOneOwner == Spec => []FramesOwned
<1>1. UserInv => FramesOwned
  BY FramesAreOwned DEF UserInv
<1> QED
  BY <1>1, UserInvariant, PTL

(* A program that Wait_POS put to sleep waits for a thread that is alive,  *)
(* and the pids in use are those of the living threads, so that Exit_POS   *)
(* of that thread comes and wakes it (threads/scheduler.cc).               *)
THEOREM WaitersHaveLivingChildren == Spec => []WaitersHaveChildren
<1>1. UserInv => WaitersHaveChildren
  BY DEF UserInv, PidsOK, WaiterSleeps, WaitersHaveChildren
<1> QED
  BY <1>1, UserInvariant, PTL

(* Exit_POS makes ready what is not a thread only because the constructor  *)
(* of Scheduler clears 100 entries of waiting_list, not all 256.           *)
THEOREM ClearingAllEntriesSuffices ==
  ASSUME Cleared = MaxThreads
  PROVE  Spec => [](machine # "wild")
<1>1. UserInv => machine # "wild"
  BY UserProgAssumption DEF UserInv, PidsOK
<1> QED
  BY <1>1, UserInvariant, PTL

-----------------------------------------------------------------------------
(* The address space of a program that is loaded is not NotLoaded, which   *)
(* holds nothing a page can hold.                                          *)
LEMMA SpacesDiffer ==
  ASSUME UserInv, NEW p \in Program
  PROVE  /\ AddressSpaces[p] = NotLoaded <=> p \notin loaded
         /\ p \in loaded => \A v \in Page : AddressSpaces[p][v] = Contents(p, v)
<1>1. \A v \in Page : Contents(p, v) \in Value
  BY WhereContentsAre DEF UserInv, ContentsPlaced
<1>2. p \in loaded => \A v \in Page : AddressSpaces[p][v] = Contents(p, v)
  BY DEF AddressSpaces
<1>3. p \notin loaded => AddressSpaces[p] = NotLoaded
  BY DEF AddressSpaces
<1>4. 0 \in Page /\ NotLoaded[0] = -1 /\ -1 \notin Value
  BY Sizes, PagingAssumption DEF NotLoaded
<1>5. p \in loaded => AddressSpaces[p] # NotLoaded
  BY <1>1, <1>2, <1>4
<1> QED
  BY <1>2, <1>3, <1>5

(* Reading a page of one's own that is in memory is a Read.                *)
LEMMA ReadRefines ==
  ASSUME UserInv, NEW p \in loaded, NEW v \in Page, current = p,
         AddressSpaces' = AddressSpaces, seen' = Contents(p, v)
  PROVE  Virtual!Next
<1>1. p \in Program
  BY DEF UserInv, TypeOK, PagingTypeOK
<1>2. Virtual!Read(p, v)
  BY <1>1, SpacesDiffer DEF Virtual!Read
<1> QED
  BY <1>1, <1>2 DEF Virtual!Next

(* What is left of a step when the address spaces do not change.           *)
LEMMA StutterRefines ==
  ASSUME UserInv, UNCHANGED <<paging, seen>>
  PROVE  UNCHANGED Virtual!vars
BY PagingStutters DEF UserInv, Virtual!vars

(* Each instruction of a program is one access to its own address space,   *)
(* or none.                                                                *)
LEMMA InstructionRefines ==
  ASSUME UserInv, NEW p \in Program, Instruction(p)
  PROVE  [Virtual!Next]_(Virtual!vars)
<1>0. PagingInv /\ ContentsPlaced
  BY WhereContentsAre DEF UserInv
<1>1. CASE PageFault(p)
  <2>1. PICK i \in Instr :
          /\ Runs(p, i)
          /\ \/ /\ ~ Translates(table, i.fetch)
                /\ PageReplacement(table, i.fetch)
             \/ /\ ~ Translates(table, i.page)
                /\ PageReplacement(table, i.page)
    BY <1>1 DEF PageFault
  <2>2. p \in loaded /\ table = p /\ i.fetch \in Page /\ i.page \in Page
    BY <2>1, RunsFacts
  <2>3. AddressSpaces' = AddressSpaces
    BY <1>0, <2>1, <2>2, ReplacementHidden
  <2> QED
    BY <1>1, <2>3 DEF PageFault, Virtual!vars
<1>2. CASE LoadWord(p)
  <2>1. PICK i \in Instr : /\ Completes(p, i, "load")
                           /\ seen' = mainMemory[FrameOf(table, i.page)]
                           /\ UNCHANGED paging
    BY <1>2 DEF LoadWord
  <2>2. /\ p \in loaded /\ table = p /\ current = p /\ i.page \in Page
        /\ i.op = "load" /\ (UsesPage(i) => Translates(p, i.page))
    BY <2>1, CompletesFacts
  <2>3. seen' = Contents(p, i.page)
    BY <1>0, <2>1, <2>2 DEF UsesPage, ContentsPlaced
  <2>4. AddressSpaces' = AddressSpaces
    BY <1>0, <2>1, PagingStutters
  <2> QED
    BY <2>2, <2>3, <2>4, ReadRefines
<1>3. CASE StoreWord(p)
  <2>1. PICK i \in Instr : Completes(p, i, "store") /\ WriteMem(table, i.page, i.arg)
    BY <1>3 DEF StoreWord
  <2>2. /\ p \in loaded /\ table = p /\ current = p /\ i.page \in Page /\ Runs(p, i)
        /\ i.op = "store" /\ (UsesPage(i) => Translates(p, i.page))
    BY <2>1, CompletesFacts
  <2>3. i.arg \in Value /\ Translates(p, i.page)
    BY <2>2, RunsFacts DEF UsesPage
  <2>4. AddressSpaces' = [AddressSpaces EXCEPT ![p][i.page] = i.arg]
    BY <1>0, <2>1, <2>2, <2>3, StoreFacts
  <2>5. AddressSpaces[p] # NotLoaded /\ seen' = seen
    BY <1>3, <2>2, SpacesDiffer DEF StoreWord
  <2>6. Virtual!Write(p, i.page, i.arg)
    BY <2>2, <2>4, <2>5 DEF Virtual!Write
  <2> QED
    BY <2>2, <2>3, <2>6 DEF Virtual!Next
<1>4. CASE Write(p)
  <2>1. PICK i \in Instr :
          /\ Completes(p, i, "write")
          /\ \/ /\ Translates(table, i.page)
                /\ UNCHANGED paging
                /\ seen' = mainMemory[FrameOf(table, i.page)]
             \/ /\ ~ Translates(table, i.page)
                /\ PageReplacement(table, i.page)
                /\ seen' = mainMemory'[pageTable'[table][i.page].physicalPage]
    BY <1>4 DEF Write
  <2>2. p \in loaded /\ table = p /\ current = p /\ i.page \in Page
    BY <2>1, CompletesFacts
  <2>3. AddressSpaces' = AddressSpaces /\ seen' = Contents(p, i.page)
    <3>1. CASE /\ Translates(p, i.page) /\ UNCHANGED paging
               /\ seen' = mainMemory[FrameOf(p, i.page)]
      BY <1>0, <2>2, <3>1, PagingStutters DEF ContentsPlaced
    <3>2. CASE /\ ~ Translates(p, i.page) /\ PageReplacement(p, i.page)
               /\ seen' = mainMemory'[FrameOf(p, i.page)']
      BY <1>0, <2>2, <3>2, ReplacementHidden
    <3> QED
      BY <2>1, <2>2, <3>1, <3>2 DEF FrameOf
  <2> QED
    BY <2>2, <2>3, ReadRefines
<1>5. CASE Add(p) \/ Exit(p) \/ ForkPOS(p) \/ WaitPOS(p)
  <2>1. UNCHANGED <<paging, seen>>
    BY <1>5 DEF Add, Exit, ForkPOS, WaitPOS
  <2> QED
    BY <2>1, StutterRefines
<1> QED
  BY <1>1, <1>2, <1>3, <1>4, <1>5 DEF Instruction

LEMMA UserStepRefines == UserInv /\ [Next]_vars => [Virtual!Next]_(Virtual!vars)
<1> SUFFICES ASSUME UserInv, [Next]_vars PROVE [Virtual!Next]_(Virtual!vars)
  OBVIOUS
<1>1. ASSUME NEW p \in Program, Start(p) PROVE Virtual!Next
  <2>1. /\ current = p /\ p \notin loaded /\ seen' = seen
        /\ AddressSpaces' = [AddressSpaces EXCEPT ![p] = Image[p]]
    BY <1>1, LoadFillsSpace DEF Start, UserInv, Load
  <2>2. Virtual!Load(p)
    BY <2>1, SpacesDiffer DEF Virtual!Load
  <2> QED
    BY <2>2 DEF Virtual!Next
<1>2. ASSUME NEW p \in Program, Instruction(p) PROVE [Virtual!Next]_(Virtual!vars)
  BY <1>2, InstructionRefines
<1>3. ASSUME UNCHANGED <<paging, seen>> PROVE [Virtual!Next]_(Virtual!vars)
  BY <1>3, StutterRefines
<1>4. CASE Preempt
  BY <1>3, <1>4 DEF Preempt
<1>5. ASSUME NEW q \in Pid, Loop(q) \/ ExitPOS(q) PROVE UNCHANGED <<paging, seen>>
  BY <1>5 DEF Loop, ExitPOS
<1>6. CASE UNCHANGED vars
  BY <1>3, <1>6 DEF vars
<1> QED
  BY <1>1, <1>2, <1>3, <1>4, <1>5, <1>6 DEF Next, Run

(* Demand paging does not show: page faults, write-backs to the swap file  *)
(* and switches of program leave every program the address space that its  *)
(* executable and its own stores made (machine/translate.cc,               *)
(* userprog/addrspace.cc).                                                 *)
THEOREM PagingDoesNotShow == Spec => ImplementsVirtualMemory
<1>1. Init => Virtual!Init
  <2> SUFFICES ASSUME Init PROVE Virtual!Init
    OBVIOUS
  <2>1. loaded = {} /\ seen \in Value
    BY PagingAssumption DEF Init, PagingInit
  <2> QED
    BY <2>1 DEF Virtual!Init, AddressSpaces
<1> QED
  BY <1>1, UserStepRefines, UserInvariant, PTL DEF Spec, ImplementsVirtualMemory, Virtual!Spec
=============================================================================
